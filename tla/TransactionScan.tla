--------------------------- MODULE TransactionScan ---------------------------
(***************************************************************************)
(* The transaction poller, TransactionJob::start_polling                   *)
(* (src/src/transaction.rs:347-673): one cursor scan of                    *)
(* GetPendingTransactions after another, each page handed to the processor *)
(* as a tick whose acknowledgement the poller waits for, with an owed      *)
(* retry, a bounded drain of pages that submit nothing, and the detection  *)
(* of chains that have gone idle.                                          *)
(*                                                                         *)
(* The Platform's replies and the processor's outcomes are arbitrary here. *)
(* Delays are abstracted to the wait they lead to; the exponent is kept.   *)
(***************************************************************************)
EXTENDS WorkTrigger, FiniteSets

CONSTANTS
    Chains,              \* (network, chain) pairs
    Cursors,             \* page cursors the Platform hands out
    MaxEmptyPages,       \* MAX_CONSECUTIVE_EMPTY_PAGES, 20 in the code
    MaxFailures          \* bound on failure_count, which saturates

ASSUME ScanAssumption ==
    /\ MaxEmptyPages \in Nat
    /\ MaxFailures \in Nat \ {0}

VARIABLES
    call,           \* what the poller awaits inside a scan
    cursor,         \* cursor of the page requested or being processed
    nextCursor,     \* cursor that came with that page
    previous,       \* previous_scan_chains
    current,        \* current_scan_chains
    idle,           \* the idle set of the tick in flight
    required,       \* scan_retry.required
    unproductive,   \* unproductive_pages
    failures,       \* failure_count
    (* history *)
    leftBehind,     \* the latest scan left rows for a later one (the code counts
                    \* rows that do not convert on the last page as none)
    reachedEnd,     \* the latest page was the last one
    seen,           \* chains with a row in this scan
    barren          \* requests in a row that neither submitted nor waited

scanVars == <<call, cursor, nextCursor, previous, current, idle, required,
              unproductive, failures, leftBehind, reachedEnd, seen, barren>>
vars == <<triggerVars, scanVars>>

NoCursor == "none"
CursorOrNone == Cursors \cup {NoCursor}

BatchOutcome == {"Completed", "PartialProgress", "Skipped", "SubmissionFailed"}

TypeOK ==
    /\ TriggerTypeOK
    /\ call \in {"none", "request", "batchAck", "idleAck", "finish", "exited"}
    /\ cursor \in CursorOrNone
    /\ nextCursor \in CursorOrNone
    /\ previous \subseteq Chains
    /\ current \subseteq Chains
    /\ idle \subseteq Chains
    /\ required \in BOOLEAN
    /\ unproductive \in 0 .. MaxEmptyPages
    /\ failures \in 0 .. MaxFailures
    /\ leftBehind \in BOOLEAN
    /\ reachedEnd \in BOOLEAN
    /\ seen \subseteq Chains
    /\ barren \in Nat

Init ==
    /\ TriggerInit
    /\ call = "none"
    /\ cursor = NoCursor
    /\ nextCursor = NoCursor
    /\ previous = {}
    /\ current = {}
    /\ idle = {}
    /\ required = FALSE
    /\ unproductive = 0
    /\ failures = 0
    /\ leftBehind = FALSE
    /\ reachedEnd = FALSE
    /\ seen = {}
    /\ barren = 0

-----------------------------------------------------------------------------
(* Helpers of the loop.                                                    *)

\* saturating_add(1), at the model's bound
OneMoreFailure(count) == IF count < MaxFailures THEN count + 1 ELSE count

\* Mutant: one page too many is drained.
DrainOnePageMore(from, next, emptyPages) ==
    next \notin {NoCursor, from} /\ emptyPages <= MaxEmptyPages

\* retry::should_continue_empty_drain
ShouldContinueEmptyDrain(from, next, emptyPages) ==
    next \notin {NoCursor, from} /\ emptyPages < MaxEmptyPages

\* complete_chain_scan(previous, active), with its idle set
CompleteChainScan(active) ==
    /\ idle' = previous \ active
    /\ previous' = active
    /\ current' = {}

\* Entering either wait paces the loop.
Paced(next) == next \in {"readyCheck", "newStart"}

\* Mutant: work known to be pending skips the failure delay.
DeferredSkipsDelay(owed, deferred) ==
    IF deferred THEN "lookup" ELSE IF owed THEN "newStart" ELSE "readyCheck"

\* finish_scan_retry: wait for a trigger, fetch at once, or wait out a failure
\* delay, given whether a retry is owed and whether work was deferred.
FinishScanRetry(owed, deferred) ==
    IF owed THEN "newStart" ELSE IF deferred THEN "lookup" ELSE "readyCheck"

\* The failure count finish_scan_retry leaves.
FailuresAfterScan(owed, count) == IF owed THEN OneMoreFailure(count) ELSE 0

\* What every retry from a fresh cursor resets.
ResetScan ==
    /\ call' = "none"
    /\ cursor' = NoCursor
    /\ nextCursor' = NoCursor
    /\ idle' = {}
    /\ required' = FALSE
    /\ unproductive' = 0

-----------------------------------------------------------------------------
(* Requesting a page.                                                      *)

\* Mutant: a fresh scan that does not take over what was recorded before it.
StartScanUnannounced ==
    /\ worker = "lookup"
    /\ worker' = "working"
    /\ call' = "request"
    /\ current' = {}
    /\ UNCHANGED <<trigger, permit, recorder, timer, baseline, recorded, news,
                   cursor, nextCursor, previous, idle, required, unproductive,
                   failures, leftBehind, reachedEnd, seen, barren>>

\* A fresh scan: current_scan_chains.clear(), begin_fresh_lookup, request.
StartScan ==
    /\ BeginFreshLookup
    /\ call' = "request"
    /\ current' = {}
    /\ leftBehind' = FALSE
    /\ reachedEnd' = FALSE
    /\ seen' = {}
    /\ UNCHANGED <<cursor, nextCursor, previous, idle, required, unproductive,
                   failures, barren>>

\* A page none of whose rows converts, drained: the scan goes on to next.
DrainPage(next) ==
    /\ call = "request"
    /\ ShouldContinueEmptyDrain(cursor, next, unproductive)
    /\ unproductive' = unproductive + 1
    /\ cursor' = next
    /\ required' = TRUE
    /\ leftBehind' = TRUE
    /\ reachedEnd' = FALSE
    /\ barren' = barren + 1
    /\ UNCHANGED <<triggerVars, call, nextCursor, previous, current, idle,
                   failures, seen>>

\* Such a page when the drain may not go on: the last page, a repeated cursor
\* or the bound.  The scan is treated as completed.
AbandonScan(next) ==
    /\ call = "request"
    /\ ~ShouldContinueEmptyDrain(cursor, next, unproductive)
    /\ required' = (required \/ next # NoCursor)
    /\ unproductive' = 0
    /\ CompleteChainScan(current)
    /\ call' = IF idle' = {} THEN "finish" ELSE "idleAck"
    /\ leftBehind' = (leftBehind \/ next # NoCursor)
    /\ reachedEnd' = (next = NoCursor)
    /\ barren' = barren + 1
    /\ UNCHANGED <<triggerVars, cursor, nextCursor, failures, seen>>

\* NO_TRANSACTIONS_MSG: no result, or a page without rows.
NoTransactions ==
    /\ call = "request"
    /\ unproductive' = 0
    /\ CompleteChainScan(current)
    /\ call' = IF idle' = {} THEN "finish" ELSE "idleAck"
    /\ reachedEnd' = TRUE
    /\ barren' = barren + 1
    /\ UNCHANGED <<triggerVars, cursor, nextCursor, required, failures,
                   leftBehind, seen>>

\* Any other error: the scan is dropped and retried after a delay.
FetchFails ==
    /\ call = "request"
    /\ FinishEmptyLookup("newStart")
    /\ ResetScan
    /\ current' = {}
    /\ failures' = OneMoreFailure(failures)
    /\ leftBehind' = TRUE
    /\ barren' = 0
    /\ UNCHANGED <<previous, reachedEnd, seen>>

\* Mutant: only the last page's chains count as active.
PageRowsOfLastPage(rowChains, next) ==
    /\ call = "request"
    /\ IF next = NoCursor
       THEN CompleteChainScan(rowChains)
       ELSE current' = rowChains /\ idle' = {} /\ UNCHANGED previous
    /\ nextCursor' = next
    /\ call' = "batchAck"
    /\ reachedEnd' = (next = NoCursor)
    /\ seen' = seen \cup rowChains
    /\ UNCHANGED <<triggerVars, cursor, required, unproductive, failures,
                   leftBehind, barren>>

\* A page with rows on rowChains: it is sent to the processor, with the idle
\* set when it is the last one.
PageRows(rowChains, next) ==
    /\ call = "request"
    /\ IF next = NoCursor
       THEN CompleteChainScan(current \cup rowChains)
       ELSE /\ current' = current \cup rowChains
            /\ idle' = {}
            /\ UNCHANGED previous
    /\ nextCursor' = next
    /\ call' = "batchAck"
    /\ reachedEnd' = (next = NoCursor)
    /\ seen' = seen \cup rowChains
    /\ UNCHANGED <<triggerVars, cursor, required, unproductive, failures,
                   leftBehind, barren>>

-----------------------------------------------------------------------------
(* Acknowledgements.                                                       *)

\* Mutant: submitted work always resets the retry escalation.
FailuresAlwaysReset == 0

\* reset_failure_count_after_progress, before this page's own retry is noted.
FailuresAfterProgress == IF required THEN failures ELSE 0

\* Mutant: a page that made progress needs no retry.
OwedAfterCompleted(outcome) == required

\* A partial page owes a retry; an earlier page's debt stays.
OwedAfter(outcome) == required \/ outcome = "PartialProgress"

\* The batch was submitted, wholly or in part: BatchStep::Continue with
\* made_progress.  On the last page the scan is finished too.
AckProgress(outcome) ==
    LET owed == OwedAfter(outcome)
        last == nextCursor = NoCursor
        next == IF last THEN FinishScanRetry(owed, Deferred) ELSE "working"
    IN  /\ call = "batchAck"
        /\ outcome \in {"Completed", "PartialProgress"}
        /\ FinishBatch(last, next)
        /\ unproductive' = 0
        /\ cursor' = nextCursor
        /\ nextCursor' = NoCursor
        /\ idle' = {}
        /\ call' = IF last THEN "none" ELSE "request"
        /\ required' = (owed /\ ~last)
        /\ failures' = IF last THEN FailuresAfterScan(owed, FailuresAfterProgress)
                       ELSE FailuresAfterProgress
        /\ leftBehind' = (leftBehind \/ outcome = "PartialProgress")
        /\ barren' = 0
        /\ UNCHANGED <<previous, current, reachedEnd, seen>>

\* Every row of the page was skipped and the drain may go on.
AckSkippedPage ==
    /\ call = "batchAck"
    /\ ShouldContinueEmptyDrain(cursor, nextCursor, unproductive)
    /\ FinishBatch(FALSE, "working")
    /\ unproductive' = unproductive + 1
    /\ required' = TRUE
    /\ cursor' = nextCursor
    /\ nextCursor' = NoCursor
    /\ idle' = {}
    /\ call' = "request"
    /\ leftBehind' = TRUE
    /\ barren' = barren + 1
    /\ UNCHANGED <<previous, current, failures, reachedEnd, seen>>

\* BatchStep::RetryFresh: the submission failed, or the drain may not go on.
AckRetryFresh(outcome) ==
    /\ call = "batchAck"
    /\ \/ outcome = "SubmissionFailed"
       \/ /\ outcome = "Skipped"
          /\ ~ShouldContinueEmptyDrain(cursor, nextCursor, unproductive)
    /\ FinishBatch(nextCursor = NoCursor, "newStart")
    /\ ResetScan
    /\ current' = {}
    /\ failures' = OneMoreFailure(failures)
    /\ leftBehind' = TRUE
    /\ barren' = 0
    /\ UNCHANGED <<previous, reachedEnd, seen>>

\* The processor acknowledged an idle tick.
AckIdle ==
    /\ call = "idleAck"
    /\ call' = "finish"
    /\ idle' = {}
    /\ UNCHANGED <<triggerVars, cursor, nextCursor, previous, current, required,
                   unproductive, failures, leftBehind, reachedEnd, seen, barren>>

\* The processor is gone or dropped the acknowledgement: start_polling ends.
DispatchFails ==
    /\ call \in {"batchAck", "idleAck"}
    /\ call' = "exited"
    /\ UNCHANGED <<triggerVars, cursor, nextCursor, previous, current, idle,
                   required, unproductive, failures, leftBehind, reachedEnd,
                   seen, barren>>

\* After a scan that ended without rows: finish_empty_lookup when the whole
\* scan was one request, else finish_batch(true); then finish_scan_retry.
FinishScan ==
    LET fresh    == cursor = NoCursor
        deferred == ~fresh /\ Deferred
        next     == FinishScanRetry(required, deferred)
    IN  /\ call = "finish"
        /\ IF fresh THEN FinishEmptyLookup(next) ELSE FinishBatch(TRUE, next)
        /\ ResetScan
        /\ failures' = FailuresAfterScan(required, failures)
        /\ barren' = IF Paced(next) THEN 0 ELSE barren
        /\ UNCHANGED <<previous, current, leftBehind, reachedEnd, seen>>

-----------------------------------------------------------------------------
Fetching ==
    \/ StartScan
    \/ \E next \in CursorOrNone : DrainPage(next) \/ AbandonScan(next)
    \/ NoTransactions
    \/ FetchFails
    \/ \E rowChains \in SUBSET Chains \ {{}}, next \in CursorOrNone :
           PageRows(rowChains, next)

Acknowledged ==
    \/ \E outcome \in BatchOutcome : AckProgress(outcome) \/ AckRetryFresh(outcome)
    \/ AckSkippedPage
    \/ AckIdle
    \/ DispatchFails
    \/ FinishScan

\* The reader, the debounce timer and the worker's waits leave the scan alone.
Elsewhere ==
    /\ Reader \/ DebounceElapses \/ Waiting \/ WaitCancelled
    /\ UNCHANGED scanVars

Next == Fetching \/ Acknowledged \/ Elsewhere

Spec == Init /\ [][Next]_vars

\* A request that ends the scan: the Platform has a last page, or does not answer.
LastRequest ==
    \/ NoTransactions
    \/ FetchFails
    \/ \E rowChains \in SUBSET Chains \ {{}} : PageRows(rowChains, NoCursor)

\* The worker is polled, each of its requests is answered or fails within 30
\* seconds (global.rs:8-14), and the processor acknowledges every batch or is
\* gone; a queue of pages has an end; and a delay that has elapsed stays
\* elapsed, however often a notification wakes the select!.  Neither events nor
\* fallback polls are relied on.
FairSpec ==
    /\ Spec
    /\ WF_vars(Fetching \/ Acknowledged \/ (Waiting /\ UNCHANGED scanVars))
    /\ SF_vars(LastRequest)
    /\ SF_vars(/\ worker \in {"newArmed", "newParked"}
               /\ WaitCancelled
               /\ UNCHANGED scanVars)

-----------------------------------------------------------------------------
(* Properties.                                                             *)

\* A scan that left work behind is followed by a fresh one after a delay at
\* the latest: the poller never settles into the wait for triggers, where a
\* skipped or partial page could be hidden by a later successful page
\* (transaction.rs:108-110, 571-573).
OwedRetryNeverParked ==
    worker \in {"readyCheck", "readyArmed", "readyParked"} => ~leftBehind

\* No chain with a row on any page of the scan is reported idle with it,
\* even when the chain is missing from the last page (transaction.rs:348-350).
IdleChainsUnseen == idle \cap seen = {}

\* A Platform that never accepts anything cannot draw an unpaced storm of
\* requests out of the poller, whatever its replies and whatever events
\* arrive: the loop waits after a bounded run of requests that submitted
\* nothing (retry.rs:12-19, transaction.rs:398-404).
NoRequestStorm == barren <= MaxEmptyPages + 2

\* The retry escalation only falls back to its start when no earlier page of
\* the scan left work behind (transaction.rs:121-128).
EscalationIsSticky ==
    [][failures' < failures => ~leftBehind]_vars

\* What a scan left behind is looked up again, by a fresh scan, although no event
\* announces it any more: over partial and skipped pages, abandoned scans, and
\* notifications that cut the delays short (transaction.rs:571-606).
LeftWorkIsLookedUp == leftBehind ~> ~leftBehind \/ call = "exited"

\* The poller uses its trigger as the trigger's own specification says a
\* worker does, so what is proved of the trigger holds of the poller.
FollowsTriggerProtocol == TriggerSafety

\* Idle chains are reported only by a completed cursor scan
\* (transaction.rs:139-142, 348-350).  Abandoned scans break it.
IdleOnlyAfterCompletedScan == idle # {} => reachedEnd
=============================================================================
