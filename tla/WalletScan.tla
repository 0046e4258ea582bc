------------------------------ MODULE WalletScan ------------------------------
(***************************************************************************)
(* The managed-wallet poller, DeriveWalletJob::start_polling               *)
(* (src/src/wallet.rs:167-334).  It follows the same trigger protocol as   *)
(* the transaction poller with different rules: a page whose submission    *)
(* failed does not end the scan but delays its next page, so that a poison *)
(* page cannot hide the pages behind it.                                   *)
(*                                                                         *)
(* The Platform's replies and the processor's outcomes are arbitrary.      *)
(* Delays are abstracted to the wait they lead to; the exponent is kept.   *)
(***************************************************************************)
EXTENDS WorkTrigger

CONSTANTS
    Cursors,             \* page cursors the Platform hands out
    MaxEmptyPages,       \* MAX_CONSECUTIVE_EMPTY_PAGES, 20 in the code
    MaxFailures          \* bound on failure_count, which saturates

ASSUME WalletAssumption ==
    /\ MaxEmptyPages \in Nat
    /\ MaxFailures \in Nat \ {0}

VARIABLES
    call,           \* what the poller awaits inside a scan
    cursor,         \* cursor of the page requested or to be requested
    nextCursor,     \* next cursor of the page being populated
    restart,        \* restart_after_scan
    emptyPages,     \* empty_pages
    failures,       \* failure_count
    (* history *)
    leftBehind,     \* the scan failed, skipped or never reached a page (the code
                    \* counts a last page without a convertible row as none)
    dropped,        \* the latest page had a row that does not convert
    barren          \* requests in a row that neither populated nor waited

scanVars == <<call, cursor, nextCursor, restart, emptyPages, failures,
              leftBehind, dropped, barren>>
vars == <<triggerVars, scanVars>>

NoCursor == "none"
CursorOrNone == Cursors \cup {NoCursor}

\* What derive_wallets and the submission of its result make of a page.
BatchOutcome == {"Completed", "SubmissionFailed"}

TypeOK ==
    /\ TriggerTypeOK
    /\ call \in {"none", "request", "ack", "exited"}
    /\ cursor \in CursorOrNone
    /\ nextCursor \in CursorOrNone
    /\ restart \in BOOLEAN
    /\ emptyPages \in 0 .. MaxEmptyPages
    /\ failures \in 0 .. MaxFailures
    /\ leftBehind \in BOOLEAN
    /\ dropped \in BOOLEAN
    /\ barren \in Nat

Init ==
    /\ TriggerInit
    /\ call = "none"
    /\ cursor = NoCursor
    /\ nextCursor = NoCursor
    /\ restart = FALSE
    /\ emptyPages = 0
    /\ failures = 0
    /\ leftBehind = FALSE
    /\ dropped = FALSE
    /\ barren = 0

-----------------------------------------------------------------------------
(* The decisions, pure functions in the code.                              *)

\* WalletStep::Continue and WalletStep::DelayThenFetch.
Continue(next, owed, reset, fetchNow) ==
    [delay |-> FALSE, cursor |-> next, restart |-> owed, reset |-> reset,
     fetchNow |-> fetchNow]
DelayThenFetch(next, owed) ==
    [delay |-> TRUE, cursor |-> next, restart |-> owed, reset |-> FALSE,
     fetchNow |-> TRUE]

\* Mutant: the last page's success stands for the whole scan.
WalletStepOfLastPage(outcome, next, owed, deferred) ==
    IF outcome = "SubmissionFailed" THEN DelayThenFetch(next, next # NoCursor)
    ELSE Continue(next, owed /\ next # NoCursor, ~owed, next # NoCursor \/ deferred)

\* Mutant: a healthy page clears the backoff of an earlier failed one.
WalletStepAlwaysResetting(outcome, next, owed, deferred) ==
    IF outcome = "SubmissionFailed" THEN DelayThenFetch(next, next # NoCursor)
    ELSE IF next = NoCursor /\ owed THEN DelayThenFetch(NoCursor, FALSE)
    ELSE Continue(next, owed, TRUE, next # NoCursor \/ deferred)

\* wallet_step, after a page that produced wallets to populate.
WalletStep(outcome, next, owed, deferred) ==
    IF outcome = "SubmissionFailed" THEN DelayThenFetch(next, next # NoCursor)
    ELSE IF next = NoCursor /\ owed THEN DelayThenFetch(NoCursor, FALSE)
    ELSE Continue(next, owed, ~owed, next # NoCursor \/ deferred)

\* Mutant: an owed retry is fetched at once.
EmptyScanStepUndelayed(owed, deferred) ==
    Continue(NoCursor, FALSE, ~owed, owed \/ deferred)

\* empty_scan_step, after a scan that ended with nothing left to populate.
EmptyScanStep(owed, deferred) ==
    IF owed THEN DelayThenFetch(NoCursor, FALSE)
    ELSE Continue(NoCursor, FALSE, TRUE, deferred)

\* Mutant: one page too many is drained.
DrainOnePageMore(from, next, pages) ==
    next \notin {NoCursor, from} /\ pages <= MaxEmptyPages

\* retry::should_continue_empty_drain
ShouldContinueEmptyDrain(from, next, pages) ==
    next \notin {NoCursor, from} /\ pages < MaxEmptyPages

\* saturating_add(1), at the model's bound
OneMoreFailure(count) == IF count < MaxFailures THEN count + 1 ELSE count

\* Where apply_step and the head of the loop take the worker.
PlaceAfter(step) ==
    IF step.delay THEN "newStart"
    ELSE IF ~step.fetchNow THEN "readyCheck"
    ELSE IF step.cursor = NoCursor THEN "lookup" ELSE "working"

\* What apply_step leaves of the loop's state.
ApplyStep(step) ==
    /\ cursor' = step.cursor
    /\ restart' = step.restart
    /\ failures' = IF step.delay THEN OneMoreFailure(failures)
                   ELSE IF step.reset THEN 0 ELSE failures
    /\ call' = IF PlaceAfter(step) = "working" THEN "request" ELSE "none"

-----------------------------------------------------------------------------
(* Requesting a page.                                                      *)

\* Mutant: a fresh lookup that does not take over what was recorded before it.
StartScanUnannounced ==
    /\ cursor = NoCursor
    /\ worker = "lookup"
    /\ worker' = "working"
    /\ call' = "request"
    /\ leftBehind' = FALSE
    /\ UNCHANGED <<trigger, permit, recorder, timer, baseline, recorded, news,
                   cursor, nextCursor, restart, emptyPages, failures, dropped,
                   barren>>

\* A fresh lookup: begin_fresh_lookup and the first request.
StartScan ==
    /\ cursor = NoCursor
    /\ BeginFreshLookup
    /\ call' = "request"
    /\ leftBehind' = FALSE
    /\ UNCHANGED <<cursor, nextCursor, restart, emptyPages, failures, dropped, barren>>

\* The next page of a scan, after the delay a failed page cost it: the trigger
\* is not told.
RequestNextPage ==
    /\ cursor # NoCursor
    /\ worker = "lookup"
    /\ worker' = "working"
    /\ call' = "request"
    /\ UNCHANGED <<trigger, permit, recorder, timer, baseline, recorded, news,
                   cursor, nextCursor, restart, emptyPages, failures,
                   leftBehind, dropped, barren>>

\* A page without a convertible row, drained: the scan goes on to next.
DrainPage(next, unconverted) ==
    /\ call = "request"
    /\ ShouldContinueEmptyDrain(cursor, next, emptyPages)
    /\ emptyPages' = emptyPages + 1
    /\ cursor' = next
    /\ restart' = TRUE
    /\ leftBehind' = TRUE
    /\ dropped' = unconverted
    /\ barren' = barren + 1
    /\ UNCHANGED <<triggerVars, call, nextCursor, failures>>

\* Such a page when the drain may not go on: the last page, a repeated cursor
\* or the bound.
EndWithoutWallets(next, unconverted) ==
    LET owed     == restart \/ next # NoCursor
        fresh    == cursor = NoCursor
        deferred == ~fresh /\ Deferred
        step     == EmptyScanStep(owed, deferred)
    IN  /\ call = "request"
        /\ ~ShouldContinueEmptyDrain(cursor, next, emptyPages)
        /\ IF fresh THEN FinishEmptyLookup(PlaceAfter(step))
           ELSE FinishBatch(TRUE, PlaceAfter(step))
        /\ ApplyStep(step)
        /\ emptyPages' = 0
        /\ leftBehind' = (leftBehind \/ next # NoCursor)
        /\ dropped' = unconverted
        /\ barren' = IF PlaceAfter(step) = "lookup" THEN barren + 1 ELSE 0
        /\ UNCHANGED nextCursor

\* A page with convertible rows is sent to the processor; rows beside them
\* that do not convert are left out.
PageOfWallets(next, unconverted) ==
    /\ call = "request"
    /\ emptyPages' = 0
    /\ nextCursor' = next
    /\ call' = "ack"
    /\ dropped' = unconverted
    /\ UNCHANGED <<triggerVars, cursor, restart, failures, leftBehind, barren>>

\* Mutant: after the delay the scan goes on at the page that failed, and what it
\* owed is forgotten.
FetchFailsResuming ==
    /\ call = "request"
    /\ FinishBatch(FALSE, "newStart")
    /\ call' = "none"
    /\ restart' = FALSE
    /\ emptyPages' = 0
    /\ failures' = OneMoreFailure(failures)
    /\ leftBehind' = TRUE
    /\ barren' = 0
    /\ UNCHANGED <<cursor, nextCursor, dropped>>

\* GetPendingManagedWalletCreations failed: the scan is given up and a fresh
\* one follows after a delay.
FetchFails ==
    /\ call = "request"
    /\ FinishEmptyLookup("newStart")
    /\ call' = "none"
    /\ cursor' = NoCursor
    /\ restart' = FALSE
    /\ emptyPages' = 0
    /\ failures' = OneMoreFailure(failures)
    /\ leftBehind' = TRUE
    /\ barren' = 0
    /\ UNCHANGED <<nextCursor, dropped>>

-----------------------------------------------------------------------------
(* The processor's acknowledgement.                                        *)

\* Mutant: the trigger is told that a failed page ends the scan.
AcknowledgedClosingLookup(outcome) ==
    LET step == WalletStep(outcome, nextCursor, restart, Deferred)
    IN  /\ call = "ack"
        /\ FinishBatch(nextCursor = NoCursor \/ outcome = "SubmissionFailed",
                       PlaceAfter(step))
        /\ ApplyStep(step)
        /\ nextCursor' = NoCursor
        /\ leftBehind' = (leftBehind \/ outcome = "SubmissionFailed")
        /\ barren' = 0
        /\ UNCHANGED <<emptyPages, dropped>>

\* The page was populated, or its submission failed.
Acknowledged(outcome) ==
    LET step == WalletStep(outcome, nextCursor, restart, Deferred)
    IN  /\ call = "ack"
        /\ FinishBatch(nextCursor = NoCursor, PlaceAfter(step))
        /\ ApplyStep(step)
        /\ nextCursor' = NoCursor
        /\ leftBehind' = (leftBehind \/ outcome = "SubmissionFailed")
        /\ barren' = 0
        /\ UNCHANGED <<emptyPages, dropped>>

\* The processor is gone or dropped the acknowledgement: start_polling ends.
DispatchFails ==
    /\ call = "ack"
    /\ call' = "exited"
    /\ UNCHANGED <<triggerVars, cursor, nextCursor, restart, emptyPages,
                   failures, leftBehind, dropped, barren>>

-----------------------------------------------------------------------------
Scan ==
    \/ StartScan
    \/ RequestNextPage
    \/ \E next \in CursorOrNone, unconverted \in BOOLEAN :
           \/ DrainPage(next, unconverted)
           \/ EndWithoutWallets(next, unconverted)
           \/ PageOfWallets(next, unconverted)
    \/ FetchFails
    \/ \E outcome \in BatchOutcome : Acknowledged(outcome)
    \/ DispatchFails

\* The reader, the debounce timer and the worker's waits leave the scan alone.
Elsewhere ==
    /\ Reader \/ DebounceElapses \/ Waiting \/ WaitCancelled
    /\ UNCHANGED scanVars

Next == Scan \/ Elsewhere

Spec == Init /\ [][Next]_vars

\* A request that ends the scan: the Platform has a last page, or does not answer.
LastRequest ==
    \/ \E unconverted \in BOOLEAN :
           EndWithoutWallets(NoCursor, unconverted) \/ PageOfWallets(NoCursor, unconverted)
    \/ FetchFails

\* The worker is polled, and each of its requests answered or failed within 30
\* seconds (global.rs:8-14); a queue of pages has an end; and a delay that has
\* elapsed stays elapsed, however often a notification wakes the select!.
\* Neither events nor fallback polls are relied on.
FairSpec ==
    /\ Spec
    /\ WF_vars(Scan \/ (Waiting /\ UNCHANGED scanVars))
    /\ SF_vars(LastRequest)
    /\ SF_vars(/\ worker \in {"newArmed", "newParked"}
               /\ WaitCancelled
               /\ UNCHANGED scanVars)

-----------------------------------------------------------------------------
(* Properties.                                                             *)

\* The poller settles into the wait for triggers only after a scan that got
\* through all its pages: a failed, skipped or unreached page is looked up
\* again without a trigger, whatever the later pages were (wallet.rs:69-88).
OwedScanNeverParked ==
    worker \in {"readyCheck", "readyArmed", "readyParked"} => ~leftBehind

\* A delay in the middle of a scan does not close its lookup: the trigger
\* still holds the generation the scan began with, from which events that
\* arrive before its end are recognised as deferred (work_trigger.rs:232-245).
LookupStaysOpen ==
    call # "none" \/ cursor # NoCursor => trigger.lookup # NoLookup

\* Whatever the Platform replies and whatever events arrive, only a bounded
\* run of requests populates nothing without a pause (wallet.rs:192-197,
\* 297-300).
NoRequestStorm == barren <= MaxEmptyPages + 2

\* The retry escalation only falls back to its start in a scan that has left
\* nothing behind so far (wallet.rs:79-81).
EscalationIsSticky == [][failures' < failures => ~leftBehind]_vars

\* What a scan left behind is looked up again, by a fresh scan, although no event
\* announces it any more: over pages that keep failing, delays within the scan and
\* notifications that cut them short (wallet.rs:69-88, 264-295).
LeftWorkIsLookedUp == leftBehind ~> ~leftBehind \/ call = "exited"

\* The poller uses its trigger as the trigger's own specification says a
\* worker does, so what is proved of the trigger holds of the poller.
FollowsTriggerProtocol == TriggerSafety

\* "failure_count is never reset while any scan leaves work behind, so a
\* single row the daemon can never convert drives the delay to the 60s cap and
\* holds it there" (wallet.rs:302-305).  A single such row on the last page, or
\* beside a convertible one, resets it.
FailureCountHeldByBadRow == [][failures' < failures => ~dropped']_vars
=============================================================================
