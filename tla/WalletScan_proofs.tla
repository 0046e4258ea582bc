-------------------------- MODULE WalletScan_proofs --------------------------
(***************************************************************************)
(* Proofs that the wallet poller is a worker in the trigger's sense even   *)
(* though it delays in the middle of a scan, that it never settles with    *)
(* work left behind and never storms the Platform, for every set of        *)
(* cursors, every event limit and every drain bound.                       *)
(***************************************************************************)
EXTENDS WalletScan, WorkTrigger_proofs

\* The poller awaits a call exactly while the trigger sees it working, and
\* waits for triggers only between scans.
CallsWhileWorking ==
    /\ worker = "working" <=> call # "none"
    /\ worker \in {"readyCheck", "readyArmed", "readyParked"} => cursor = NoCursor

\* Within a scan, delays included, restart says whether work was left behind;
\* a delay interrupts only scans that owe a retry, between scans nothing is
\* owed, and the poller settles only after a scan that has left nothing.
DebtIsKnown ==
    /\ call # "none" \/ cursor # NoCursor => restart = leftBehind
    /\ call = "none" => restart = (cursor # NoCursor)
    /\ worker \in {"readyCheck", "readyArmed", "readyParked"} => ~leftBehind

\* The request budget: one request may precede a scan, each drained page
\* counts against the drain bound, and past the first page a scan that owes
\* nothing has just populated something.
RequestBudget ==
    /\ worker = "lookup" => barren <= 1
    /\ worker \notin {"lookup", "working"} => barren = 0
    /\ call = "request" => barren <= emptyPages + 1
    /\ call = "request" /\ cursor # NoCursor /\ ~restart => barren = 0
    /\ call \in {"ack", "exited"} => barren <= MaxEmptyPages + 1

WalletInv ==
    /\ TypeOK
    /\ CallsWhileWorking
    /\ DebtIsKnown
    /\ LookupStaysOpen
    /\ RequestBudget

-----------------------------------------------------------------------------
(* The decisions.                                                          *)

\* Where wallet_step sends the worker, given what finish_batch reported.
LEMMA WalletStepOutcome ==
    ASSUME NEW outcome \in BatchOutcome, NEW next \in CursorOrNone,
           NEW owed \in BOOLEAN, NEW deferred \in BOOLEAN
    PROVE  LET step == WalletStep(outcome, next, owed, deferred)
           IN  /\ step.restart \in BOOLEAN
               /\ step.cursor = next
               /\ next # NoCursor =>
                      /\ PlaceAfter(step) = IF outcome = "Completed" THEN "working"
                                            ELSE "newStart"
                      /\ step.restart = (owed \/ outcome = "SubmissionFailed")
               /\ next = NoCursor =>
                      /\ PlaceAfter(step) = IF outcome = "SubmissionFailed" \/ owed
                                            THEN "newStart"
                                            ELSE IF deferred THEN "lookup" ELSE "readyCheck"
                      /\ ~step.restart
               /\ ~step.delay /\ step.reset => ~owed
BY DEF WalletStep, DelayThenFetch, Continue, PlaceAfter, BatchOutcome, CursorOrNone

\* Where empty_scan_step sends it.
LEMMA EmptyScanStepOutcome ==
    ASSUME NEW owed \in BOOLEAN, NEW deferred \in BOOLEAN
    PROVE  LET step == EmptyScanStep(owed, deferred)
           IN  /\ ~step.restart
               /\ step.restart \in BOOLEAN
               /\ step.cursor = NoCursor
               /\ PlaceAfter(step) = IF owed THEN "newStart"
                                     ELSE IF deferred THEN "lookup" ELSE "readyCheck"
               /\ ~step.delay /\ step.reset => ~owed
BY DEF EmptyScanStep, DelayThenFetch, Continue, PlaceAfter

LEMMA DeferredIsBoolean == Deferred \in BOOLEAN
BY DEF Deferred

\* A drained page keeps the count of empty pages within its bound.
LEMMA DrainWithinBound ==
    ASSUME NEW from, NEW next, ShouldContinueEmptyDrain(from, next, emptyPages),
           emptyPages \in 0 .. MaxEmptyPages
    PROVE  emptyPages + 1 \in 0 .. MaxEmptyPages /\ next # NoCursor
BY WalletAssumption DEF ShouldContinueEmptyDrain

LEMMA FailureTypes ==
    ASSUME NEW count \in 0 .. MaxFailures
    PROVE  /\ OneMoreFailure(count) \in 0 .. MaxFailures /\ OneMoreFailure(count) >= count
           /\ 0 \in 0 .. MaxFailures
BY WalletAssumption DEF OneMoreFailure

-----------------------------------------------------------------------------
(* The poller follows the trigger's protocol.                              *)

LEMMA StepIsATriggerStep ==
    ASSUME TypeOK, LookupStaysOpen, [Next]_vars
    PROVE  [TriggerNext]_triggerVars
<1>1. ASSUME StartScan PROVE TriggerNext
  BY <1>1 DEF StartScan, TriggerNext, Scanning
<1>2. ASSUME RequestNextPage PROVE TriggerNext
  BY <1>2 DEF RequestNextPage, LookupStaysOpen, ResumeScan, TriggerNext, Scanning
<1>3. ASSUME NEW next \in CursorOrNone, NEW unconverted \in BOOLEAN,
             DrainPage(next, unconverted) \/ PageOfWallets(next, unconverted)
      PROVE  UNCHANGED triggerVars
  BY <1>3 DEF DrainPage, PageOfWallets
<1>4. ASSUME NEW next \in CursorOrNone, NEW unconverted \in BOOLEAN,
             EndWithoutWallets(next, unconverted)
      PROVE  TriggerNext
  <2> DEFINE owed == restart \/ next # NoCursor
             deferred == ~(cursor = NoCursor) /\ Deferred
             place == PlaceAfter(EmptyScanStep(owed, deferred))
  <2>1. owed \in BOOLEAN /\ deferred \in BOOLEAN
    BY DEF TypeOK
  <2>2. place = IF owed THEN "newStart" ELSE IF deferred THEN "lookup" ELSE "readyCheck"
    BY <2>1, EmptyScanStepOutcome
  <2>3. CASE cursor = NoCursor
    <3>1. FinishEmptyLookup(place)
      BY <1>4, <2>3 DEF EndWithoutWallets
    <3>2. place \in {"readyCheck", "newStart"}
      BY <2>2, <2>3
    <3> QED BY <3>1, <3>2 DEF TriggerNext, Scanning
  <2>4. CASE cursor # NoCursor
    <3>1. FinishBatch(TRUE, place)
      BY <1>4, <2>4 DEF EndWithoutWallets
    <3>2. place \in AfterScan
      BY <2>2, <2>4, Zenon DEF AfterScan
    <3> QED BY <3>1, <3>2 DEF TriggerNext, Scanning
  <2> QED BY <2>3, <2>4
<1>5. ASSUME FetchFails PROVE TriggerNext
  BY <1>5 DEF FetchFails, TriggerNext, Scanning
<1>6. ASSUME NEW outcome \in BatchOutcome, Acknowledged(outcome) PROVE TriggerNext
  <2> DEFINE place == PlaceAfter(WalletStep(outcome, nextCursor, restart, Deferred))
  <2>1. nextCursor \in CursorOrNone /\ restart \in BOOLEAN
    BY DEF TypeOK
  <2>2. FinishBatch(nextCursor = NoCursor, place)
    BY <1>6 DEF Acknowledged
  <2>3. CASE nextCursor = NoCursor
    <3>1. place \in AfterScan
      BY <2>1, <2>3, WalletStepOutcome, DeferredIsBoolean DEF AfterScan
    <3>2. FinishBatch(TRUE, place)
      BY <2>2, <2>3
    <3> QED BY <3>1, <3>2 DEF TriggerNext, Scanning
  <2>4. CASE nextCursor # NoCursor
    <3>1. place \in {"working", "newStart"}
      BY <2>1, <2>4, WalletStepOutcome, DeferredIsBoolean
    <3>2. FinishBatch(FALSE, place)
      BY <2>2, <2>4
    <3> QED BY <3>1, <3>2 DEF TriggerNext, Scanning
  <2> QED BY <2>3, <2>4
<1>7. ASSUME DispatchFails PROVE UNCHANGED triggerVars
  BY <1>7 DEF DispatchFails
<1>8. ASSUME Elsewhere PROVE TriggerNext
  BY <1>8 DEF Elsewhere, TriggerNext
<1>9. ASSUME UNCHANGED vars PROVE UNCHANGED triggerVars
  BY <1>9 DEF vars
<1> QED BY <1>1, <1>2, <1>3, <1>4, <1>5, <1>6, <1>7, <1>8, <1>9 DEF Next, Scan

-----------------------------------------------------------------------------
(* The scan's own invariant.                                               *)

LEMMA WalletInvInit == Init => WalletInv
<1> SUFFICES ASSUME Init PROVE WalletInv
  OBVIOUS
<1>1. TypeOK
  <2>1. 0 \in 0 .. MaxEmptyPages /\ 0 \in 0 .. MaxFailures /\ NoCursor \in CursorOrNone
    BY WalletAssumption DEF CursorOrNone
  <2>2. TriggerTypeOK
    BY TriggerInvInit DEF Init, TriggerInv
  <2> QED BY <2>1, <2>2 DEF Init, TypeOK
<1>2. CallsWhileWorking /\ DebtIsKnown /\ LookupStaysOpen
  BY DEF Init, TriggerInit, CallsWhileWorking, DebtIsKnown, LookupStaysOpen
<1>3. RequestBudget
  BY WalletAssumption DEF Init, TriggerInit, RequestBudget
<1> QED BY <1>1, <1>2, <1>3 DEF WalletInv

\* Requesting a page preserves the invariant.
LEMMA RequestPreserves ==
    ASSUME WalletInv, StartScan \/ RequestNextPage, TriggerTypeOK'
    PROVE  WalletInv'
<1> USE DEF WalletInv
<1>1. /\ worker = "lookup" /\ worker' = "working" /\ call = "none" /\ call' = "request"
      /\ cursor' = cursor /\ nextCursor' = nextCursor /\ restart' = restart
      /\ emptyPages' = emptyPages /\ failures' = failures /\ dropped' = dropped
      /\ barren' = barren /\ leftBehind' \in BOOLEAN
  BY DEF StartScan, RequestNextPage, BeginFreshLookup, CallsWhileWorking, TypeOK
<1>2. TypeOK'
  BY <1>1 DEF TypeOK
<1>3. CallsWhileWorking'
  BY <1>1 DEF CallsWhileWorking
<1>4. DebtIsKnown'
  <2>1. CASE StartScan
    BY <1>1, <2>1 DEF StartScan, DebtIsKnown, TypeOK
  <2>2. CASE RequestNextPage
    BY <1>1, <2>2 DEF RequestNextPage, DebtIsKnown
  <2> QED BY <2>1, <2>2
<1>5. LookupStaysOpen'
  <2>1. CASE StartScan
    <3>1. trigger.generation \in Generation /\ NoLookup \notin Generation
      BY DEF TypeOK, TriggerTypeOK, TriggerState, Generation, NoLookup
    <3>2. trigger'.lookup = trigger.generation
      BY <2>1 DEF StartScan, BeginFreshLookup, TypeOK, TriggerTypeOK, TriggerState
    <3> QED BY <3>1, <3>2 DEF LookupStaysOpen
  <2>2. CASE RequestNextPage
    BY <1>1, <2>2 DEF RequestNextPage, LookupStaysOpen
  <2> QED BY <2>1, <2>2
<1>6. RequestBudget'
  <2>1. barren <= 1 /\ barren \in Nat /\ emptyPages \in Nat
    BY <1>1 DEF RequestBudget, TypeOK
  <2>2. CASE StartScan
    BY <1>1, <2>1, <2>2 DEF StartScan, RequestBudget
  <2>3. CASE RequestNextPage
    <3>1. restart
      BY <1>1, <2>3 DEF RequestNextPage, DebtIsKnown
    <3> QED BY <1>1, <2>1, <3>1 DEF RequestBudget
  <2> QED BY <2>2, <2>3
<1> QED BY <1>2, <1>3, <1>4, <1>5, <1>6

\* So does a page, whatever it holds.
LEMMA PagePreserves ==
    ASSUME WalletInv, NEW next \in CursorOrNone, NEW unconverted \in BOOLEAN,
           DrainPage(next, unconverted) \/ PageOfWallets(next, unconverted),
           TriggerTypeOK'
    PROVE  WalletInv'
<1> USE DEF WalletInv
<1>1. /\ call = "request" /\ worker' = worker /\ trigger' = trigger
      /\ failures' = failures /\ dropped' = unconverted
      /\ worker = "working" /\ trigger.lookup # NoLookup
      /\ barren \in Nat /\ emptyPages \in 0 .. MaxEmptyPages
      /\ barren <= emptyPages + 1
  BY DEF DrainPage, PageOfWallets, triggerVars, CallsWhileWorking, LookupStaysOpen,
         RequestBudget, TypeOK
<1>2. CASE DrainPage(next, unconverted)
  <2>1. /\ emptyPages' = emptyPages + 1 /\ cursor' = next /\ next # NoCursor
        /\ restart' = TRUE /\ leftBehind' = TRUE /\ barren' = barren + 1
        /\ call' = call /\ nextCursor' = nextCursor
        /\ emptyPages + 1 \in 0 .. MaxEmptyPages
    BY <1>1, <1>2, DrainWithinBound DEF DrainPage
  <2>2. TypeOK'
    BY <1>1, <2>1 DEF TypeOK
  <2>3. CallsWhileWorking' /\ DebtIsKnown' /\ LookupStaysOpen'
    BY <1>1, <2>1 DEF CallsWhileWorking, DebtIsKnown, LookupStaysOpen
  <2>4. RequestBudget'
    BY <1>1, <2>1 DEF RequestBudget
  <2> QED BY <2>2, <2>3, <2>4
<1>3. CASE PageOfWallets(next, unconverted)
  <2>1. /\ emptyPages' = 0 /\ nextCursor' = next /\ call' = "ack" /\ cursor' = cursor
        /\ restart' = restart /\ leftBehind' = leftBehind /\ barren' = barren
    BY <1>3 DEF PageOfWallets
  <2>2. TypeOK'
    BY <1>1, <2>1, WalletAssumption DEF TypeOK
  <2>3. CallsWhileWorking' /\ DebtIsKnown' /\ LookupStaysOpen'
    BY <1>1, <2>1 DEF CallsWhileWorking, DebtIsKnown, LookupStaysOpen
  <2>4. RequestBudget'
    BY <1>1, <2>1, WalletAssumption DEF RequestBudget
  <2> QED BY <2>2, <2>3, <2>4
<1> QED BY <1>2, <1>3

\* So does the end of a scan without wallets.
LEMMA EndWithoutWalletsPreserves ==
    ASSUME WalletInv, NEW next \in CursorOrNone, NEW unconverted \in BOOLEAN,
           EndWithoutWallets(next, unconverted), TriggerTypeOK'
    PROVE  WalletInv'
<1> USE DEF WalletInv
<1> DEFINE owed == restart \/ next # NoCursor
           deferred == ~(cursor = NoCursor) /\ Deferred
           step == EmptyScanStep(owed, deferred)
           place == PlaceAfter(step)
<1>1. owed \in BOOLEAN /\ deferred \in BOOLEAN
  BY DEF TypeOK
<1>2. /\ place = IF owed THEN "newStart" ELSE IF deferred THEN "lookup" ELSE "readyCheck"
      /\ ~step.restart /\ step.restart \in BOOLEAN /\ step.cursor = NoCursor
  BY <1>1, EmptyScanStepOutcome
<1>3. /\ call = "request" /\ ApplyStep(step) /\ worker' = place
      /\ emptyPages' = 0 /\ nextCursor' = nextCursor /\ dropped' = unconverted
      /\ leftBehind' = (leftBehind \/ next # NoCursor)
      /\ barren' = IF place = "lookup" THEN barren + 1 ELSE 0
  BY DEF EndWithoutWallets, FinishEmptyLookup, FinishBatch
<1> HIDE DEF step
<1>4. /\ cursor' = NoCursor /\ ~restart' /\ restart' \in BOOLEAN /\ call' = "none"
      /\ failures' \in 0 .. MaxFailures
  BY <1>2, <1>3, FailureTypes DEF ApplyStep, TypeOK
<1>5. TypeOK'
  BY <1>3, <1>4, WalletAssumption DEF TypeOK, CursorOrNone
<1>6. CallsWhileWorking' /\ LookupStaysOpen'
  BY <1>2, <1>3, <1>4 DEF CallsWhileWorking, LookupStaysOpen
<1>7. DebtIsKnown'
  <2>1. restart = leftBehind
    BY <1>3 DEF DebtIsKnown
  <2>2. place = "readyCheck" => ~leftBehind'
    BY <1>2, <1>3, <2>1
  <2> QED BY <1>2, <1>3, <1>4, <2>2 DEF DebtIsKnown
<1>8. RequestBudget'
  <2>1. place = "lookup" => barren = 0
    BY <1>2, <1>3 DEF RequestBudget
  <2> QED BY <1>2, <1>3, <1>4, <2>1 DEF RequestBudget
<1> QED BY <1>5, <1>6, <1>7, <1>8

\* So does a lookup that fails.
LEMMA FetchFailsPreserves ==
    ASSUME WalletInv, FetchFails, TriggerTypeOK'
    PROVE  WalletInv'
<1> USE DEF WalletInv
<1>1. /\ worker' = "newStart" /\ call' = "none" /\ cursor' = NoCursor
      /\ restart' = FALSE /\ emptyPages' = 0 /\ barren' = 0 /\ leftBehind' = TRUE
      /\ failures' = OneMoreFailure(failures) /\ nextCursor' = nextCursor
      /\ dropped' = dropped
  BY DEF FetchFails, FinishEmptyLookup
<1>2. TypeOK'
  <2>1. failures' \in 0 .. MaxFailures /\ 0 \in 0 .. MaxEmptyPages
    BY <1>1, FailureTypes, WalletAssumption DEF TypeOK
  <2> QED BY <1>1, <2>1 DEF TypeOK, CursorOrNone
<1>3. CallsWhileWorking' /\ DebtIsKnown' /\ LookupStaysOpen' /\ RequestBudget'
  BY <1>1 DEF CallsWhileWorking, DebtIsKnown, LookupStaysOpen, RequestBudget
<1> QED BY <1>2, <1>3

\* So does an acknowledgement, at the last page of the scan or before.
LEMMA AcknowledgedPreserves ==
    ASSUME WalletInv, NEW outcome \in BatchOutcome, Acknowledged(outcome),
           TriggerTypeOK'
    PROVE  WalletInv'
<1> USE DEF WalletInv
<1> DEFINE step == WalletStep(outcome, nextCursor, restart, Deferred)
           place == PlaceAfter(step)
<1>1. nextCursor \in CursorOrNone /\ restart \in BOOLEAN
  BY DEF TypeOK
<1>2. /\ step.restart \in BOOLEAN /\ step.cursor = nextCursor
      /\ nextCursor # NoCursor =>
             /\ place = IF outcome = "Completed" THEN "working" ELSE "newStart"
             /\ step.restart = (restart \/ outcome = "SubmissionFailed")
      /\ nextCursor = NoCursor =>
             /\ place = IF outcome = "SubmissionFailed" \/ restart THEN "newStart"
                        ELSE IF Deferred THEN "lookup" ELSE "readyCheck"
             /\ ~step.restart
  BY <1>1, WalletStepOutcome, DeferredIsBoolean
<1>3. /\ call = "ack" /\ ApplyStep(step) /\ worker' = place
      /\ trigger.lookup # NoLookup
      /\ nextCursor # NoCursor => trigger' = trigger
      /\ nextCursor' = NoCursor /\ emptyPages' = emptyPages /\ dropped' = dropped
      /\ leftBehind' = (leftBehind \/ outcome = "SubmissionFailed") /\ barren' = 0
      /\ restart = leftBehind
  BY DEF Acknowledged, FinishBatch, LookupStaysOpen, DebtIsKnown, TypeOK, TriggerTypeOK,
         TriggerState
<1> HIDE DEF step
<1>4. /\ cursor' = nextCursor /\ restart' = step.restart /\ restart' \in BOOLEAN
      /\ failures' \in 0 .. MaxFailures
      /\ call' = IF place = "working" THEN "request" ELSE "none"
  BY <1>2, <1>3, FailureTypes DEF ApplyStep, TypeOK
<1>5. TypeOK'
  BY <1>1, <1>3, <1>4, WalletAssumption DEF TypeOK, CursorOrNone
<1>6. CASE nextCursor = NoCursor
  <2>1. /\ place \in {"newStart", "lookup", "readyCheck"} /\ call' = "none"
        /\ cursor' = NoCursor /\ ~restart'
        /\ place = "readyCheck" => ~leftBehind'
    BY <1>2, <1>3, <1>4, <1>6
  <2>2. CallsWhileWorking' /\ DebtIsKnown' /\ LookupStaysOpen' /\ RequestBudget'
    BY <1>3, <1>4, <2>1 DEF CallsWhileWorking, DebtIsKnown, LookupStaysOpen, RequestBudget
  <2> QED BY <1>5, <2>2
<1>7. CASE nextCursor # NoCursor
  <2>1. /\ trigger' = trigger /\ cursor' # NoCursor /\ restart' = leftBehind'
        /\ \/ place = "working" /\ call' = "request"
           \/ place = "newStart" /\ call' = "none" /\ restart'
    BY <1>2, <1>3, <1>4, <1>7 DEF BatchOutcome
  <2>2. CallsWhileWorking' /\ DebtIsKnown' /\ LookupStaysOpen'
    BY <1>3, <1>4, <2>1 DEF CallsWhileWorking, DebtIsKnown, LookupStaysOpen
  <2>3. RequestBudget'
    BY <1>3, <2>1 DEF RequestBudget, TypeOK
  <2> QED BY <1>5, <2>2, <2>3
<1> QED BY <1>6, <1>7

LEMMA DispatchFailsPreserves ==
    ASSUME WalletInv, DispatchFails, TriggerTypeOK'
    PROVE  WalletInv'
<1>1. /\ call = "ack" /\ call' = "exited" /\ worker' = worker /\ trigger' = trigger
      /\ cursor' = cursor /\ nextCursor' = nextCursor /\ restart' = restart
      /\ emptyPages' = emptyPages /\ failures' = failures
      /\ leftBehind' = leftBehind /\ dropped' = dropped /\ barren' = barren
  BY DEF DispatchFails, triggerVars
<1>2. TypeOK'
  BY <1>1 DEF WalletInv, TypeOK
<1>3. CallsWhileWorking' /\ DebtIsKnown' /\ LookupStaysOpen' /\ RequestBudget'
  BY <1>1 DEF WalletInv, CallsWhileWorking, DebtIsKnown, LookupStaysOpen, RequestBudget
<1> QED BY <1>2, <1>3 DEF WalletInv

\* The waits lead nowhere but to a lookup, and no step outside the scan
\* touches its lookup generation.
LEMMA WaitsLeadToLookup ==
    ASSUME Reader \/ DebounceElapses \/ Waiting \/ WaitCancelled, TriggerTypeOK
    PROVE  /\ trigger'.lookup = trigger.lookup
           /\ \/ worker' = worker
              \/ /\ worker \notin {"lookup", "working"}
                 /\ worker' # "working"
                 /\ worker' \in {"readyCheck", "readyArmed", "readyParked"} =>
                        worker \in {"readyCheck", "readyArmed", "readyParked"}
<1> USE DEF TriggerTypeOK, TriggerState
<1>1. CASE Reader \/ DebounceElapses
  BY <1>1 DEF Reader, RecordEvent, ForceLookup, NotifyOne, DebounceElapses
<1>2. CASE ReadyCheck \/ Park \/ ReadyWake
  BY <1>2 DEF ReadyCheck, Park, ReadyWake
<1>3. CASE NewStart \/ NewCheck \/ NewWake \/ WaitCancelled
  BY <1>3 DEF NewStart, NewCheck, NewWake, WaitCancelled
<1> QED BY <1>1, <1>2, <1>3 DEF Waiting

LEMMA ElsewherePreserves ==
    ASSUME WalletInv, Elsewhere \/ UNCHANGED vars, TriggerTypeOK'
    PROVE  WalletInv'
<1>1. /\ call' = call /\ cursor' = cursor /\ nextCursor' = nextCursor
      /\ restart' = restart /\ emptyPages' = emptyPages /\ failures' = failures
      /\ leftBehind' = leftBehind /\ dropped' = dropped /\ barren' = barren
  BY DEF Elsewhere, vars, scanVars
<1>2. /\ trigger'.lookup = trigger.lookup
      /\ \/ worker' = worker
         \/ /\ worker \notin {"lookup", "working"}
            /\ worker' # "working"
            /\ worker' \in {"readyCheck", "readyArmed", "readyParked"} =>
                   worker \in {"readyCheck", "readyArmed", "readyParked"}
  BY WaitsLeadToLookup DEF Elsewhere, vars, triggerVars, WalletInv, TypeOK
<1>3. TypeOK'
  BY <1>1 DEF WalletInv, TypeOK
<1>4. CallsWhileWorking' /\ DebtIsKnown' /\ LookupStaysOpen'
  BY <1>1, <1>2 DEF WalletInv, CallsWhileWorking, DebtIsKnown, LookupStaysOpen
<1>5. RequestBudget'
  BY <1>1, <1>2 DEF WalletInv, RequestBudget
<1> QED BY <1>3, <1>4, <1>5 DEF WalletInv

LEMMA WalletInvStep == TriggerInv /\ WalletInv /\ [Next]_vars => TriggerInv' /\ WalletInv'
<1> SUFFICES ASSUME TriggerInv, WalletInv, [Next]_vars PROVE TriggerInv' /\ WalletInv'
  OBVIOUS
<1>1. TriggerInv' /\ TriggerTypeOK'
  BY StepIsATriggerStep, TriggerInvStep DEF WalletInv, TriggerInv
<1> QED BY <1>1, RequestPreserves, PagePreserves, EndWithoutWalletsPreserves,
           FetchFailsPreserves, AcknowledgedPreserves, DispatchFailsPreserves,
           ElsewherePreserves DEF Next, Scan

-----------------------------------------------------------------------------
(* Theorems.                                                               *)

\* The wallet poller is a worker as the trigger's specification describes one,
\* although it resumes scans: the lookup it resumes is still open.
THEOREM WalletPollerFollowsProtocol == Spec => FollowsTriggerProtocol
<1>1. Init => TriggerInit /\ TriggerInv /\ WalletInv
  BY TriggerInvInit, WalletInvInit DEF Init
<1>2. WalletInv /\ [Next]_vars => [TriggerNext]_triggerVars
  BY StepIsATriggerStep DEF WalletInv
<1> QED BY <1>1, <1>2, WalletInvStep, PTL DEF Spec, FollowsTriggerProtocol, TriggerSafety

\* So it sleeps through nothing, and reports deferred work exactly.
THEOREM WalletPollerLosesNoWakeup ==
    Spec => [](NoLostWakeup /\ NoLostNews /\ DeferredIsExact)
BY WalletPollerFollowsProtocol, NoWakeupIsLost, NoNewsIsLost, DeferredWorkIsExact, PTL
   DEF FollowsTriggerProtocol

\* The scan's invariant holds throughout.
THEOREM WalletInvariance == Spec => []WalletInv
<1>1. Init => TriggerInv /\ WalletInv
  BY TriggerInvInit, WalletInvInit DEF Init
<1> QED BY <1>1, WalletInvStep, PTL DEF Spec

\* The poller never settles with work left behind (wallet_step, wallet.rs:69-91).
THEOREM OwedScansAreKept == Spec => []OwedScanNeverParked
<1>1. WalletInv => OwedScanNeverParked
  BY DEF WalletInv, DebtIsKnown, OwedScanNeverParked
<1> QED BY <1>1, WalletInvariance, PTL

\* Its lookup stays open over the delays within a scan (wallet.rs:187-192).
THEOREM LookupIsKeptOpen == Spec => []LookupStaysOpen
<1>1. WalletInv => LookupStaysOpen
  BY DEF WalletInv
<1> QED BY <1>1, WalletInvariance, PTL

\* The requests that populate nothing between two waits are bounded
\* (wallet.rs:193-230).
THEOREM WalletRequestsArePaced == Spec => []NoRequestStorm
<1>1. WalletInv => NoRequestStorm
  <2> SUFFICES ASSUME WalletInv PROVE barren <= MaxEmptyPages + 2
    BY DEF NoRequestStorm
  <2>1. emptyPages \in 0 .. MaxEmptyPages /\ barren \in Nat /\ MaxEmptyPages \in Nat
    BY WalletAssumption DEF WalletInv, TypeOK
  <2>2. CASE call = "request"
    <3>1. barren <= emptyPages + 1
      BY <2>2 DEF WalletInv, RequestBudget
    <3> QED BY <2>1, <3>1
  <2>3. CASE call \in {"ack", "exited"}
    <3>1. barren <= MaxEmptyPages + 1
      BY <2>3 DEF WalletInv, RequestBudget
    <3> QED BY <2>1, <3>1
  <2>4. CASE call = "none"
    <3>1. barren <= 1
      BY <2>4 DEF WalletInv, RequestBudget, CallsWhileWorking
    <3> QED BY <2>1, <3>1
  <2> QED BY <2>2, <2>3, <2>4 DEF WalletInv, TypeOK
<1> QED BY <1>1, WalletInvariance, PTL

\* A healthy page or an empty last one never clears the backoff of a scan that
\* has left work behind (wallet.rs:79-81).
THEOREM WalletEscalationSticks == Spec => EscalationIsSticky
<1>1. WalletInv /\ [Next]_vars => [failures' < failures => ~leftBehind]_vars
  <2> SUFFICES ASSUME WalletInv, Next, failures' < failures PROVE ~leftBehind
    OBVIOUS
  <2>1. failures \in 0 .. MaxFailures /\ restart \in BOOLEAN /\ nextCursor \in CursorOrNone
    BY DEF WalletInv, TypeOK
  <2>2. failures' # failures /\ failures' # OneMoreFailure(failures)
    BY <2>1, FailureTypes, WalletAssumption DEF OneMoreFailure
  <2>3. ASSUME NEW next \in CursorOrNone, NEW unconverted \in BOOLEAN,
               EndWithoutWallets(next, unconverted)
        PROVE  ~leftBehind
    <3> DEFINE owed == restart \/ next # NoCursor
               deferred == ~(cursor = NoCursor) /\ Deferred
               step == EmptyScanStep(owed, deferred)
    <3>1. ~step.delay /\ step.reset => ~owed
      BY <2>1, EmptyScanStepOutcome
    <3>2. ApplyStep(step) /\ call = "request"
      BY <2>3 DEF EndWithoutWallets
    <3> HIDE DEF step
    <3>3. ~step.delay /\ step.reset
      BY <2>2, <3>2 DEF ApplyStep
    <3> QED BY <3>1, <3>2, <3>3 DEF WalletInv, DebtIsKnown
  <2>4. ASSUME NEW outcome \in BatchOutcome, Acknowledged(outcome) PROVE ~leftBehind
    <3> DEFINE step == WalletStep(outcome, nextCursor, restart, Deferred)
    <3>1. ~step.delay /\ step.reset => ~restart
      BY <2>1, WalletStepOutcome, DeferredIsBoolean
    <3>2. ApplyStep(step) /\ call = "ack"
      BY <2>4 DEF Acknowledged
    <3> HIDE DEF step
    <3>3. ~step.delay /\ step.reset
      BY <2>2, <3>2 DEF ApplyStep
    <3> QED BY <3>1, <3>2, <3>3 DEF WalletInv, DebtIsKnown
  <2> QED BY <2>2, <2>3, <2>4 DEF Next, Scan, StartScan, RequestNextPage, DrainPage,
              PageOfWallets, FetchFails, DispatchFails, Elsewhere, scanVars
<1> QED BY <1>1, WalletInvariance, PTL DEF Spec, EscalationIsSticky
=============================================================================
