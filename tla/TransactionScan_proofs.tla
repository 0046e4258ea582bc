------------------------ MODULE TransactionScan_proofs ------------------------
(***************************************************************************)
(* Proofs that the transaction poller is a worker in the trigger's sense,  *)
(* never settles with a retry owed, never reports a seen chain as idle and *)
(* never storms the Platform, for every set of chains and cursors, every   *)
(* event limit and every drain bound.                                      *)
(***************************************************************************)
EXTENDS TransactionScan, WorkTrigger_proofs

\* The poller awaits a call exactly while the trigger sees it working.
CallsWhileWorking ==
    /\ worker = "working" <=> call # "none"
    /\ call = "none" => ~required /\ cursor = NoCursor

\* A scan owes a retry exactly when it has left work behind, and the poller
\* only settles after one that has not.
DebtIsKnown ==
    /\ call # "none" => required = leftBehind
    /\ worker \in {"readyCheck", "readyArmed", "readyParked"} => ~leftBehind

\* While a scan goes on, current_scan_chains has every chain seen in it.
CurrentIsSeen ==
    /\ call = "request" => current = seen
    /\ call = "batchAck" /\ nextCursor # NoCursor => current = seen
    /\ idle \cap seen = {}

\* The request budget: one request may precede a scan, each drained page
\* counts against the drain bound, and a scan that owes nothing has just
\* submitted something or is still at its first page.
RequestBudget ==
    /\ barren \in Nat
    /\ worker = "lookup" => barren <= 1
    /\ worker \notin {"lookup", "working"} => barren = 0
    /\ call \in {"request", "batchAck"} => barren <= unproductive + 1
    /\ call \in {"request", "batchAck"} /\ cursor # NoCursor /\ ~required => barren = 0
    /\ call \in {"idleAck", "finish", "exited"} => barren <= MaxEmptyPages + 2
    /\ call \in {"idleAck", "finish"} /\ cursor # NoCursor /\ ~required => barren <= 1

ScanInv ==
    /\ TypeOK
    /\ CallsWhileWorking
    /\ DebtIsKnown
    /\ CurrentIsSeen
    /\ RequestBudget

-----------------------------------------------------------------------------
(* The poller follows the trigger's protocol.                              *)

\* Where finish_scan_retry sends the worker is where the trigger expects it.
LEMMA FinishScanRetryPlaces ==
    ASSUME NEW owed \in BOOLEAN
    PROVE  /\ FinishScanRetry(owed, Deferred) \in AfterScan
           /\ FinishScanRetry(owed, FALSE) \in {"readyCheck", "newStart"}
BY DEF FinishScanRetry, AfterScan

LEMMA StepIsATriggerStep ==
    ASSUME TypeOK, [Next]_vars
    PROVE  [TriggerNext]_triggerVars
<1>1. ASSUME StartScan PROVE TriggerNext
  BY <1>1 DEF StartScan, TriggerNext, Scanning
<1>2. ASSUME FetchFails PROVE TriggerNext
  BY <1>2 DEF FetchFails, TriggerNext, Scanning
<1>3. ASSUME NEW next \in CursorOrNone, DrainPage(next) \/ AbandonScan(next)
      PROVE  UNCHANGED triggerVars
  BY <1>3 DEF DrainPage, AbandonScan
<1>4. ASSUME NEW rowChains \in SUBSET Chains, NEW next \in CursorOrNone,
             PageRows(rowChains, next)
      PROVE  UNCHANGED triggerVars
  BY <1>4 DEF PageRows
<1>5. ASSUME NoTransactions \/ AckIdle \/ DispatchFails PROVE UNCHANGED triggerVars
  BY <1>5 DEF NoTransactions, AckIdle, DispatchFails
<1>6. ASSUME NEW outcome \in BatchOutcome, AckProgress(outcome) PROVE TriggerNext
  <2>1. OwedAfter(outcome) \in BOOLEAN
    BY DEF OwedAfter, TypeOK
  <2>2. CASE nextCursor = NoCursor
    <3>1. FinishBatch(TRUE, FinishScanRetry(OwedAfter(outcome), Deferred))
      BY <1>6, <2>2 DEF AckProgress
    <3> QED BY <2>1, <3>1, FinishScanRetryPlaces DEF TriggerNext, Scanning
  <2>3. CASE nextCursor # NoCursor
    <3>1. FinishBatch(FALSE, "working")
      BY <1>6, <2>3 DEF AckProgress
    <3> QED BY <3>1 DEF TriggerNext, Scanning
  <2> QED BY <2>2, <2>3
<1>7. ASSUME AckSkippedPage PROVE TriggerNext
  BY <1>7 DEF AckSkippedPage, TriggerNext, Scanning
<1>8. ASSUME NEW outcome \in BatchOutcome, AckRetryFresh(outcome) PROVE TriggerNext
  <2>1. CASE nextCursor = NoCursor
    <3>1. FinishBatch(TRUE, "newStart") /\ "newStart" \in AfterScan
      BY <1>8, <2>1 DEF AckRetryFresh, AfterScan
    <3> QED BY <3>1 DEF TriggerNext, Scanning
  <2>2. CASE nextCursor # NoCursor
    <3>1. FinishBatch(FALSE, "newStart")
      BY <1>8, <2>2 DEF AckRetryFresh
    <3> QED BY <3>1 DEF TriggerNext, Scanning
  <2> QED BY <2>1, <2>2
<1>9. ASSUME FinishScan PROVE TriggerNext
  <2>1. required \in BOOLEAN
    BY DEF TypeOK
  <2>2. CASE cursor = NoCursor
    <3>1. FinishEmptyLookup(FinishScanRetry(required, FALSE))
      BY <1>9, <2>2 DEF FinishScan
    <3> QED BY <2>1, <3>1, FinishScanRetryPlaces DEF TriggerNext, Scanning
  <2>3. CASE cursor # NoCursor
    <3>1. (~(cursor = NoCursor) /\ Deferred) = Deferred
      BY <2>3, Zenon DEF Deferred
    <3>2. FinishBatch(TRUE, FinishScanRetry(required, Deferred))
      BY <1>9, <2>3, <3>1 DEF FinishScan
    <3> QED BY <2>1, <3>2, FinishScanRetryPlaces DEF TriggerNext, Scanning
  <2> QED BY <2>2, <2>3
<1>10. ASSUME Elsewhere PROVE TriggerNext
  BY <1>10 DEF Elsewhere, TriggerNext
<1>11. ASSUME UNCHANGED vars PROVE UNCHANGED triggerVars
  BY <1>11 DEF vars
<1> QED BY <1>1, <1>2, <1>3, <1>4, <1>5, <1>6, <1>7, <1>8, <1>9, <1>10, <1>11
        DEF Next, Fetching, Acknowledged

\* The types of the trigger's variables survive its own steps.
LEMMA TriggerTypesKept ==
    ASSUME TriggerInv, [TriggerNext]_triggerVars
    PROVE  TriggerInv' /\ TriggerTypeOK'
BY TriggerInvStep DEF TriggerInv

-----------------------------------------------------------------------------
(* The scan's own invariant.                                               *)

LEMMA ScanInvInit == Init => ScanInv
<1> SUFFICES ASSUME Init PROVE ScanInv
  OBVIOUS
<1>1. TriggerTypeOK
  BY TriggerInvInit DEF Init, TriggerInv
<1>2. TypeOK
  <2>1. 0 \in 0 .. MaxEmptyPages /\ 0 \in 0 .. MaxFailures /\ NoCursor \in CursorOrNone
    BY ScanAssumption DEF CursorOrNone
  <2> QED BY <1>1, <2>1 DEF Init, TypeOK
<1>3. CallsWhileWorking /\ DebtIsKnown
  BY DEF Init, TriggerInit, CallsWhileWorking, DebtIsKnown
<1>4. CurrentIsSeen /\ RequestBudget
  BY DEF Init, TriggerInit, CurrentIsSeen, RequestBudget
<1> QED BY <1>2, <1>3, <1>4 DEF ScanInv

LEMMA OneMoreFailureType ==
    ASSUME NEW count \in 0 .. MaxFailures
    PROVE  OneMoreFailure(count) \in 0 .. MaxFailures /\ OneMoreFailure(count) >= count
BY ScanAssumption DEF OneMoreFailure

\* A drained page keeps the count of unproductive pages within its bound.
LEMMA DrainWithinBound ==
    ASSUME NEW from, NEW next, ShouldContinueEmptyDrain(from, next, unproductive),
           unproductive \in 0 .. MaxEmptyPages
    PROVE  unproductive + 1 \in 0 .. MaxEmptyPages /\ next # NoCursor
BY ScanAssumption DEF ShouldContinueEmptyDrain

\* Requesting pages preserves the invariant.
LEMMA FetchingPreserves ==
    ASSUME ScanInv, Fetching, TriggerTypeOK'
    PROVE  ScanInv'
<1> USE DEF ScanInv
<1>1. CASE StartScan
  <2>1. worker = "lookup" /\ worker' = "working" /\ call = "none"
    BY <1>1 DEF StartScan, BeginFreshLookup, CallsWhileWorking
  <2>2. TypeOK'
    BY <1>1 DEF StartScan, TypeOK
  <2>3. CallsWhileWorking' /\ DebtIsKnown' /\ CurrentIsSeen'
    BY <1>1, <2>1 DEF StartScan, TypeOK, CallsWhileWorking, DebtIsKnown, CurrentIsSeen
  <2>4. RequestBudget'
    <3>1. barren <= 1 /\ barren \in Nat /\ unproductive \in Nat /\ cursor = NoCursor
      BY <2>1 DEF CallsWhileWorking, RequestBudget, TypeOK
    <3>2. /\ unproductive' = unproductive /\ call' = "request"
          /\ cursor' = cursor /\ barren' = barren
      BY <1>1 DEF StartScan
    <3> QED BY <2>1, <3>1, <3>2 DEF RequestBudget
  <2> QED BY <2>2, <2>3, <2>4
<1>2. ASSUME NEW next \in CursorOrNone, DrainPage(next) PROVE ScanInv'
  <2>1. /\ call = "request" /\ call' = call /\ worker' = worker
        /\ unproductive' = unproductive + 1 /\ cursor' = next /\ next # NoCursor
        /\ required' = TRUE /\ leftBehind' = TRUE /\ reachedEnd' = FALSE
        /\ barren' = barren + 1 /\ nextCursor' = nextCursor /\ previous' = previous
        /\ current' = current /\ idle' = idle /\ failures' = failures /\ seen' = seen
        /\ unproductive + 1 \in 0 .. MaxEmptyPages
    BY <1>2, DrainWithinBound DEF DrainPage, triggerVars, TypeOK
  <2>2. worker = "working"
    BY <2>1 DEF CallsWhileWorking
  <2>3. TypeOK'
    <3>1. barren' \in Nat /\ unproductive' \in 0 .. MaxEmptyPages
      BY <2>1 DEF TypeOK
    <3>2. cursor' \in CursorOrNone
      BY <2>1
    <3> QED BY <2>1, <3>1, <3>2 DEF TypeOK
  <2>4. CallsWhileWorking' /\ DebtIsKnown' /\ CurrentIsSeen'
    BY <2>1, <2>2 DEF CallsWhileWorking, DebtIsKnown, CurrentIsSeen
  <2>5. barren <= unproductive + 1 /\ barren \in Nat /\ unproductive \in Nat
    BY <2>1 DEF RequestBudget, TypeOK
  <2>6. RequestBudget'
    BY <2>1, <2>2, <2>5 DEF RequestBudget
  <2> QED BY <2>3, <2>4, <2>6
<1>3. ASSUME NEW next \in CursorOrNone, AbandonScan(next) PROVE ScanInv'
  <2>1. /\ call = "request" /\ call' \in {"finish", "idleAck"} /\ worker' = worker
        /\ required' = (required \/ next # NoCursor)
        /\ leftBehind' = (leftBehind \/ next # NoCursor)
        /\ reachedEnd' = (next = NoCursor)
        /\ unproductive' = 0 /\ idle' = previous \ current /\ previous' = current
        /\ current' = {} /\ barren' = barren + 1 /\ cursor' = cursor
        /\ nextCursor' = nextCursor /\ failures' = failures /\ seen' = seen
    BY <1>3 DEF AbandonScan, CompleteChainScan, triggerVars
  <2>2. worker = "working" /\ current = seen
    BY <2>1 DEF CallsWhileWorking, CurrentIsSeen
  <2>3. TypeOK'
    BY <2>1, ScanAssumption DEF TypeOK
  <2>4. CallsWhileWorking' /\ DebtIsKnown' /\ CurrentIsSeen'
    BY <2>1, <2>2 DEF TypeOK, CallsWhileWorking, DebtIsKnown, CurrentIsSeen
  <2>5. /\ barren <= unproductive + 1 /\ barren \in Nat
        /\ unproductive \in 0 .. MaxEmptyPages
        /\ cursor # NoCursor /\ ~required => barren = 0
    BY <2>1 DEF RequestBudget, TypeOK
  <2>6. barren' <= MaxEmptyPages + 2 /\ barren' \in Nat
    BY <2>1, <2>5, ScanAssumption
  <2>7. cursor' # NoCursor /\ ~required' => barren' <= 1
    <3>1. ~required' => ~required
      BY <2>1, Zenon
    <3>2. cursor' = cursor /\ barren' = barren + 1
      BY <2>1
    <3> QED BY <2>5, <3>1, <3>2
  <2>8. RequestBudget'
    BY <2>1, <2>2, <2>6, <2>7 DEF RequestBudget
  <2> QED BY <2>3, <2>4, <2>8
<1>4. CASE NoTransactions
  <2>1. /\ call = "request" /\ call' \in {"finish", "idleAck"} /\ worker' = worker
        /\ required' = required /\ leftBehind' = leftBehind /\ reachedEnd' = TRUE
        /\ unproductive' = 0 /\ idle' = previous \ current /\ previous' = current
        /\ current' = {} /\ barren' = barren + 1 /\ cursor' = cursor
        /\ nextCursor' = nextCursor /\ failures' = failures /\ seen' = seen
    BY <1>4 DEF NoTransactions, CompleteChainScan, triggerVars
  <2>2. worker = "working" /\ current = seen
    BY <2>1 DEF CallsWhileWorking, CurrentIsSeen
  <2>3. TypeOK'
    BY <2>1, ScanAssumption DEF TypeOK
  <2>4. CallsWhileWorking' /\ DebtIsKnown' /\ CurrentIsSeen'
    BY <2>1, <2>2 DEF CallsWhileWorking, DebtIsKnown, CurrentIsSeen
  <2>5. /\ barren <= unproductive + 1 /\ barren \in Nat
        /\ unproductive \in 0 .. MaxEmptyPages
        /\ cursor # NoCursor /\ ~required => barren = 0
    BY <2>1 DEF RequestBudget, TypeOK
  <2>6. RequestBudget'
    BY <2>1, <2>2, <2>5, ScanAssumption DEF RequestBudget
  <2> QED BY <2>3, <2>4, <2>6
<1>5. CASE FetchFails
  <2>1. /\ worker' = "newStart" /\ call' = "none" /\ cursor' = NoCursor
        /\ nextCursor' = NoCursor /\ idle' = {} /\ required' = FALSE
        /\ unproductive' = 0 /\ current' = {} /\ leftBehind' = TRUE /\ barren' = 0
        /\ failures' = OneMoreFailure(failures) /\ previous' = previous
        /\ reachedEnd' = reachedEnd /\ seen' = seen
    BY <1>5 DEF FetchFails, FinishEmptyLookup, ResetScan
  <2>2. TypeOK'
    <3>1. failures' \in 0 .. MaxFailures
      BY <2>1, OneMoreFailureType DEF TypeOK
    <3>2. 0 \in 0 .. MaxEmptyPages /\ NoCursor \in CursorOrNone
      BY ScanAssumption DEF CursorOrNone
    <3> QED BY <2>1, <3>1, <3>2 DEF TypeOK
  <2>3. CallsWhileWorking' /\ DebtIsKnown' /\ CurrentIsSeen' /\ RequestBudget'
    BY <2>1 DEF CallsWhileWorking, DebtIsKnown, CurrentIsSeen, RequestBudget
  <2> QED BY <2>2, <2>3
<1>6. ASSUME NEW rowChains \in SUBSET Chains, NEW next \in CursorOrNone,
             PageRows(rowChains, next)
      PROVE  ScanInv'
  <2>1. /\ call = "request" /\ call' = "batchAck" /\ worker' = worker
        /\ nextCursor' = next /\ reachedEnd' = (next = NoCursor)
        /\ seen' = seen \cup rowChains /\ cursor' = cursor /\ required' = required
        /\ unproductive' = unproductive /\ failures' = failures
        /\ leftBehind' = leftBehind /\ barren' = barren
    BY <1>6 DEF PageRows, triggerVars
  <2>2. IF next = NoCursor
        THEN /\ idle' = previous \ (current \cup rowChains)
             /\ previous' = current \cup rowChains /\ current' = {}
        ELSE idle' = {} /\ previous' = previous /\ current' = current \cup rowChains
    BY <1>6 DEF PageRows, CompleteChainScan
  <2>3. worker = "working" /\ current = seen
    BY <2>1 DEF CallsWhileWorking, CurrentIsSeen
  <2>4. TypeOK'
    BY <2>1, <2>2 DEF TypeOK
  <2>5. CallsWhileWorking' /\ DebtIsKnown' /\ CurrentIsSeen'
    BY <2>1, <2>2, <2>3 DEF CallsWhileWorking, DebtIsKnown, CurrentIsSeen
  <2>6. RequestBudget'
    BY <2>1, <2>3 DEF RequestBudget
  <2> QED BY <2>4, <2>5, <2>6
<1> QED BY <1>1, <1>2, <1>3, <1>4, <1>5, <1>6 DEF Fetching

\* So does every acknowledgement.
LEMMA AcknowledgedPreserves ==
    ASSUME ScanInv, Acknowledged, TriggerTypeOK'
    PROVE  ScanInv'
<1> USE DEF ScanInv
<1>1. ASSUME NEW outcome \in BatchOutcome, AckProgress(outcome) PROVE ScanInv'
  <2> DEFINE owed == OwedAfter(outcome)
             last == nextCursor = NoCursor
  <2>1. /\ call = "batchAck" /\ barren' = 0 /\ unproductive' = 0 /\ idle' = {}
        /\ cursor' = nextCursor /\ nextCursor' = NoCursor
        /\ call' = (IF last THEN "none" ELSE "request")
        /\ required' = (owed /\ ~last)
        /\ leftBehind' = (leftBehind \/ outcome = "PartialProgress")
        /\ previous' = previous /\ current' = current /\ reachedEnd' = reachedEnd
        /\ seen' = seen
        /\ worker' = (IF last THEN FinishScanRetry(owed, Deferred) ELSE "working")
    BY <1>1 DEF AckProgress, FinishBatch
  <2>2. failures' \in 0 .. MaxFailures
    <3>1. FailuresAfterProgress \in 0 .. MaxFailures
      BY ScanAssumption DEF TypeOK, FailuresAfterProgress
    <3>2. FailuresAfterScan(owed, FailuresAfterProgress) \in 0 .. MaxFailures
      BY <3>1, ScanAssumption, OneMoreFailureType DEF FailuresAfterScan
    <3> QED BY <1>1, <3>1, <3>2 DEF AckProgress
  <2>3. owed \in BOOLEAN /\ leftBehind' \in BOOLEAN /\ owed = leftBehind'
    <3>1. required = leftBehind /\ required \in BOOLEAN
      BY <2>1 DEF DebtIsKnown, TypeOK
    <3> QED BY <2>1, <3>1 DEF OwedAfter
  <2>4. TypeOK'
    <3>1. 0 \in 0 .. MaxEmptyPages /\ NoCursor \in CursorOrNone
      BY ScanAssumption DEF CursorOrNone
    <3> QED BY <2>1, <2>2, <2>3, <3>1 DEF TypeOK
  <2> HIDE DEF owed
  <2>5. CASE last
    <3>1. /\ worker' \in {"newStart", "lookup", "readyCheck"}
          /\ worker' = "readyCheck" => ~owed
          /\ call' = "none" /\ ~required' /\ cursor' = NoCursor
      BY <2>1, <2>5 DEF FinishScanRetry
    <3> QED BY <2>1, <2>3, <2>4, <3>1
            DEF CallsWhileWorking, DebtIsKnown, CurrentIsSeen, RequestBudget
  <2>6. CASE ~last
    <3>1. worker' = "working" /\ call' = "request" /\ required' = leftBehind'
      BY <2>1, <2>3, <2>6
    <3>2. current = seen
      BY <2>1, <2>6 DEF CurrentIsSeen
    <3> QED BY <2>1, <2>4, <3>1, <3>2
            DEF CallsWhileWorking, DebtIsKnown, CurrentIsSeen, RequestBudget
  <2> QED BY <2>5, <2>6
<1>2. CASE AckSkippedPage
  <2>1. /\ call = "batchAck" /\ call' = "request" /\ worker' = "working"
        /\ unproductive' = unproductive + 1 /\ unproductive' \in 0 .. MaxEmptyPages
        /\ required' = TRUE /\ leftBehind' = TRUE /\ idle' = {}
        /\ cursor' = nextCursor /\ nextCursor' = NoCursor /\ nextCursor # NoCursor
        /\ barren' = barren + 1 /\ previous' = previous /\ current' = current
        /\ failures' = failures /\ reachedEnd' = reachedEnd /\ seen' = seen
    BY <1>2, DrainWithinBound DEF AckSkippedPage, FinishBatch, TypeOK
  <2>2. current = seen
    BY <2>1 DEF CurrentIsSeen
  <2>3. barren <= unproductive + 1 /\ barren \in Nat /\ unproductive \in Nat
    BY <2>1 DEF RequestBudget, TypeOK
  <2>4. barren' \in Nat /\ barren' <= unproductive' + 1
    BY <2>1, <2>3
  <2>5. TypeOK'
    <3>1. NoCursor \in CursorOrNone
      BY DEF CursorOrNone
    <3> QED BY <2>1, <2>4, <3>1 DEF TypeOK
  <2>6. CallsWhileWorking' /\ DebtIsKnown' /\ CurrentIsSeen' /\ RequestBudget'
    BY <2>1, <2>2, <2>4 DEF CallsWhileWorking, DebtIsKnown, CurrentIsSeen, RequestBudget
  <2> QED BY <2>5, <2>6
<1>3. ASSUME NEW outcome \in BatchOutcome, AckRetryFresh(outcome) PROVE ScanInv'
  <2>1. /\ worker' = "newStart" /\ call' = "none" /\ cursor' = NoCursor
        /\ nextCursor' = NoCursor /\ idle' = {} /\ required' = FALSE
        /\ unproductive' = 0 /\ current' = {} /\ leftBehind' = TRUE /\ barren' = 0
        /\ failures' = OneMoreFailure(failures) /\ previous' = previous
        /\ reachedEnd' = reachedEnd /\ seen' = seen
    BY <1>3 DEF AckRetryFresh, FinishBatch, ResetScan
  <2>2. TypeOK'
    <3>1. failures' \in 0 .. MaxFailures
      BY <2>1, OneMoreFailureType DEF TypeOK
    <3>2. 0 \in 0 .. MaxEmptyPages /\ NoCursor \in CursorOrNone
      BY ScanAssumption DEF CursorOrNone
    <3> QED BY <2>1, <3>1, <3>2 DEF TypeOK
  <2>3. CallsWhileWorking' /\ DebtIsKnown' /\ CurrentIsSeen' /\ RequestBudget'
    BY <2>1 DEF CallsWhileWorking, DebtIsKnown, CurrentIsSeen, RequestBudget
  <2> QED BY <2>2, <2>3
<1>4. CASE AckIdle
  <2>1. /\ call = "idleAck" /\ call' = "finish" /\ idle' = {} /\ worker' = worker
        /\ cursor' = cursor /\ nextCursor' = nextCursor /\ previous' = previous
        /\ current' = current /\ required' = required /\ unproductive' = unproductive
        /\ failures' = failures /\ leftBehind' = leftBehind
        /\ reachedEnd' = reachedEnd /\ seen' = seen /\ barren' = barren
    BY <1>4 DEF AckIdle, triggerVars
  <2>2. TypeOK'
    BY <2>1 DEF TypeOK
  <2>3. CallsWhileWorking' /\ DebtIsKnown' /\ CurrentIsSeen' /\ RequestBudget'
    BY <2>1 DEF CallsWhileWorking, DebtIsKnown, CurrentIsSeen, RequestBudget
  <2> QED BY <2>2, <2>3
<1>5. CASE DispatchFails
  <2>1. /\ call \in {"batchAck", "idleAck"} /\ call' = "exited" /\ idle' = idle
        /\ worker' = worker /\ cursor' = cursor /\ nextCursor' = nextCursor
        /\ previous' = previous /\ current' = current /\ required' = required
        /\ unproductive' = unproductive /\ failures' = failures
        /\ leftBehind' = leftBehind /\ reachedEnd' = reachedEnd /\ seen' = seen
        /\ barren' = barren
    BY <1>5 DEF DispatchFails, triggerVars
  <2>2. TypeOK'
    BY <2>1 DEF TypeOK
  <2>3. barren <= MaxEmptyPages + 2 /\ barren \in Nat
    BY <2>1, ScanAssumption DEF RequestBudget, TypeOK
  <2>4. CallsWhileWorking' /\ DebtIsKnown' /\ CurrentIsSeen' /\ RequestBudget'
    BY <2>1, <2>3 DEF CallsWhileWorking, DebtIsKnown, CurrentIsSeen, RequestBudget
  <2> QED BY <2>2, <2>4
<1>6. CASE FinishScan
  <2> DEFINE deferred == ~(cursor = NoCursor) /\ Deferred
             next == FinishScanRetry(required, deferred)
  <2>1. /\ call = "finish" /\ call' = "none" /\ cursor' = NoCursor
        /\ nextCursor' = NoCursor /\ idle' = {} /\ required' = FALSE
        /\ unproductive' = 0 /\ worker' = next
        /\ failures' = FailuresAfterScan(required, failures)
        /\ barren' = (IF Paced(next) THEN 0 ELSE barren)
        /\ previous' = previous /\ current' = current /\ leftBehind' = leftBehind
        /\ reachedEnd' = reachedEnd /\ seen' = seen
    BY <1>6 DEF FinishScan, ResetScan, FinishBatch, FinishEmptyLookup
  <2>2. required = leftBehind
    BY <2>1 DEF DebtIsKnown
  <2>3. /\ next \in {"newStart", "lookup", "readyCheck"}
        /\ next = "readyCheck" => ~required
        /\ next = "lookup" => ~required /\ cursor # NoCursor
    BY DEF FinishScanRetry
  <2> HIDE DEF next
  <2>4. /\ barren' \in Nat
        /\ worker' = "lookup" => barren' <= 1
        /\ worker' # "lookup" => barren' = 0
    BY <2>1, <2>3 DEF Paced, RequestBudget
  <2>5. failures' \in 0 .. MaxFailures
    BY <2>1, OneMoreFailureType, ScanAssumption DEF FailuresAfterScan, TypeOK
  <2>6. TypeOK'
    <3>1. 0 \in 0 .. MaxEmptyPages /\ NoCursor \in CursorOrNone
      BY ScanAssumption DEF CursorOrNone
    <3> QED BY <2>1, <2>4, <2>5, <3>1 DEF TypeOK
  <2>7. CallsWhileWorking' /\ DebtIsKnown' /\ CurrentIsSeen' /\ RequestBudget'
    BY <2>1, <2>2, <2>3, <2>4
       DEF CallsWhileWorking, DebtIsKnown, CurrentIsSeen, RequestBudget
  <2> QED BY <2>6, <2>7
<1> QED BY <1>1, <1>2, <1>3, <1>4, <1>5, <1>6 DEF Acknowledged

\* Outside a scan the worker only moves within a wait, or from it to a lookup.
LEMMA WaitsLeadToLookup ==
    ASSUME Reader \/ DebounceElapses \/ Waiting \/ WaitCancelled
    PROVE  \/ worker' = worker
           \/ /\ worker \notin {"lookup", "working"}
              /\ worker' # "working"
              /\ worker' \in {"readyCheck", "readyArmed", "readyParked"} =>
                     worker \in {"readyCheck", "readyArmed", "readyParked"}
<1>1. CASE Reader \/ DebounceElapses
  BY <1>1 DEF Reader, RecordEvent, ForceLookup, NotifyOne, DebounceElapses
<1>2. CASE ReadyCheck \/ Park \/ ReadyWake
  BY <1>2 DEF ReadyCheck, Park, ReadyWake
<1>3. CASE NewStart \/ NewCheck \/ NewWake \/ WaitCancelled
  BY <1>3 DEF NewStart, NewCheck, NewWake, WaitCancelled
<1> QED BY <1>1, <1>2, <1>3 DEF Waiting

LEMMA ElsewherePreserves ==
    ASSUME ScanInv, Elsewhere \/ UNCHANGED vars, TriggerTypeOK'
    PROVE  ScanInv'
<1>1. /\ call' = call /\ cursor' = cursor /\ nextCursor' = nextCursor
      /\ previous' = previous /\ current' = current /\ idle' = idle
      /\ required' = required /\ unproductive' = unproductive
      /\ failures' = failures /\ leftBehind' = leftBehind
      /\ reachedEnd' = reachedEnd /\ seen' = seen /\ barren' = barren
  BY DEF Elsewhere, vars, scanVars
<1>2. \/ worker' = worker
      \/ /\ worker \notin {"lookup", "working"}
         /\ worker' # "working"
         /\ worker' \in {"readyCheck", "readyArmed", "readyParked"} =>
                worker \in {"readyCheck", "readyArmed", "readyParked"}
  BY WaitsLeadToLookup DEF Elsewhere, vars, triggerVars
<1>3. TypeOK'
  BY <1>1 DEF ScanInv, TypeOK
<1>4. CallsWhileWorking' /\ DebtIsKnown'
  BY <1>1, <1>2 DEF ScanInv, CallsWhileWorking, DebtIsKnown
<1>5. CurrentIsSeen'
  BY <1>1 DEF ScanInv, CurrentIsSeen
<1>6. RequestBudget'
  BY <1>1, <1>2 DEF ScanInv, RequestBudget
<1> QED BY <1>3, <1>4, <1>5, <1>6 DEF ScanInv

LEMMA ScanInvStep == TriggerInv /\ ScanInv /\ [Next]_vars => TriggerInv' /\ ScanInv'
<1> SUFFICES ASSUME TriggerInv, ScanInv, [Next]_vars PROVE TriggerInv' /\ ScanInv'
  OBVIOUS
<1>1. TriggerInv' /\ TriggerTypeOK'
  BY StepIsATriggerStep, TriggerTypesKept DEF ScanInv
<1> QED BY <1>1, FetchingPreserves, AcknowledgedPreserves, ElsewherePreserves DEF Next

-----------------------------------------------------------------------------
(* Theorems.                                                               *)

\* The poller is a worker as the trigger's specification describes one.
THEOREM PollerFollowsProtocol == Spec => FollowsTriggerProtocol
<1>1. Init => TriggerInit /\ TriggerInv /\ ScanInv
  BY TriggerInvInit, ScanInvInit DEF Init
<1>2. ScanInv /\ [Next]_vars => [TriggerNext]_triggerVars
  BY StepIsATriggerStep DEF ScanInv
<1> QED BY <1>1, <1>2, ScanInvStep, PTL DEF Spec, FollowsTriggerProtocol, TriggerSafety

\* So the trigger's guarantees are the poller's: it sleeps through nothing.
THEOREM PollerLosesNoWakeup == Spec => [](NoLostWakeup /\ NoLostNews /\ DeferredIsExact)
BY PollerFollowsProtocol, NoWakeupIsLost, NoNewsIsLost, DeferredWorkIsExact, PTL
   DEF FollowsTriggerProtocol

\* The scan's invariant holds throughout.
THEOREM ScanInvariance == Spec => []ScanInv
<1>1. Init => TriggerInv /\ ScanInv
  BY TriggerInvInit, ScanInvInit DEF Init
<1> QED BY <1>1, ScanInvStep, PTL DEF Spec

\* Every variable of the poller keeps its type: the count of unproductive
\* pages never passes the drain bound (should_continue_empty_drain, retry.rs:27).
THEOREM ScanTypeCorrect == Spec => []TypeOK
<1>1. ScanInv => TypeOK
  BY DEF ScanInv
<1> QED BY <1>1, ScanInvariance, PTL

\* The poller never settles into the wait for triggers with a retry owed
\* (ScanRetryState, transaction.rs:108-119).
THEOREM OwedRetriesAreKept == Spec => []OwedRetryNeverParked
<1>1. ScanInv => OwedRetryNeverParked
  BY DEF ScanInv, DebtIsKnown, OwedRetryNeverParked
<1> QED BY <1>1, ScanInvariance, PTL

\* No chain seen on any page of a scan is reported idle with it
\* (complete_chain_scan, transaction.rs:139-153).
THEOREM OnlyUnseenChainsAreIdle == Spec => []IdleChainsUnseen
<1>1. ScanInv => IdleChainsUnseen
  BY DEF ScanInv, CurrentIsSeen, IdleChainsUnseen
<1> QED BY <1>1, ScanInvariance, PTL

\* The requests that submit nothing between two waits are bounded
\* (transaction.rs:398-430, 571-598).
THEOREM RequestsArePaced == Spec => []NoRequestStorm
<1>1. ScanInv => NoRequestStorm
  <2> SUFFICES ASSUME ScanInv PROVE barren <= MaxEmptyPages + 2
    BY DEF NoRequestStorm
  <2>1. unproductive \in 0 .. MaxEmptyPages /\ barren \in Nat
    BY DEF ScanInv, TypeOK
  <2>2. CASE call \in {"request", "batchAck"}
    <3>1. barren <= unproductive + 1
      BY <2>2 DEF ScanInv, RequestBudget
    <3> QED BY <2>1, <3>1, ScanAssumption
  <2>3. CASE call \in {"idleAck", "finish", "exited"}
    BY <2>3 DEF ScanInv, RequestBudget
  <2>4. CASE call = "none"
    <3>1. barren <= 1
      BY <2>4 DEF ScanInv, RequestBudget, CallsWhileWorking
    <3> QED BY <2>1, <3>1, ScanAssumption
  <2> QED BY <2>2, <2>3, <2>4 DEF ScanInv, TypeOK
<1> QED BY <1>1, ScanInvariance, PTL

\* The retry escalation falls back only where no earlier page of the scan
\* left work behind (transaction.rs:121-128).
THEOREM EscalationSticks == Spec => EscalationIsSticky
<1>1. ScanInv /\ [Next]_vars => [failures' < failures => ~leftBehind]_vars
  <2> SUFFICES ASSUME ScanInv, Next, failures' < failures PROVE ~leftBehind
    OBVIOUS
  <2>1. failures \in 0 .. MaxFailures /\ required \in BOOLEAN
    BY DEF ScanInv, TypeOK
  <2>2. OneMoreFailure(failures) >= failures
    BY <2>1, OneMoreFailureType
  <2>3. failures' # failures /\ failures' # OneMoreFailure(failures)
    BY <2>1, <2>2, ScanAssumption DEF OneMoreFailure
  <2>4. ~Fetching /\ ~Elsewhere
    BY <2>3 DEF Fetching, StartScan, DrainPage, AbandonScan, NoTransactions, FetchFails,
                PageRows, Elsewhere, scanVars
  <2>5. \/ \E outcome \in BatchOutcome : AckProgress(outcome)
        \/ FinishScan
    BY <2>3, <2>4 DEF Next, Acknowledged, AckSkippedPage, AckRetryFresh, AckIdle,
                      DispatchFails
  <2>6. call \in {"batchAck", "finish"} /\ ~required
    BY <2>3, <2>5 DEF AckProgress, FinishScan, FailuresAfterScan, FailuresAfterProgress,
                      OwedAfter
  <2> QED BY <2>6 DEF ScanInv, DebtIsKnown
<1> QED BY <1>1, ScanInvariance, PTL DEF Spec, EscalationIsSticky
=============================================================================
