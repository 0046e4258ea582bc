-------------------------- MODULE WorkTrigger_proofs --------------------------
(***************************************************************************)
(* Proofs that the trigger loses no wakeup, for every event limit and      *)
(* every width of the generation counter.                                  *)
(***************************************************************************)
EXTENDS WorkTrigger, TLAPS

\* A pending event always has a debounce deadline.
PendingHasDeadline == trigger.pending > 0 => trigger.debounce # "none"

\* From the moment the worker has decided to sleep in wait_until_ready, and
\* not only once it sleeps, anything recorded has left or will leave a permit.
SleepIsSafe ==
    worker \in {"readyArmed", "readyParked"} /\ ~permit /\ recorder = "idle" =>
        /\ ~trigger.forced
        /\ trigger.pending < EventTriggerLimit
        /\ trigger.pending > 0 => timer # "none"

\* The same for wait_for_new_event.
NewsSleepIsSafe ==
    worker \in {"newArmed", "newParked"} /\ ~permit /\ recorder = "idle" => ~SeesNews

\* What the failure delay sees as new was recorded since it started.
NewsIsNew == worker \in {"newCheck", "newArmed", "newParked"} /\ SeesNews => news

\* The generation only outruns the lookup together with the pending count.
RecordedIsKept ==
    /\ recorded <=> trigger.forced \/ trigger.pending > 0
    /\ trigger.lookup \notin {NoLookup, trigger.generation} => trigger.pending > 0

TriggerInv ==
    /\ TriggerTypeOK
    /\ PendingHasDeadline
    /\ SleepIsSafe
    /\ NewsSleepIsSafe
    /\ NewsIsNew
    /\ RecordedIsKept

\* Recording one more event keeps the count between one and the limit.
LEMMA OneMoreBounds ==
    ASSUME NEW pending \in 0 .. EventTriggerLimit
    PROVE  OneMore(pending) \in 1 .. EventTriggerLimit
BY LimitAssumption DEF OneMore

\* The wrapping increment of the generation counter stays a generation.
LEMMA NextGeneration ==
    ASSUME NEW g \in Generation
    PROVE  (g + 1) % Generations \in Generation
BY GenerationsAssumption DEF Generation

\* The state record_event leaves behind the mutex.
LEMMA RecordedState ==
    trigger \in TriggerState /\ RecordEvent =>
        /\ trigger' \in TriggerState
        /\ trigger'.pending > 0
        /\ trigger'.debounce = "armed"
        /\ trigger'.forced = trigger.forced
<1> SUFFICES ASSUME trigger \in TriggerState, RecordEvent
             PROVE  /\ trigger' \in TriggerState
                    /\ trigger'.pending > 0
                    /\ trigger'.debounce = "armed"
                    /\ trigger'.forced = trigger.forced
  OBVIOUS
<1> DEFINE g == (trigger.generation + 1) % Generations
           p == OneMore(trigger.pending)
<1>1. trigger.generation \in Generation /\ trigger.pending \in 0 .. EventTriggerLimit
  BY DEF TriggerState
<1>2. g \in Generation /\ p \in 1 .. EventTriggerLimit
  BY <1>1, OneMoreBounds, NextGeneration
<1>3. p \in 0 .. EventTriggerLimit /\ p > 0
  BY <1>2, LimitAssumption
<1>4. trigger' = [trigger EXCEPT !.generation = g, !.pending = p, !.debounce = "armed"]
  BY DEF RecordEvent
<1> HIDE DEF g, p
<1> QED BY <1>2, <1>3, <1>4 DEF TriggerState

\* The state begin_fresh_lookup leaves behind the mutex.
LEMMA FreshState ==
    trigger \in TriggerState /\ BeginFreshLookup =>
        /\ trigger' \in TriggerState
        /\ ~(trigger'.pending > 0)
        /\ ~trigger'.forced
        /\ trigger'.lookup = trigger'.generation
<1>1. 0 \in 0 .. EventTriggerLimit /\ ~(0 > 0)
  BY LimitAssumption
<1> QED BY <1>1 DEF BeginFreshLookup, TriggerState

LEMMA TriggerInvInit == TriggerInit => TriggerInv
<1> SUFFICES ASSUME TriggerInit PROVE TriggerInv
  OBVIOUS
<1>1. 0 \in Generation /\ 0 \in 0 .. EventTriggerLimit
  BY LimitAssumption, GenerationsAssumption DEF Generation
<1>2. TriggerTypeOK
  BY <1>1 DEF TriggerInit, TriggerTypeOK, TriggerState, WorkerPlaces
<1>3. PendingHasDeadline /\ SleepIsSafe /\ NewsSleepIsSafe /\ NewsIsNew
  BY DEF TriggerInit, PendingHasDeadline, SleepIsSafe, NewsSleepIsSafe, NewsIsNew
<1>4. RecordedIsKept
  BY DEF TriggerInit, RecordedIsKept
<1> QED BY <1>2, <1>3, <1>4 DEF TriggerInv

\* The WebSocket reader's steps preserve the invariant.
LEMMA ReaderPreserves == TriggerInv /\ Reader => TriggerInv'
<1> SUFFICES ASSUME TriggerInv, Reader PROVE TriggerInv'
  OBVIOUS
<1> USE DEF TriggerInv, TriggerTypeOK, WorkerPlaces
<1>1. CASE RecordEvent
  <2>1. /\ trigger' \in TriggerState
        /\ trigger'.pending > 0
        /\ trigger'.debounce = "armed"
    BY <1>1, RecordedState
  <2>2. TriggerTypeOK'
    BY <1>1, <2>1 DEF RecordEvent
  <2>3. PendingHasDeadline' /\ SleepIsSafe' /\ NewsSleepIsSafe' /\ NewsIsNew'
    BY <1>1, <2>1
       DEF RecordEvent, PendingHasDeadline, SleepIsSafe, NewsSleepIsSafe, NewsIsNew
  <2>4. RecordedIsKept'
    BY <1>1, <2>1 DEF RecordEvent, RecordedIsKept
  <2> QED BY <2>2, <2>3, <2>4
<1>2. CASE ForceLookup
  <2> USE <1>2 DEF ForceLookup
  <2>1. trigger' \in TriggerState
    BY DEF TriggerState
  <2>2. PendingHasDeadline' /\ SleepIsSafe' /\ NewsSleepIsSafe' /\ NewsIsNew'
    BY DEF PendingHasDeadline, SleepIsSafe, NewsSleepIsSafe, NewsIsNew,
           TriggerState
  <2>3. RecordedIsKept'
    BY DEF RecordedIsKept, TriggerState
  <2> QED BY <2>1, <2>2, <2>3
<1>3. CASE NotifyOne
  BY <1>3 DEF NotifyOne, PendingHasDeadline, SleepIsSafe, NewsSleepIsSafe,
              NewsIsNew, SeesNews, RecordedIsKept
<1> QED BY <1>1, <1>2, <1>3 DEF Reader

\* So do the debounce timer, both waits and their cancellation.
LEMMA WaitingPreserves ==
    TriggerInv /\ (DebounceElapses \/ Waiting \/ WaitCancelled) => TriggerInv'
<1> SUFFICES ASSUME TriggerInv, DebounceElapses \/ Waiting \/ WaitCancelled
             PROVE  TriggerInv'
  OBVIOUS
<1> USE DEF TriggerInv, TriggerTypeOK, WorkerPlaces, PendingHasDeadline,
            SleepIsSafe, NewsSleepIsSafe, NewsIsNew, SeesNews, RecordedIsKept
<1>1. CASE DebounceElapses
  BY <1>1 DEF DebounceElapses, TriggerState
<1>2. CASE ReadyCheck
  <2>1. CASE Ready
    BY <1>2, <2>1 DEF ReadyCheck
  <2>2. CASE ~Ready
    <3>1. ~trigger.forced /\ ~(trigger.pending >= EventTriggerLimit)
      BY <2>2 DEF Ready
    <3>2. trigger.pending < EventTriggerLimit
      BY <3>1, LimitAssumption DEF TriggerState
    <3> QED BY <1>2, <2>2, <3>1, <3>2 DEF ReadyCheck
  <2> QED BY <2>1, <2>2
<1>3. CASE Park
  BY <1>3 DEF Park
<1>4. CASE ReadyWake
  BY <1>4 DEF ReadyWake
<1>5. CASE NewStart
  BY <1>5 DEF NewStart, TriggerState
<1>6. CASE NewCheck
  BY <1>6 DEF NewCheck
<1>7. CASE NewWake
  BY <1>7 DEF NewWake
<1>8. CASE WaitCancelled
  BY <1>8 DEF WaitCancelled
<1> QED BY <1>1, <1>2, <1>3, <1>4, <1>5, <1>6, <1>7, <1>8 DEF Waiting

\* So do the worker's scans.
LEMMA ScanningPreserves == TriggerInv /\ Scanning => TriggerInv'
<1> SUFFICES ASSUME TriggerInv, Scanning PROVE TriggerInv'
  OBVIOUS
<1> USE DEF TriggerInv, TriggerTypeOK, WorkerPlaces, PendingHasDeadline,
            SleepIsSafe, NewsSleepIsSafe, NewsIsNew, RecordedIsKept
<1>1. CASE BeginFreshLookup
  <2>1. /\ trigger' \in TriggerState
        /\ ~(trigger'.pending > 0)
        /\ ~trigger'.forced
        /\ trigger'.lookup = trigger'.generation
    BY <1>1, FreshState
  <2>2. TriggerTypeOK' /\ RecordedIsKept' /\ PendingHasDeadline'
    BY <1>1, <2>1 DEF BeginFreshLookup
  <2>3. SleepIsSafe' /\ NewsSleepIsSafe' /\ NewsIsNew'
    BY <1>1, <2>1 DEF BeginFreshLookup
  <2> QED BY <2>2, <2>3
<1>2. ASSUME NEW complete \in BOOLEAN, NEW next \in {"lookup", "working", "readyCheck", "newStart"},
             FinishBatch(complete, next)
      PROVE  TriggerInv'
  BY <1>2 DEF FinishBatch, TriggerState
<1>3. ASSUME NEW next \in {"readyCheck", "newStart"}, FinishEmptyLookup(next)
      PROVE  TriggerInv'
  BY <1>3 DEF FinishEmptyLookup, TriggerState
<1>4. CASE ResumeScan
  BY <1>4 DEF ResumeScan
<1> QED BY <1>1, <1>2, <1>3, <1>4 DEF Scanning, AfterScan

LEMMA TriggerInvStep == TriggerInv /\ [TriggerNext]_triggerVars => TriggerInv'
<1>1. TriggerInv /\ UNCHANGED triggerVars => TriggerInv'
  BY DEF triggerVars, TriggerInv, TriggerTypeOK, PendingHasDeadline,
         SleepIsSafe, NewsSleepIsSafe, NewsIsNew, SeesNews, RecordedIsKept
<1> QED BY <1>1, ReaderPreserves, WaitingPreserves, ScanningPreserves
           DEF TriggerNext

\* The inductive invariant holds of every worker that follows the protocol,
\* fair or not.
THEOREM TriggerInvariance == TriggerSafety => []TriggerInv
BY TriggerInvInit, TriggerInvStep, PTL DEF TriggerSafety

\* Every variable of the trigger keeps its type, in particular the pending
\* count its cap and the generation counter its width.
THEOREM TriggerTypeCorrect == TriggerSafety => []TriggerTypeOK
<1>1. TriggerInv => TriggerTypeOK
  BY DEF TriggerInv
<1> QED BY <1>1, TriggerInvariance, PTL

\* A worker never sleeps through work that is already recorded, whatever the
\* interleaving of the reader's two steps with the worker's check and sleep.
THEOREM NoWakeupIsLost == TriggerSafety => []NoLostWakeup
<1>1. TriggerInv => NoLostWakeup
  BY DEF TriggerInv, SleepIsSafe, NoLostWakeup
<1> QED BY <1>1, TriggerInvariance, PTL

\* Nor does it sleep out a failure delay through something recorded since the
\* delay began (wait_for_new_event, work_trigger.rs:189-219).
THEOREM NoNewsIsLost == TriggerSafety => []NoLostNews
<1>1. TriggerInv => NoLostNews
  BY DEF TriggerInv, NewsSleepIsSafe, NoLostNews
<1> QED BY <1>1, TriggerInvariance, PTL

\* finish_batch reports deferred work exactly when there is some.
THEOREM DeferredWorkIsExact == TriggerSafety => []DeferredIsExact
<1>1. TriggerInv => DeferredIsExact
  BY DEF TriggerInv, TriggerTypeOK, RecordedIsKept, DeferredIsExact, Deferred
<1> QED BY <1>1, TriggerInvariance, PTL

\* Only what is recorded during a failure delay can cut it short.
THEOREM DelayIsHonoured == TriggerSafety => KnownWorkNeverInterrupts
<1>1. TriggerInv /\ [TriggerNext]_triggerVars
      => [worker = "newCheck" /\ worker' = "lookup" => news]_triggerVars
  <2> SUFFICES ASSUME TriggerInv, TriggerNext, worker = "newCheck", worker' = "lookup"
               PROVE  news
    OBVIOUS
  <2>1. NewCheck
    BY DEF TriggerNext, Reader, RecordEvent, ForceLookup, NotifyOne, DebounceElapses,
           Waiting, ReadyCheck, Park, ReadyWake, NewStart, NewWake,
           WaitCancelled, Scanning, BeginFreshLookup, ResumeScan,
           FinishBatch, FinishEmptyLookup
  <2> QED BY <2>1 DEF NewCheck, TriggerInv, NewsIsNew
<1> QED BY <1>1, TriggerInvariance, PTL
        DEF TriggerSpec, TriggerSafety, KnownWorkNeverInterrupts
=============================================================================
