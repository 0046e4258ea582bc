----------------------------- MODULE WorkTrigger -----------------------------
(***************************************************************************)
(* The wake-up state shared by the WebSocket reader, which records events  *)
(* and forces lookups, and one serialised worker, which sleeps between     *)
(* cursor scans (src/src/work_trigger.rs).  The transaction poller and the *)
(* wallet poller own one trigger each.                                     *)
(*                                                                         *)
(* Time is abstracted to the state of the debounce deadline: "none", still *)
(* in the future ("armed"), or reached ("due").  The two halves of a       *)
(* notification - the locked update and notify_one - are separate steps,   *)
(* as are the check and the sleep of a waiting worker.                     *)
(***************************************************************************)
EXTENDS Integers

CONSTANTS
    EventTriggerLimit,   \* EVENT_TRIGGER_LIMIT, 25 in the code
    Generations          \* modulus of the wrapping u64 generation counter

ASSUME LimitAssumption == EventTriggerLimit \in Nat \ {0}
ASSUME GenerationsAssumption == Generations \in Nat \ {0, 1}

VARIABLES
    trigger,    \* the TriggerState behind the mutex
    permit,     \* the single stored permit of tokio's Notify
    recorder,   \* the WebSocket reader: "idle", or between update and notify_one
    worker,     \* where the worker is, one of WorkerPlaces
    timer,      \* the deadline the parked worker captured: none/current/stale
    baseline,   \* what wait_for_new_event captured on its first poll
    (* history *)
    recorded,   \* something was recorded since the latest fresh lookup began
    news        \* something was recorded since the current wait_for_new_event

triggerVars == <<trigger, permit, recorder, worker, timer, baseline,
                 recorded, news>>

NoLookup == -1

Generation == 0 .. Generations - 1

\* The struct TriggerState.
TriggerState ==
    [generation : Generation,
     lookup     : Generation \cup {NoLookup},
     pending    : 0 .. EventTriggerLimit,
     forced     : BOOLEAN,
     debounce   : {"none", "armed", "due"}]

\* "lookup": about to begin a fresh lookup;  "working": in a cursor scan;
\* "ready*": in wait_until_ready;  "new*": in wait_for_new_event, where "Check"
\* is about to look under the lock, "Armed" has looked and not yet polled its
\* notified() future, and "Parked" is asleep.
WorkerPlaces == {"lookup", "working",
                 "readyCheck", "readyArmed", "readyParked",
                 "newStart", "newCheck", "newArmed", "newParked"}

TriggerTypeOK ==
    /\ trigger \in TriggerState
    /\ permit \in BOOLEAN
    /\ recorder \in {"idle", "notify"}
    /\ worker \in WorkerPlaces
    /\ timer \in {"none", "current", "stale"}
    /\ baseline \in [generation : Generation, forced : BOOLEAN]
    /\ recorded \in BOOLEAN
    /\ news \in BOOLEAN

TriggerInit ==
    /\ trigger = [generation |-> 0, lookup |-> NoLookup, pending |-> 0,
                  forced |-> FALSE, debounce |-> "none"]
    /\ permit = FALSE
    /\ recorder = "idle"
    /\ worker = "lookup"          \* mandatory startup catch-up
    /\ timer = "none"
    /\ baseline = [generation |-> 0, forced |-> FALSE]
    /\ recorded = FALSE
    /\ news = FALSE

-----------------------------------------------------------------------------
(* The WebSocket reader.                                                   *)

\* Mutant: the cap is forgotten.
OneMoreUncapped(pending) == pending + 1

\* saturating_add(1).min(EVENT_TRIGGER_LIMIT)
OneMore(pending) ==
    IF pending < EventTriggerLimit THEN pending + 1 ELSE EventTriggerLimit

\* Mutant: the update is not followed by a notification.
RecordEventSilently ==
    /\ recorder = "idle"
    /\ trigger' = [trigger EXCEPT !.generation = (@ + 1) % Generations,
                                  !.pending    = OneMore(@),
                                  !.debounce   = "armed"]
    /\ timer' = IF timer = "current" THEN "stale" ELSE timer
    /\ recorded' = TRUE
    /\ news' = TRUE
    /\ UNCHANGED <<permit, recorder, worker, baseline>>

\* record_event, the locked part.  A worker already parked keeps sleeping
\* until the deadline it captured, which is no longer the current one.
RecordEvent ==
    /\ recorder = "idle"
    /\ trigger' = [trigger EXCEPT !.generation = (@ + 1) % Generations,
                                  !.pending    = OneMore(@),
                                  !.debounce   = "armed"]
    /\ timer' = IF timer = "current" THEN "stale" ELSE timer
    /\ recorder' = "notify"
    /\ recorded' = TRUE
    /\ news' = TRUE
    /\ UNCHANGED <<permit, worker, baseline>>

\* force, the locked part: startup catch-up or a WebSocket reconnect.
ForceLookup ==
    /\ recorder = "idle"
    /\ trigger' = [trigger EXCEPT !.forced = TRUE]
    /\ recorder' = "notify"
    /\ recorded' = TRUE
    /\ news' = TRUE
    /\ UNCHANGED <<permit, worker, timer, baseline>>

\* notify_one at the end of record_event and of force.
NotifyOne ==
    /\ recorder = "notify"
    /\ permit' = TRUE
    /\ recorder' = "idle"
    /\ UNCHANGED <<trigger, worker, timer, baseline, recorded, news>>

\* EVENT_DEBOUNCE passes without a further event.
DebounceElapses ==
    /\ trigger.debounce = "armed"
    /\ trigger' = [trigger EXCEPT !.debounce = "due"]
    /\ UNCHANGED <<permit, recorder, worker, timer, baseline, recorded, news>>

-----------------------------------------------------------------------------
(* The worker.                                                             *)

\* Mutant: only the trailing debounce deadline ends the wait for events.
ReadyWithoutLimit == trigger.forced \/ trigger.debounce = "due"

\* The condition under which wait_until_ready returns.
Ready ==
    \/ trigger.forced
    \/ trigger.pending >= EventTriggerLimit
    \/ trigger.debounce = "due"

\* Mutant: looking once is enough, without the deadline seen under the lock.
ReadyCheckWithoutTimer ==
    /\ worker = "readyCheck"
    /\ worker' = IF Ready THEN "lookup" ELSE "readyArmed"
    /\ timer' = "none"
    /\ UNCHANGED <<trigger, permit, recorder, baseline, recorded, news>>

\* wait_until_ready: lock, look, and return or go on to sleep until a permit
\* or the deadline seen under the lock.
ReadyCheck ==
    /\ worker = "readyCheck"
    /\ IF Ready
       THEN /\ worker' = "lookup"
            /\ timer' = "none"
       ELSE /\ worker' = "readyArmed"
            /\ timer' = IF trigger.debounce = "none" THEN "none" ELSE "current"
    /\ UNCHANGED <<trigger, permit, recorder, baseline, recorded, news>>

TimerFires ==
    \/ timer = "stale"
    \/ timer = "current" /\ trigger.debounce = "due"

\* Polling notified() takes a stored permit, and sleeps if there is none.
Park ==
    /\ ~permit
    /\ \/ worker = "readyArmed" /\ worker' = "readyParked"
       \/ worker = "newArmed" /\ worker' = "newParked"
    /\ UNCHANGED <<trigger, permit, recorder, timer, baseline, recorded, news>>

\* The select! of wait_until_ready: the permit is consumed only by the branch
\* that took it.
ReadyWake ==
    /\ worker \in {"readyArmed", "readyParked"}
    /\ \/ permit /\ permit' = FALSE
       \/ TimerFires /\ UNCHANGED permit
    /\ worker' = "readyCheck"
    /\ timer' = "none"
    /\ UNCHANGED <<trigger, recorder, baseline, recorded, news>>

\* wait_for_new_event is first polled and captures its baseline.
NewStart ==
    /\ worker = "newStart"
    /\ baseline' = [generation |-> trigger.generation, forced |-> trigger.forced]
    /\ worker' = "newCheck"
    /\ news' = FALSE
    /\ UNCHANGED <<trigger, permit, recorder, timer, recorded>>

\* Mutant: known work interrupts the delay, as it would wait_until_ready.
SeesPending == trigger.forced \/ trigger.pending > 0

\* The condition under which wait_for_new_event returns.
SeesNews ==
    \/ trigger.generation # baseline.generation
    \/ trigger.forced /\ ~baseline.forced

NewCheck ==
    /\ worker = "newCheck"
    /\ worker' = IF SeesNews THEN "lookup" ELSE "newArmed"
    /\ UNCHANGED <<trigger, permit, recorder, timer, baseline, recorded, news>>

NewWake ==
    /\ worker \in {"newArmed", "newParked"}
    /\ permit
    /\ permit' = FALSE
    /\ worker' = "newCheck"
    /\ UNCHANGED <<trigger, recorder, timer, baseline, recorded, news>>

\* Another branch of the caller's select! completes - the fallback poll in
\* either wait, the retry delay in the second - and drops the waiting future,
\* asleep or, when that branch is polled first and its deadline has already
\* passed, not yet started.  A permit it had not consumed stays with the Notify.
WaitCancelled ==
    /\ worker \in {"readyCheck", "readyArmed", "readyParked",
                   "newStart", "newArmed", "newParked"}
    /\ worker' = "lookup"
    /\ timer' = "none"
    /\ UNCHANGED <<trigger, permit, recorder, baseline, recorded, news>>

BeginFreshLookup ==
    /\ worker = "lookup"
    /\ trigger' = [trigger EXCEPT !.lookup   = trigger.generation,
                                  !.pending  = 0,
                                  !.forced   = FALSE,
                                  !.debounce = "none"]
    /\ worker' = "working"
    /\ recorded' = FALSE
    /\ UNCHANGED <<permit, recorder, timer, baseline, news>>

\* The wallet poller goes on with a scan that a failure delay interrupted: no
\* new lookup begins, the one it began is still open.
ResumeScan ==
    /\ worker = "lookup"
    /\ trigger.lookup # NoLookup
    /\ worker' = "working"
    /\ UNCHANGED <<trigger, permit, recorder, timer, baseline, recorded, news>>

\* Mutant: a force received during the scan is not counted.
DeferredEventsOnly ==
    trigger.pending > 0 \/ trigger.lookup \notin {NoLookup, trigger.generation}

\* What finish_batch returns.
Deferred ==
    \/ trigger.forced
    \/ trigger.pending > 0
    \/ trigger.lookup # NoLookup /\ trigger.lookup # trigger.generation

\* finish_batch(scanComplete), after which the worker goes to next.
FinishBatch(scanComplete, next) ==
    /\ worker = "working"
    /\ trigger' = [trigger EXCEPT !.lookup = IF scanComplete THEN NoLookup ELSE @]
    /\ worker' = next
    /\ UNCHANGED <<permit, recorder, timer, baseline, recorded, news>>

FinishEmptyLookup(next) ==
    /\ worker = "working"
    /\ trigger' = [trigger EXCEPT !.lookup = NoLookup]
    /\ worker' = next
    /\ UNCHANGED <<permit, recorder, timer, baseline, recorded, news>>

\* Where a worker that ended a scan goes: both pollers fetch again at once
\* when finish_batch reported deferred work, and otherwise wait.
AfterScan ==
    {"newStart"} \cup (IF Deferred THEN {"lookup"} ELSE {"readyCheck"})

-----------------------------------------------------------------------------
Reader == RecordEvent \/ ForceLookup \/ NotifyOne

Waiting == ReadyCheck \/ Park \/ ReadyWake \/ NewStart \/ NewCheck \/ NewWake

Scanning ==
    \/ BeginFreshLookup
    \/ ResumeScan
    \/ FinishBatch(FALSE, "working")
    \/ \E next \in AfterScan : FinishBatch(TRUE, next)
    \/ FinishBatch(FALSE, "newStart")                \* failed submission
    \/ \E next \in {"readyCheck", "newStart"} : FinishEmptyLookup(next)

TriggerNext == Reader \/ DebounceElapses \/ Waiting \/ WaitCancelled \/ Scanning

TriggerSafety == TriggerInit /\ [][TriggerNext]_triggerVars

\* The reader never blocks between update and notify_one; the runtime polls a
\* woken worker; scans end, resumed ones too, so that a fresh one begins; a
\* retry delay that has elapsed stays elapsed, so the select! takes it however
\* often a notification wakes the other branch.
\* The quiet period of the debounce is only sure to elapse when events do not
\* keep arriving, and the fallback poll is not relied on.
TriggerFairness ==
    /\ WF_triggerVars(NotifyOne)
    /\ WF_triggerVars(Waiting \/ Scanning)
    /\ SF_triggerVars(BeginFreshLookup)
    /\ SF_triggerVars(worker \in {"newArmed", "newParked"} /\ WaitCancelled)
    /\ \/ WF_triggerVars(DebounceElapses)
       \/ []<><<RecordEvent>>_triggerVars

TriggerSpec == TriggerSafety /\ TriggerFairness

-----------------------------------------------------------------------------
(* Properties.                                                             *)

\* A worker asleep in wait_until_ready with no permit and no notification on
\* its way has nothing it should be awake for: no force, no full burst, and
\* any pending event has a deadline it will wake at (work_trigger.rs:162-186,
\* "a notification racing with the check is retained instead of being lost").
NoLostWakeup ==
    worker = "readyParked" /\ ~permit /\ recorder = "idle" =>
        /\ ~trigger.forced
        /\ trigger.pending < EventTriggerLimit
        /\ trigger.pending > 0 => timer # "none"

\* The same for the failure delay: a worker asleep in wait_for_new_event with
\* no notification on its way has not missed anything new (lines 199-219).
NoLostNews ==
    worker = "newParked" /\ ~permit /\ recorder = "idle" => ~SeesNews

\* finish_batch reports deferred work exactly when something was recorded
\* after the latest fresh lookup began: neither a notification that raced
\* with the scan nor one the scan already covers is misreported.
DeferredIsExact == Deferred <=> recorded

\* A failure delay is interrupted only by something recorded after it
\* started, never by work already pending when the failure occurred
\* (wait_for_new_event's comment, lines 190-198).
KnownWorkNeverInterrupts ==
    [][worker = "newCheck" /\ worker' = "lookup" => news]_triggerVars

\* Whatever the reader records is followed by a lookup begun after it, even
\* in an endless stream of events that keeps postponing the debounce
\* deadline, and even if the fallback poll never runs.
EveryEventIsLookedUp == recorded ~> ~recorded
=============================================================================
