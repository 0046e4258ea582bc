--------------------------- MODULE PusherConnection ---------------------------
(***************************************************************************)
(* The Pusher WebSocket client, PusherConnection::run,                     *)
(* connect_and_subscribe and listen (src/src/websocket.rs:85-248), with    *)
(* the fallback polls that watch its state (PusherStatus and               *)
(* PusherAwarePoller, src/src/work_trigger.rs:15-89).                      *)
(*                                                                         *)
(* The server is external.  It delivers frames in order while the link is  *)
(* up, replays nothing, and the link may die without a word.  A trigger is *)
(* reduced to whether all work created so far has been announced to it:    *)
(* WorkTrigger says what becomes of an announcement.  A fallback poll      *)
(* announces too, but one that falls into a delay within a wallet scan     *)
(* only resumes that scan at its cursor (wallet.rs:187-192, 308-320).  The *)
(* fresh lookup is then the one the scan owes, which WalletScan shows to   *)
(* come (LeftWorkIsLookedUp).  Deadlines are abstracted to whether they    *)
(* have passed.                                                            *)
(***************************************************************************)
EXTENDS Integers, Sequences

CONSTANTS
    Kinds,          \* the triggers: transactions and managed wallets
    MaxInbox,       \* bound on the frames in flight
    MaxFailures     \* bound on failures, which saturates

ASSUME ConnectionAssumption ==
    /\ MaxInbox \in Nat \ {0}
    /\ MaxFailures \in Nat \ {0}
    /\ Kinds \cap {"confirmed", "noise", "fatal"} = {}

VARIABLES
    (* the server and the network *)
    link,           \* "none", "up", or "dead": half-open, nothing arrives
    subscribed,     \* the server has the socket as a subscriber
    inbox,          \* frames in flight to the daemon
    (* the client *)
    phase,          \* "connect", "confirm", "announce", "listen" or "delay"
    toForce,        \* triggers still to be forced after the subscription
    failures,       \* failures, the exponent of the reconnection delay
    pinged,         \* pong_deadline is set
    deadline,       \* the listening loop's deadline: "armed" or "due"
    stable,         \* the subscription has lasted MIN_STABLE_SUBSCRIPTION
    (* PusherStatus and one PusherAwarePoller for each trigger *)
    connected,      \* PusherStatus
    unread,         \* pollers with a status change not yet taken
    pollDue,        \* pollers whose deadline has passed
    interval,       \* the interval their deadline was set with
    (* history *)
    unseen,         \* triggers with work created since they were last told
    heard,          \* something was received since the last ping
    tries           \* attempts since the last stable subscription

serverVars == <<link, subscribed, inbox>>
clientVars == <<phase, toForce, failures, pinged, deadline, stable>>
pollVars   == <<connected, unread, pollDue, interval>>
vars == <<serverVars, clientVars, pollVars, unseen, heard, tries>>

\* "noise" is any frame without effect: pongs, other channels and events;
\* "fatal" ends the connection: a Pusher error, a close, a malformed frame.
Frame == Kinds \cup {"confirmed", "noise", "fatal"}

TypeOK ==
    /\ link \in {"none", "up", "dead"}
    /\ subscribed \in BOOLEAN
    /\ inbox \in Seq(Frame) /\ Len(inbox) <= MaxInbox
    /\ phase \in {"connect", "confirm", "announce", "listen", "delay"}
    /\ toForce \subseteq Kinds
    /\ failures \in 0 .. MaxFailures
    /\ pinged \in BOOLEAN
    /\ deadline \in {"armed", "due"}
    /\ stable \in BOOLEAN
    /\ connected \in BOOLEAN
    /\ unread \subseteq Kinds
    /\ pollDue \subseteq Kinds
    /\ interval \in [Kinds -> {"outage", "safety"}]
    /\ unseen \subseteq Kinds
    /\ heard \in BOOLEAN
    /\ tries \in 0 .. MaxFailures

\* The pollers' own startup lookup covers what was created before.
Init ==
    /\ link = "none"
    /\ subscribed = FALSE
    /\ inbox = <<>>
    /\ phase = "connect"
    /\ toForce = {}
    /\ failures = 0
    /\ pinged = FALSE
    /\ deadline = "armed"
    /\ stable = FALSE
    /\ connected = FALSE
    /\ unread = {}
    /\ pollDue = {}
    /\ interval = [k \in Kinds |-> "outage"]
    /\ unseen = {}
    /\ heard = FALSE
    /\ tries = 0

-----------------------------------------------------------------------------
(* The server and the network.                                             *)

Deliverable == link = "up" /\ Len(inbox) < MaxInbox

\* Work is created; an event goes to a subscriber that can be reached.
CreateWork(k) ==
    /\ subscribed /\ link = "up" => Deliverable
    /\ unseen' = unseen \cup {k}
    /\ inbox' = IF subscribed /\ link = "up" THEN Append(inbox, k) ELSE inbox
    /\ UNCHANGED <<link, subscribed, clientVars, pollVars, heard, tries>>

\* The server takes the subscription, and confirms it some time later.
Subscribe ==
    /\ phase = "confirm"
    /\ link = "up"
    /\ ~subscribed
    /\ subscribed' = TRUE
    /\ UNCHANGED <<link, inbox, clientVars, pollVars, unseen, heard, tries>>

SendFrame(frame) ==
    /\ Deliverable
    /\ frame = "confirmed" => subscribed
    /\ inbox' = Append(inbox, frame)
    /\ UNCHANGED <<link, subscribed, clientVars, pollVars, unseen, heard, tries>>

\* The connection becomes half-open.
LinkDies ==
    /\ link = "up"
    /\ link' = "dead"
    /\ UNCHANGED <<subscribed, inbox, clientVars, pollVars, unseen, heard, tries>>

-----------------------------------------------------------------------------
(* PusherStatus and the fallback polls.                                    *)

\* set_connected, send_if_modified
SetConnected(now) ==
    /\ connected' = now
    /\ unread' = IF connected = now THEN unread ELSE Kinds

\* poll_interval
PollInterval(now) == IF now THEN "safety" ELSE "outage"

\* Mutant: a change of state leaves the deadline as it was.
TakeStatusKeepingInterval(k) ==
    /\ k \in unread
    /\ unread' = unread \ {k}
    /\ UNCHANGED <<serverVars, clientVars, connected, pollDue, interval, unseen,
                   heard, tries>>

\* The poller takes a state transition, which restarts its timer.
TakeStatus(k) ==
    /\ k \in unread
    /\ unread' = unread \ {k}
    /\ interval' = [interval EXCEPT ![k] = PollInterval(connected)]
    /\ pollDue' = pollDue \ {k}
    /\ UNCHANGED <<serverVars, clientVars, connected, unseen, heard, tries>>

PollElapses(k) ==
    /\ k \notin pollDue
    /\ pollDue' = pollDue \cup {k}
    /\ UNCHANGED <<serverVars, clientVars, connected, unread, interval, unseen,
                   heard, tries>>

\* tick returns, and the poller looks for work: at once, or after the scan that
\* it resumes.
Tick(k) ==
    /\ k \in pollDue
    /\ pollDue' = pollDue \ {k}
    /\ interval' = [interval EXCEPT ![k] = PollInterval(connected)]
    /\ unseen' = unseen \ {k}
    /\ UNCHANGED <<serverVars, clientVars, connected, unread, heard, tries>>

-----------------------------------------------------------------------------
(* Connecting.                                                             *)

\* Mutant: a plain addition.
OneMoreFailureUnbounded(count) == count + 1

\* saturating_add
OneMoreFailure(count) == IF count < MaxFailures THEN count + 1 ELSE count

\* Mutant: any subscription, however short, resets the backoff.
ResetBySubscription(count, lasted) == 0

\* reconnect_backoff_attempt
ReconnectBackoffAttempt(count, lasted) == IF lasted THEN 0 ELSE count

\* The socket is dropped, with the listening loop's own state, and the
\* reconnection delay begins.
Disconnect(count) ==
    /\ link' = "none"
    /\ subscribed' = FALSE
    /\ inbox' = <<>>
    /\ phase' = "delay"
    /\ SetConnected(FALSE)
    /\ failures' = OneMoreFailure(count)
    /\ pinged' = FALSE
    /\ deadline' = "armed"
    /\ stable' = FALSE
    /\ heard' = FALSE
    /\ UNCHANGED <<toForce, pollDue, interval, unseen>>

\* Connected, established and authenticated: pusher:subscribe is sent.
Established ==
    /\ phase = "connect"
    /\ link' = "up"
    /\ phase' = "confirm"
    /\ UNCHANGED <<subscribed, inbox, toForce, failures, pinged, deadline, stable,
                   pollVars, unseen, heard, tries>>

\* A frame other than the confirmation and an error is ignored while waiting
\* for the confirmation, events included.
IgnoreFrame ==
    /\ phase = "confirm"
    /\ inbox # <<>>
    /\ Head(inbox) \notin {"confirmed", "fatal"}
    /\ inbox' = Tail(inbox)
    /\ UNCHANGED <<link, subscribed, clientVars, pollVars, unseen, heard, tries>>

\* Mutant: only the first subscription forces a lookup.
ConfirmedForcingOnce ==
    /\ phase = "confirm"
    /\ inbox # <<>>
    /\ Head(inbox) = "confirmed"
    /\ inbox' = Tail(inbox)
    /\ phase' = "announce"
    /\ SetConnected(TRUE)
    /\ toForce' = IF failures = 0 THEN Kinds ELSE {}
    /\ UNCHANGED <<link, subscribed, failures, pinged, deadline, stable, pollDue,
                   interval, unseen, heard, tries>>

\* The subscription is confirmed: set_connected(true), and both triggers are
\* still to be forced.
Confirmed ==
    /\ phase = "confirm"
    /\ inbox # <<>>
    /\ Head(inbox) = "confirmed"
    /\ inbox' = Tail(inbox)
    /\ phase' = "announce"
    /\ SetConnected(TRUE)
    /\ toForce' = Kinds
    /\ UNCHANGED <<link, subscribed, failures, pinged, deadline, stable, pollDue,
                   interval, unseen, heard, tries>>

\* connect_and_subscribe fails: a refusal, an error frame, a timeout.
AttemptFails ==
    /\ phase \in {"connect", "confirm"}
    /\ Disconnect(failures)
    /\ tries' = OneMoreFailure(tries)

\* force, on one trigger after the other
ForceLookup(k) ==
    /\ phase = "announce"
    /\ k \in toForce
    /\ toForce' = toForce \ {k}
    /\ unseen' = unseen \ {k}
    /\ UNCHANGED <<serverVars, phase, failures, pinged, deadline, stable,
                   pollVars, heard, tries>>

\* listen begins with deadlines of its own.
StartListening ==
    /\ phase = "announce"
    /\ toForce = {}
    /\ phase' = "listen"
    /\ UNCHANGED <<serverVars, toForce, failures, pinged, deadline, stable,
                   pollVars, unseen, heard, tries>>

RetryDelayElapses ==
    /\ phase = "delay"
    /\ phase' = "connect"
    /\ UNCHANGED <<serverVars, toForce, failures, pinged, deadline, stable,
                   pollVars, unseen, heard, tries>>

-----------------------------------------------------------------------------
(* Listening.                                                              *)

\* Mutant: only the activity deadline is moved by traffic.
ReceiveKeepingPong ==
    /\ phase = "listen"
    /\ inbox # <<>>
    /\ Head(inbox) # "fatal"
    /\ inbox' = Tail(inbox)
    /\ deadline' = IF pinged THEN deadline ELSE "armed"
    /\ heard' = TRUE
    /\ unseen' = unseen \ {Head(inbox)}
    /\ UNCHANGED <<link, subscribed, phase, toForce, failures, pinged, stable,
                   pollVars, tries>>

\* Any frame proves the connection alive; an event is recorded in its trigger.
Receive ==
    /\ phase = "listen"
    /\ inbox # <<>>
    /\ Head(inbox) # "fatal"
    /\ inbox' = Tail(inbox)
    /\ pinged' = FALSE
    /\ deadline' = "armed"
    /\ heard' = TRUE
    /\ unseen' = unseen \ {Head(inbox)}
    /\ UNCHANGED <<link, subscribed, phase, toForce, failures, stable, pollVars,
                   tries>>

DeadlinePasses ==
    /\ phase = "listen"
    /\ deadline = "armed"
    /\ deadline' = "due"
    /\ UNCHANGED <<serverVars, phase, toForce, failures, pinged, stable, pollVars,
                   unseen, heard, tries>>

\* Mutant: the ping is sent again at every deadline.
PingForever ==
    /\ phase = "listen"
    /\ deadline = "due"
    /\ ~pinged
    /\ deadline' = "armed"
    /\ heard' = FALSE
    /\ UNCHANGED <<serverVars, phase, toForce, failures, pinged, stable, pollVars,
                   unseen, tries>>

\* Nothing was received for the activity timeout.
Ping ==
    /\ phase = "listen"
    /\ deadline = "due"
    /\ ~pinged
    /\ pinged' = TRUE
    /\ deadline' = "armed"
    /\ heard' = FALSE
    /\ UNCHANGED <<serverVars, phase, toForce, failures, stable, pollVars, unseen,
                   tries>>

\* listen returns: what run does then.
EndListening ==
    /\ Disconnect(ReconnectBackoffAttempt(failures, stable))
    /\ tries' = IF stable THEN 1 ELSE OneMoreFailure(tries)

\* "Pusher ping timed out"
PingTimesOut ==
    /\ phase = "listen"
    /\ deadline = "due"
    /\ pinged
    /\ EndListening

ReceiveFatal ==
    /\ phase = "listen"
    /\ inbox # <<>>
    /\ Head(inbox) = "fatal"
    /\ EndListening

\* The stream ends, or sending fails.
SocketFails ==
    /\ phase = "listen"
    /\ EndListening

BecomesStable ==
    /\ phase = "listen"
    /\ ~stable
    /\ stable' = TRUE
    /\ UNCHANGED <<serverVars, phase, toForce, failures, pinged, deadline,
                   pollVars, unseen, heard, tries>>

-----------------------------------------------------------------------------
Server ==
    \/ \E k \in Kinds : CreateWork(k)
    \/ Subscribe
    \/ \E frame \in {"confirmed", "noise", "fatal"} : SendFrame(frame)
    \/ LinkDies

Announcing == (\E k \in Kinds : ForceLookup(k)) \/ StartListening

Listening ==
    Receive \/ DeadlinePasses \/ Ping \/ PingTimesOut \/ ReceiveFatal

Next ==
    \/ Server
    \/ \E k \in Kinds : TakeStatus(k) \/ PollElapses(k) \/ Tick(k)
    \/ Established
    \/ IgnoreFrame
    \/ Confirmed
    \/ AttemptFails
    \/ Announcing
    \/ RetryDelayElapses
    \/ Listening
    \/ SocketFails
    \/ BecomesStable

\* The client's own steps are run, its handshake times out and its deadlines
\* pass.  A fallback deadline is only sure to pass while state transitions do
\* not keep restarting it.
Fairness ==
    /\ WF_vars(Announcing)
    /\ WF_vars(AttemptFails \/ Confirmed \/ Established)
    /\ WF_vars(Listening)
    /\ \A k \in Kinds :
           /\ WF_vars(TakeStatus(k))
           /\ WF_vars(Tick(k))
           /\ WF_vars(PollElapses(k)) \/ []<><<TakeStatus(k)>>_vars

Spec == Init /\ [][Next]_vars /\ Fairness

-----------------------------------------------------------------------------
(* Properties.                                                             *)

Carries(frames, frame) == \E i \in 1 .. Len(frames) : frames[i] = frame

\* While the client listens on a live link, everything created so far has
\* been announced to its trigger or is in flight: nothing falls between the
\* time offline, the subscription and the start of listening, although Pusher
\* replays nothing and early events are ignored (websocket.rs:96-99).
NothingMissedWhileListening ==
    phase = "listen" /\ link = "up" =>
        \A k \in unseen : Carries(inbox, k)

\* A poller that has taken the latest state transition waits at most the
\* interval of that state: no safety interval outlives the connection
\* (work_trigger.rs:58-59).
IntervalMatchesState ==
    \A k \in Kinds \ unread : interval[k] = PollInterval(connected)

\* The reconnection delay grows with the attempts since the last stable
\* subscription, so a socket that is accepted and dropped again is not
\* retried hot (websocket.rs:103, reconnect_backoff_attempt).
BackoffCountsTries == failures = tries

\* Only a peer that has been silent since the ping is given up
\* (websocket.rs:208-210).
SilentPeerOnly == [][PingTimesOut => ~heard]_vars

\* A half-open link is noticed by the keepalive alone: nothing arrives, and the
\* network reports nothing (websocket.rs:237-245).
DeadLinkNoticed == phase = "listen" /\ link = "dead" ~> phase # "listen"

\* Work is announced to its trigger sooner or later, however the connection
\* flaps and whatever it loses: by an event, by the lookup forced after a
\* reconnection (websocket.rs:96-98), or by a fallback poll
\* (work_trigger.rs:58-59).
WorkIsNoticed == \A k \in Kinds : k \in unseen ~> k \notin unseen
=============================================================================
