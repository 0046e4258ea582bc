----------------------- MODULE PusherConnection_proofs -----------------------
(***************************************************************************)
(* Proofs that a listening client has missed nothing, that the fallback    *)
(* polls follow the connection's state, that the backoff counts the        *)
(* attempts, and that only a silent peer is given up, for every set of     *)
(* triggers, every number of frames in flight and every bound on failures. *)
(***************************************************************************)
EXTENDS PusherConnection, TLAPS

\* The confirmation only comes from a server that has the subscription, so a
\* client past it gets every event created from then on.
SubscribedWhenConfirmed ==
    /\ Carries(inbox, "confirmed") => subscribed
    /\ phase \in {"announce", "listen"} => subscribed

\* What was created since the subscription is in flight; what was created
\* before, or was ignored while confirming, is still to be forced.
NothingSkipped ==
    /\ phase = "listen" => toForce = {}
    /\ phase \in {"announce", "listen"} /\ link = "up" =>
           \A k \in unseen : k \in toForce \/ Carries(inbox, k)

SilentSincePing == pinged => phase = "listen" /\ ~heard

ConnectionInv ==
    /\ TypeOK
    /\ SubscribedWhenConfirmed
    /\ NothingSkipped
    /\ SilentSincePing
    /\ IntervalMatchesState
    /\ BackoffCountsTries

-----------------------------------------------------------------------------
(* Frames in flight.                                                       *)

\* A frame that is sent is in flight behind those that already are.
LEMMA AppendCarries ==
    ASSUME NEW S, NEW frames \in Seq(S), NEW sent \in S, NEW frame
    PROVE  Carries(Append(frames, sent), frame) <=> Carries(frames, frame) \/ frame = sent
<1>1. Len(Append(frames, sent)) = Len(frames) + 1 /\ Len(frames) \in Nat
  OBVIOUS
<1>2. \A i \in 1 .. Len(frames) : Append(frames, sent)[i] = frames[i]
  OBVIOUS
<1>3. Append(frames, sent)[Len(frames) + 1] = sent
  OBVIOUS
<1>4. ASSUME Carries(Append(frames, sent), frame)
      PROVE  Carries(frames, frame) \/ frame = sent
  <2>1. PICK i \in 1 .. Len(frames) + 1 : Append(frames, sent)[i] = frame
    BY <1>1, <1>4 DEF Carries
  <2>2. CASE i = Len(frames) + 1
    BY <1>3, <2>1, <2>2
  <2>3. CASE i \in 1 .. Len(frames)
    BY <1>2, <2>1, <2>3 DEF Carries
  <2> QED BY <1>1, <2>2, <2>3
<1>5. ASSUME Carries(frames, frame)
      PROVE  Carries(Append(frames, sent), frame)
  BY <1>1, <1>2, <1>5 DEF Carries
<1>6. ASSUME frame = sent
      PROVE  Carries(Append(frames, sent), frame)
  BY <1>1, <1>3, <1>6 DEF Carries
<1> QED BY <1>4, <1>5, <1>6

\* Taking the first frame leaves the others in flight.
LEMMA TailCarries ==
    ASSUME NEW S, NEW frames \in Seq(S), frames # <<>>, NEW frame
    PROVE  /\ Tail(frames) \in Seq(S)
           /\ Len(Tail(frames)) = Len(frames) - 1
           /\ Carries(Tail(frames), frame) => Carries(frames, frame)
           /\ Carries(frames, frame) => frame = Head(frames) \/ Carries(Tail(frames), frame)
           /\ Carries(frames, Head(frames))
<1>1. Len(frames) \in Nat \ {0} /\ Head(frames) = frames[1]
  OBVIOUS
<1>2. Tail(frames) \in Seq(S) /\ Len(Tail(frames)) = Len(frames) - 1
  OBVIOUS
<1>3. \A i \in 1 .. Len(frames) - 1 : Tail(frames)[i] = frames[i + 1]
  OBVIOUS
<1>4. ASSUME Carries(Tail(frames), frame)
      PROVE  Carries(frames, frame)
  <2>1. PICK i \in 1 .. Len(frames) - 1 : Tail(frames)[i] = frame
    BY <1>2, <1>4 DEF Carries
  <2>2. i + 1 \in 1 .. Len(frames) /\ frames[i + 1] = frame
    BY <1>1, <1>3, <2>1
  <2> QED BY <2>2 DEF Carries
<1>5. ASSUME Carries(frames, frame), frame # Head(frames)
      PROVE  Carries(Tail(frames), frame)
  <2>1. PICK i \in 1 .. Len(frames) : frames[i] = frame
    BY <1>5 DEF Carries
  <2>2. i # 1
    BY <1>1, <1>5, <2>1
  <2>3. i - 1 \in 1 .. Len(frames) - 1 /\ Tail(frames)[i - 1] = frames[(i - 1) + 1]
    BY <1>1, <1>3, <2>1, <2>2
  <2>4. (i - 1) + 1 = i
    BY <1>1, <2>1
  <2> QED BY <1>2, <2>1, <2>3, <2>4 DEF Carries
<1> QED BY <1>1, <1>2, <1>4, <1>5 DEF Carries

\* Counting failures stays within the bound, and starts over at one.
LEMMA FailuresAreBounded ==
    /\ \A count \in 0 .. MaxFailures : OneMoreFailure(count) \in 0 .. MaxFailures
    /\ OneMoreFailure(0) = 1
BY ConnectionAssumption DEF OneMoreFailure

-----------------------------------------------------------------------------
(* Steps that several actions share.                                       *)

\* A change of the published state is unread by every poller.
LEMMA PublishingKeepsIntervals ==
    ASSUME TypeOK, IntervalMatchesState, NEW now \in BOOLEAN, SetConnected(now),
           UNCHANGED interval
    PROVE  IntervalMatchesState' /\ connected' \in BOOLEAN /\ unread' \subseteq Kinds
BY DEF TypeOK, IntervalMatchesState, SetConnected

\* Dropping the socket discards what is in flight, and what the client may say.
LEMMA DisconnectKeepsInv ==
    ASSUME ConnectionInv, NEW count \in 0 .. MaxFailures, Disconnect(count),
           tries' = OneMoreFailure(count)
    PROVE  ConnectionInv'
<1> USE DEF ConnectionInv, Disconnect, BackoffCountsTries
<1>1. TypeOK'
  <2>1. IntervalMatchesState' /\ connected' \in BOOLEAN /\ unread' \subseteq Kinds
    BY PublishingKeepsIntervals
  <2>2. inbox' \in Seq(Frame) /\ Len(inbox)' <= MaxInbox
    BY ConnectionAssumption
  <2>3. failures' \in 0 .. MaxFailures /\ tries' \in 0 .. MaxFailures
    BY FailuresAreBounded
  <2> QED BY <2>1, <2>2, <2>3 DEF TypeOK
<1>2. ~Carries(inbox, "confirmed")'
  BY DEF Carries
<1>3. SubscribedWhenConfirmed' /\ NothingSkipped' /\ SilentSincePing'
  BY <1>2 DEF SubscribedWhenConfirmed, NothingSkipped, SilentSincePing
<1>4. IntervalMatchesState'
  BY PublishingKeepsIntervals
<1> QED BY <1>1, <1>3, <1>4

\* What run does when listen has returned.
LEMMA EndListeningKeepsInv ==
    ASSUME ConnectionInv, phase = "listen", EndListening
    PROVE  ConnectionInv'
<1>1. ReconnectBackoffAttempt(failures, stable) \in 0 .. MaxFailures
  BY ConnectionAssumption DEF ConnectionInv, TypeOK, ReconnectBackoffAttempt
<1>2. tries' = OneMoreFailure(ReconnectBackoffAttempt(failures, stable))
  BY FailuresAreBounded
  DEF ConnectionInv, BackoffCountsTries, EndListening, ReconnectBackoffAttempt
<1> QED BY <1>1, <1>2, DisconnectKeepsInv DEF EndListening

-----------------------------------------------------------------------------
(* The invariant, action by action.                                        *)

\* Of the server and the network.
LEMMA ServerKeepsInv == ASSUME ConnectionInv, Server PROVE ConnectionInv'
<1> USE DEF ConnectionInv, TypeOK, BackoffCountsTries
<1>1. ASSUME NEW k \in Kinds, CreateWork(k)
      PROVE  ConnectionInv'
  <2> USE <1>1 DEF CreateWork, Deliverable, clientVars, pollVars
  <2>1. CASE subscribed /\ link = "up"
    <3>1. inbox' = Append(inbox, k) /\ k \in Frame /\ Len(inbox) < MaxInbox
      BY <2>1 DEF Frame
    <3>2. \A frame : Carries(inbox, frame)' <=> Carries(inbox, frame) \/ frame = k
      BY <3>1, AppendCarries
    <3>3. TypeOK'
      BY <3>1, ConnectionAssumption
    <3>4. SubscribedWhenConfirmed' /\ NothingSkipped'
      BY <2>1, <3>2 DEF SubscribedWhenConfirmed, NothingSkipped
    <3> QED BY <3>3, <3>4 DEF SilentSincePing, IntervalMatchesState
  <2>2. CASE ~(subscribed /\ link = "up")
    <3>1. TypeOK' /\ UNCHANGED inbox
      BY <2>2
    <3>2. SubscribedWhenConfirmed' /\ NothingSkipped'
      BY <2>2, <3>1 DEF SubscribedWhenConfirmed, NothingSkipped, Carries
    <3> QED BY <3>1, <3>2 DEF SilentSincePing, IntervalMatchesState
  <2> QED BY <2>1, <2>2
<1>2. CASE Subscribe
  BY <1>2 DEF Subscribe, clientVars, pollVars, SubscribedWhenConfirmed, NothingSkipped,
     SilentSincePing, IntervalMatchesState, Carries
<1>3. ASSUME NEW frame \in {"confirmed", "noise", "fatal"}, SendFrame(frame)
      PROVE  ConnectionInv'
  <2> USE <1>3 DEF SendFrame, Deliverable, clientVars, pollVars
  <2>1. \A other : Carries(inbox, other)' <=> Carries(inbox, other) \/ other = frame
    BY AppendCarries DEF Frame
  <2>2. TypeOK'
    BY ConnectionAssumption DEF Frame
  <2>3. SubscribedWhenConfirmed' /\ NothingSkipped'
    BY <2>1 DEF SubscribedWhenConfirmed, NothingSkipped
  <2> QED BY <2>2, <2>3 DEF SilentSincePing, IntervalMatchesState
<1>4. CASE LinkDies
  BY <1>4 DEF LinkDies, clientVars, pollVars, SubscribedWhenConfirmed, NothingSkipped,
     SilentSincePing, IntervalMatchesState, Carries
<1> QED BY <1>1, <1>2, <1>3, <1>4 DEF Server

\* Of the fallback polls: each sets its deadline by the state it has just read.
LEMMA PollsKeepInv ==
    ASSUME ConnectionInv, NEW k \in Kinds, TakeStatus(k) \/ PollElapses(k) \/ Tick(k)
    PROVE  ConnectionInv'
<1> USE DEF ConnectionInv, TypeOK, BackoffCountsTries, serverVars, clientVars
<1>1. /\ UNCHANGED <<serverVars, clientVars, connected, heard, tries>>
      /\ unseen' \subseteq unseen
  BY DEF TakeStatus, PollElapses, Tick
<1>2. TypeOK' /\ IntervalMatchesState'
  <2>1. CASE TakeStatus(k)
    BY <2>1 DEF TakeStatus, IntervalMatchesState, PollInterval
  <2>2. CASE PollElapses(k)
    BY <2>2 DEF PollElapses, IntervalMatchesState
  <2>3. CASE Tick(k)
    BY <2>3 DEF Tick, IntervalMatchesState, PollInterval
  <2> QED BY <2>1, <2>2, <2>3
<1>3. SubscribedWhenConfirmed' /\ NothingSkipped' /\ SilentSincePing'
  BY <1>1 DEF SubscribedWhenConfirmed, NothingSkipped, SilentSincePing, Carries
<1> QED BY <1>1, <1>2, <1>3

\* Of the client while it connects.
LEMMA ConnectingKeepsInv ==
    ASSUME ConnectionInv,
           Established \/ IgnoreFrame \/ Confirmed \/ AttemptFails \/ Announcing
               \/ RetryDelayElapses
    PROVE  ConnectionInv'
<1> USE DEF ConnectionInv, TypeOK, BackoffCountsTries
<1>1. CASE Established
  BY <1>1 DEF Established, pollVars, SubscribedWhenConfirmed, NothingSkipped,
     SilentSincePing, IntervalMatchesState, Carries
<1>2. CASE IgnoreFrame
  <2> USE <1>2 DEF IgnoreFrame, clientVars, pollVars
  <2>1. TypeOK' /\ (Carries(inbox, "confirmed")' => Carries(inbox, "confirmed"))
    BY TailCarries, ConnectionAssumption
  <2> QED BY <2>1 DEF SubscribedWhenConfirmed, NothingSkipped, SilentSincePing,
          IntervalMatchesState
<1>3. CASE Confirmed
  <2> USE <1>3 DEF Confirmed
  <2>1. /\ inbox' \in Seq(Frame) /\ Len(inbox)' <= MaxInbox
        /\ Carries(inbox, "confirmed")
        /\ Carries(inbox, "confirmed")' => Carries(inbox, "confirmed")
    BY TailCarries, ConnectionAssumption
  <2>2. IntervalMatchesState' /\ connected' \in BOOLEAN /\ unread' \subseteq Kinds
    BY PublishingKeepsIntervals
  <2>3. TypeOK'
    BY <2>1, <2>2
  <2>4. SubscribedWhenConfirmed' /\ NothingSkipped' /\ SilentSincePing'
    BY <2>1 DEF SubscribedWhenConfirmed, NothingSkipped, SilentSincePing
  <2> QED BY <2>2, <2>3, <2>4
<1>4. CASE AttemptFails
  BY <1>4, DisconnectKeepsInv DEF AttemptFails
<1>5. ASSUME NEW k \in Kinds, ForceLookup(k)
      PROVE  ConnectionInv'
  BY <1>5 DEF ForceLookup, serverVars, pollVars, SubscribedWhenConfirmed, NothingSkipped,
     SilentSincePing, IntervalMatchesState, Carries
<1>6. CASE StartListening
  BY <1>6 DEF StartListening, serverVars, pollVars, SubscribedWhenConfirmed,
     NothingSkipped, SilentSincePing, IntervalMatchesState, Carries
<1>7. CASE RetryDelayElapses
  BY <1>7 DEF RetryDelayElapses, serverVars, pollVars, SubscribedWhenConfirmed,
     NothingSkipped, SilentSincePing, IntervalMatchesState, Carries
<1> QED BY <1>1, <1>2, <1>3, <1>4, <1>5, <1>6, <1>7 DEF Announcing

\* Of the client while it listens.
LEMMA ListeningKeepsInv ==
    ASSUME ConnectionInv, Listening \/ SocketFails \/ BecomesStable
    PROVE  ConnectionInv'
<1> USE DEF ConnectionInv, TypeOK, BackoffCountsTries
<1>1. CASE Receive
  <2> USE <1>1 DEF Receive, pollVars
  <2>1. /\ inbox' \in Seq(Frame) /\ Len(inbox)' <= MaxInbox
        /\ Carries(inbox, "confirmed")' => Carries(inbox, "confirmed")
        /\ \A k \in unseen : Carries(inbox, k) => k = Head(inbox) \/ Carries(inbox, k)'
    BY TailCarries, ConnectionAssumption
  <2>2. TypeOK'
    BY <2>1
  <2>3. SubscribedWhenConfirmed' /\ NothingSkipped' /\ SilentSincePing'
    BY <2>1 DEF SubscribedWhenConfirmed, NothingSkipped, SilentSincePing
  <2> QED BY <2>2, <2>3 DEF IntervalMatchesState
<1>2. CASE DeadlinePasses
  BY <1>2 DEF DeadlinePasses, serverVars, pollVars, SubscribedWhenConfirmed,
     NothingSkipped, SilentSincePing, IntervalMatchesState, Carries
<1>3. CASE Ping
  BY <1>3 DEF Ping, serverVars, pollVars, SubscribedWhenConfirmed, NothingSkipped,
     SilentSincePing, IntervalMatchesState, Carries
<1>4. CASE PingTimesOut \/ ReceiveFatal \/ SocketFails
  BY <1>4, EndListeningKeepsInv DEF PingTimesOut, ReceiveFatal, SocketFails
<1>5. CASE BecomesStable
  BY <1>5 DEF BecomesStable, serverVars, pollVars, SubscribedWhenConfirmed,
     NothingSkipped, SilentSincePing, IntervalMatchesState, Carries
<1> QED BY <1>1, <1>2, <1>3, <1>4, <1>5 DEF Listening

LEMMA InitEstablishesInv == Init => ConnectionInv
<1> SUFFICES ASSUME Init PROVE ConnectionInv
  OBVIOUS
<1>1. TypeOK
  <2>1. inbox \in Seq(Frame) /\ Len(inbox) <= MaxInbox
    BY ConnectionAssumption DEF Init
  <2>2. failures \in 0 .. MaxFailures /\ tries \in 0 .. MaxFailures
    BY ConnectionAssumption DEF Init
  <2> QED BY <2>1, <2>2 DEF Init, TypeOK
<1>2. ~Carries(inbox, "confirmed")
  BY DEF Init, Carries
<1> QED BY <1>1, <1>2 DEF Init, ConnectionInv, SubscribedWhenConfirmed, NothingSkipped,
        SilentSincePing, IntervalMatchesState, BackoffCountsTries, PollInterval

LEMMA NextKeepsInv == ConnectionInv /\ [Next]_vars => ConnectionInv'
<1> SUFFICES ASSUME ConnectionInv, [Next]_vars PROVE ConnectionInv'
  OBVIOUS
<1>1. CASE UNCHANGED vars
  BY <1>1 DEF vars, serverVars, clientVars, pollVars, ConnectionInv, TypeOK, BackoffCountsTries,
     SubscribedWhenConfirmed, NothingSkipped, SilentSincePing, IntervalMatchesState, Carries
<1>2. CASE Next
  BY <1>2, ServerKeepsInv, PollsKeepInv, ConnectingKeepsInv, ListeningKeepsInv DEF Next
<1> QED BY <1>1, <1>2

-----------------------------------------------------------------------------
(* The theorems.                                                           *)

\* The inductive invariant, and with it the types of all variables.
THEOREM ConnectionInvariance == Spec => []ConnectionInv
BY InitEstablishesInv, NextKeepsInv, PTL DEF Spec

\* A client that listens on a live link has announced, or has in flight,
\* everything created so far: the subscription, the ignored early events and
\* the forced lookups of run (websocket.rs:88-101) leave no gap.
THEOREM NothingIsMissed == Spec => []NothingMissedWhileListening
<1>1. ConnectionInv => NothingMissedWhileListening
  BY DEF ConnectionInv, NothingSkipped, NothingMissedWhileListening
<1> QED BY <1>1, ConnectionInvariance, PTL

\* No fallback poll that has taken the state of the connection keeps the
\* interval of another (PusherAwarePoller::tick, work_trigger.rs:60-80).
THEOREM IntervalsFollowState == Spec => []IntervalMatchesState
<1>1. ConnectionInv => IntervalMatchesState
  BY DEF ConnectionInv
<1> QED BY <1>1, ConnectionInvariance, PTL

\* The failure count is the number of attempts since the last stable
\* subscription (run and reconnect_backoff_attempt, websocket.rs:103-121).
THEOREM BackoffIsHonest == Spec => []BackoffCountsTries
<1>1. ConnectionInv => BackoffCountsTries
  BY DEF ConnectionInv
<1> QED BY <1>1, ConnectionInvariance, PTL

\* A peer that has said anything since the ping is not given up
\* (listen, websocket.rs:208-210 and 237-240).
THEOREM OnlySilentPeersAreDropped == Spec => SilentPeerOnly
<1>1. ConnectionInv /\ [Next]_vars => [PingTimesOut => ~heard]_vars
  BY DEF ConnectionInv, SilentSincePing, PingTimesOut
<1> QED BY <1>1, ConnectionInvariance, PTL DEF Spec, SilentPeerOnly
=============================================================================
