-------------------------- MODULE BroadcasterProofs --------------------------
(***************************************************************************)
(* What TLAPS proves about Broadcaster.tla, for every set of clients and   *)
(* frames, every capacity and every number of frames: type correctness,    *)
(* the safety of log delivery, and that the broadcaster implements the     *)
(* promise of LogStream.tla.                                               *)
(***************************************************************************)
EXTENDS Broadcaster, QueueLemmas, SequenceTheorems, TLAPS

-----------------------------------------------------------------------------
(* Prefixes.                                                               *)

(* IsPrefix, position by position.                                         *)
LEMMA PrefixPointwise ==
  ASSUME NEW S, NEW s \in Seq(S), NEW t \in Seq(S)
  PROVE  IsPrefix(s, t) <=> /\ Len(s) <= Len(t)
                            /\ \A i \in 1..Len(s) : s[i] = t[i]
  BY DEF IsPrefix

(* A prefix of a log stays one when the log grows (frames.push).           *)
LEMMA PrefixOfLonger ==
  ASSUME NEW S, NEW s \in Seq(S), NEW t \in Seq(S), NEW e \in S, IsPrefix(s, t)
  PROVE  IsPrefix(s, Append(t, e))
  <1>1. Append(t, e) \in Seq(S)
    OBVIOUS
  <1>2. Len(s) <= Len(t) /\ \A i \in 1..Len(s) : s[i] = t[i]
    BY PrefixPointwise
  <1>3. /\ Len(Append(t, e)) = Len(t) + 1
        /\ \A i \in 1..Len(t) : Append(t, e)[i] = t[i]
        /\ Len(s) \in Nat /\ Len(t) \in Nat
    BY AppendProperties
  <1>4. Len(s) <= Len(Append(t, e)) /\ \A i \in 1..Len(s) : s[i] = Append(t, e)[i]
    BY <1>2, <1>3
  <1> QED
    BY <1>1, <1>4, PrefixPointwise

(* The first part of a prefix is a prefix.                                 *)
LEMMA PrefixOfPart ==
  ASSUME NEW S, NEW a \in Seq(S), NEW b \in Seq(S), NEW t \in Seq(S),
         IsPrefix(a \o b, t)
  PROVE  IsPrefix(a, t)
  <1>1. a \o b \in Seq(S)
    OBVIOUS
  <1>2. /\ Len(a) <= Len(a \o b)
        /\ \A i \in 1..Len(a) : i \in 1..Len(a \o b) /\ (a \o b)[i] = a[i]
    BY ConcatProperties
  <1>3. Len(a \o b) <= Len(t) /\ \A i \in 1..Len(a \o b) : (a \o b)[i] = t[i]
    BY <1>1 DEF IsPrefix
  <1>4. Len(a) \in Nat /\ Len(a \o b) \in Nat /\ Len(t) \in Nat
    BY <1>1
  <1>5. Len(a) <= Len(t) /\ \A i \in 1..Len(a) : a[i] = t[i]
    BY <1>2, <1>3, <1>4
  <1> QED
    BY <1>5, PrefixPointwise

-----------------------------------------------------------------------------
(* Type correctness.                                                       *)

(* Every queue holds events and respects its capacity.                     *)
THEOREM TypeCorrect == Spec => []TypeOK
  <1>1. Init => TypeOK
    BY BoundsAssumption DEF Init, TypeOK
  <1>2. TypeOK /\ [Next]_vars => TypeOK'
    <2> SUFFICES ASSUME TypeOK, [Next]_vars PROVE TypeOK'
      OBVIOUS
    <2> USE BoundsAssumption DEF TypeOK
    <2>1. ASSUME NEW e \in Events, TrackerSend(e) PROVE TypeOK'
      BY <2>1 DEF TrackerSend, MayEmit, bcastVars, relayVars, clientVars
    <2>2. CASE TrackerEnd
      BY <2>2 DEF TrackerEnd, bcastVars, relayVars, clientVars
    <2>3. CASE TakeFrame
      BY <2>3 DEF TakeFrame, Keep, Accepts, clientVars
    <2>4. CASE SourceEnds
      BY <2>4 DEF SourceEnds, sourceVars, relayVars, clientVars
    <2>5. CASE ServeRequest
      <3> DEFINE c == Head(req_rx)
      <3>1. c \in Clients /\ req_rx' \in Seq(Clients) /\ Len(req_rx') <= ReqCap
        BY <2>5, HeadTail DEF ServeRequest, IsWaiting, Replay, Tracked
      <3>2. /\ relay' \in [Clients -> {"none", "running", "draining", "ended"}]
            /\ pending' \in [Clients -> Seq(Events)]
            /\ relays' \in SUBSET Clients
        BY <2>5, <3>1 DEF ServeRequest, IsWaiting, Replay, Tracked
      <3> QED
        BY <2>5, <3>1, <3>2 DEF ServeRequest, IsWaiting, Replay, Tracked, sourceVars, clientVars
    <2>6. ASSUME NEW c \in Clients, Relay(c) PROVE TypeOK'
      <3>1. CASE RelayReceive(c)
        BY <3>1 DEF RelayReceive, sourceVars, bcastVars, clientVars
      <3>2. CASE RelayClosed(c)
        BY <3>2 DEF RelayClosed, sourceVars, bcastVars, clientVars
      <3>3. CASE RelaySend(c)
        BY <3>3 DEF RelaySend, sourceVars, bcastVars, clientVars
      <3>4. CASE RelaySendFails(c)
        BY <3>4 DEF RelaySendFails, sourceVars, bcastVars, clientVars
      <3>5. CASE RelayDrain(c)
        <4>1. Head(pending[c]) \in Events /\ Tail(pending[c]) \in Seq(Events)
          BY <3>5, HeadTail DEF RelayDrain
        <4>2. /\ out' \in [Clients -> Seq(Events)]
              /\ \A d \in Clients : Len(out'[d]) <= ClientCap
          <5>1. CASE ReceiverOpen(c)
            <6>1. /\ out' = [out EXCEPT ![c] = Append(@, Head(pending[c]))]
                  /\ Len(out[c]) < ClientCap
              BY <3>5, <5>1 DEF RelayDrain
            <6>2. /\ Append(out[c], Head(pending[c])) \in Seq(Events)
                  /\ Len(Append(out[c], Head(pending[c]))) <= ClientCap
              BY <4>1, <6>1
            <6> QED
              BY <6>1, <6>2
          <5>2. CASE ~ReceiverOpen(c)
            BY <3>5, <5>2 DEF RelayDrain
          <5> QED
            BY <5>1, <5>2
        <4> QED
          BY <3>5, <4>1, <4>2 DEF RelayDrain, sourceVars, bcastVars, clientVars
      <3>6. CASE RelayEnd(c)
        BY <3>6 DEF RelayEnd, sourceVars, bcastVars, clientVars
      <3> QED
        BY <2>6, <3>1, <3>2, <3>3, <3>4, <3>5, <3>6 DEF Relay
    <2>7. ASSUME NEW c \in Clients, Client(c) PROVE TypeOK'
      <3>1. CASE Ask(c)
        BY <3>1 DEF Ask, sourceVars, bcastVars, relayVars
      <3>2. CASE TakeStream(c)
        BY <3>2 DEF TakeStream, sourceVars, bcastVars, relayVars
      <3>3. CASE GiveUp(c)
        <4>1. <<>> \in Seq(Events) /\ Len(<<>>) <= ClientCap
          OBVIOUS
        <4>2. /\ call' \in [Clients -> {"idle", "waiting", "reading", "done", "cut", "gone"}]
              /\ out' \in [Clients -> Seq(Events)]
              /\ \A d \in Clients : Len(out'[d]) <= ClientCap
          BY <3>3, <4>1 DEF GiveUp
        <4> QED
          BY <3>3, <4>2 DEF GiveUp, sourceVars, bcastVars, relayVars
      <3>4. CASE Read(c)
        <4>1. /\ Head(out[c]) \in Events
              /\ Tail(out[c]) \in Seq(Events)
              /\ Len(Tail(out[c])) <= ClientCap
          BY <3>4, HeadTail DEF Read
        <4>2. got' \in [Clients -> Seq(Events)]
          BY <3>4, <4>1 DEF Read
        <4>3. call' \in [Clients -> {"idle", "waiting", "reading", "done", "cut", "gone"}]
          BY <3>4 DEF Read
        <4>4. /\ out' \in [Clients -> Seq(Events)]
              /\ \A d \in Clients : Len(out'[d]) <= ClientCap
          <5>1. CASE Head(out[c]) \in Terminals
            <6>1. out' = [out EXCEPT ![c] = <<>>]
              BY <3>4, <5>1 DEF Read
            <6>2. <<>> \in Seq(Events) /\ Len(<<>>) = 0
              OBVIOUS
            <6> QED
              BY <6>1, <6>2
          <5>2. CASE Head(out[c]) \notin Terminals
            BY <3>4, <4>1, <5>2 DEF Read
          <5> QED
            BY <5>1, <5>2
        <4> QED
          BY <3>4, <4>2, <4>3, <4>4 DEF Read, sourceVars, bcastVars, relayVars
      <3>5. CASE ReadCut(c)
        BY <3>5 DEF ReadCut, sourceVars, bcastVars, relayVars
      <3> QED
        BY <2>7, <3>1, <3>2, <3>3, <3>4, <3>5 DEF Client
    <2>8. CASE UNCHANGED vars
      BY <2>8 DEF vars, sourceVars, bcastVars, relayVars, clientVars
    <2> QED
      BY <2>1, <2>2, <2>3, <2>4, <2>5, <2>6, <2>7, <2>8 DEF Next
  <1> QED
    BY <1>1, <1>2, PTL DEF Spec
-----------------------------------------------------------------------------
(* Delivery.  DeliveryInv of Broadcaster.tla is inductive; each of its     *)
(* parts is a lemma about one step.                                        *)

LEMMA DeliveryInit == Init => DeliveryInv
  BY DEF Init, DeliveryInv, LogIsSealed, RequestsAreFresh, StreamState,
         DeliveryInOrder, Emitted, Terminated, ReceiverOpen, Delivery, IsPrefix

(* Only TrackerSend adds to the log; the others move or keep it.           *)
LEMMA SealedStep ==
  ASSUME TypeOK, DeliveryInv, [Next]_vars
  PROVE  LogIsSealed'
  <1> USE DEF TypeOK, DeliveryInv, LogIsSealed
  <1>0. Emitted \in Seq(Events)
    BY DEF Emitted
  <1>k. ASSUME UNCHANGED <<source, source_open, frames, frame_rx_ok>>,
               relays' \subseteq relays \/ frame_rx_ok
        PROVE  LogIsSealed'
    BY <1>k DEF Emitted, Terminated
  <1>1. ASSUME NEW e \in Events, TrackerSend(e) PROVE LogIsSealed'
    <2>1. Append(source, e) \in Seq(Events) /\ Emitted' = Append(Emitted, e)
      BY <1>1, AppendToLast DEF TrackerSend, MayEmit, bcastVars, Emitted
    <2>2. /\ Len(Emitted') = Len(Emitted) + 1
          /\ \A i \in 1..Len(Emitted) : Emitted'[i] = Emitted[i]
      BY <1>0, <2>1, AppendProperties
    <2>3. \A i \in 1..Len(Emitted) : Emitted[i] \notin Terminals
      BY <1>0, <1>1 DEF TrackerSend, MayEmit, Terminated
    <2>4. \A i \in DOMAIN Emitted' : Emitted'[i] \in Terminals => i = Len(Emitted')
      <3>1. DOMAIN Emitted' = 1..(Len(Emitted) + 1) /\ Len(Emitted) \in Nat
        BY <1>0, <2>1, <2>2, AppendProperties
      <3> SUFFICES ASSUME NEW i \in 1..(Len(Emitted) + 1), Emitted'[i] \in Terminals
                   PROVE  i = Len(Emitted) + 1
        BY <3>1, <2>2
      <3>2. i \notin 1..Len(Emitted)
        BY <2>2, <2>3
      <3> QED
        BY <3>1, <3>2
    <2> QED
      BY <1>1, <2>4 DEF TrackerSend, MayEmit, bcastVars
  <1>2. CASE TrackerEnd
    BY <1>2 DEF TrackerEnd, bcastVars, Emitted, Terminated
  <1>3. CASE TakeFrame
    <2>1. Emitted' = Emitted
      BY <1>3, MoveHead DEF TakeFrame, Keep, Emitted
    <2> QED
      BY <1>3, <2>1 DEF TakeFrame, Keep, Terminated
  <1>4. CASE SourceEnds
    BY <1>4 DEF SourceEnds, sourceVars, Emitted, Terminated
  <1>5. CASE ServeRequest
    BY <1>5, <1>k DEF ServeRequest, IsWaiting, Replay, Tracked, sourceVars
  <1>6. ASSUME NEW c \in Clients, Relay(c) PROVE LogIsSealed'
    BY <1>6, <1>k DEF Relay, RelayReceive, RelayClosed, RelaySend, RelaySendFails,
                      RelayDrain, RelayEnd, sourceVars, bcastVars
  <1>7. ASSUME NEW c \in Clients, Client(c) PROVE LogIsSealed'
    BY <1>7, <1>k DEF Client, Ask, TakeStream, GiveUp, Read, ReadCut, sourceVars, bcastVars
  <1>8. CASE UNCHANGED vars
    BY <1>8, <1>k DEF vars, sourceVars, bcastVars
  <1> QED
    BY <1>1, <1>2, <1>3, <1>4, <1>5, <1>6, <1>7, <1>8 DEF Next

(* A call enters req_rx once, and its relay starts when it leaves it.      *)
LEMMA FreshStep ==
  ASSUME TypeOK, DeliveryInv, [Next]_vars
  PROVE  RequestsAreFresh'
  <1> USE DEF TypeOK, DeliveryInv, RequestsAreFresh
  <1>k. ASSUME UNCHANGED <<req_rx, relay, call>> PROVE RequestsAreFresh'
    BY <1>k
  <1>r. ASSUME NEW c \in Clients, relay[c] # "none", UNCHANGED <<req_rx, call>>,
               NEW s, relay' = [relay EXCEPT ![c] = s]
        PROVE  RequestsAreFresh'
    BY <1>r
  <1>c. ASSUME NEW c \in Clients, call[c] \in {"waiting", "reading"},
               UNCHANGED <<req_rx, relay>>, NEW s,
               call' = [call EXCEPT ![c] = s], s = "gone" \/ relay[c] # "none"
        PROVE  RequestsAreFresh'
    BY <1>c
  <1>1. ASSUME NEW e \in Events, TrackerSend(e) PROVE RequestsAreFresh'
    BY <1>1, <1>k DEF TrackerSend, MayEmit, relayVars, clientVars
  <1>2. CASE TrackerEnd
    BY <1>2, <1>k DEF TrackerEnd, relayVars, clientVars
  <1>3. CASE TakeFrame
    BY <1>3, <1>k DEF TakeFrame, Keep, clientVars
  <1>4. CASE SourceEnds
    BY <1>4, <1>k DEF SourceEnds, relayVars, clientVars
  <1>5. CASE ServeRequest
    <2>1. /\ req_rx \in Seq(Clients) /\ req_rx # <<>>
          /\ req_rx' = Tail(req_rx)
      BY <1>5 DEF ServeRequest, IsWaiting, Replay, Tracked
    <2>2. /\ Len(req_rx) \in Nat \ {0}
          /\ Head(req_rx) = req_rx[1]
          /\ Head(req_rx) \in Clients
          /\ DOMAIN req_rx = 1..Len(req_rx)
          /\ DOMAIN req_rx' = 1..(Len(req_rx) - 1)
          /\ req_rx' \in Seq(Clients)
          /\ \A i \in 1..(Len(req_rx) - 1) : req_rx'[i] = req_rx[i + 1]
      BY <2>1, HeadTail
    <2>i. \A i \in DOMAIN req_rx' : /\ i + 1 \in DOMAIN req_rx /\ i + 1 # 1
                                    /\ req_rx'[i] = req_rx[i + 1]
                                    /\ i \in Nat
      <3> SUFFICES ASSUME NEW i \in 1..(Len(req_rx) - 1)
                   PROVE  /\ i + 1 \in 1..Len(req_rx) /\ i + 1 # 1
                          /\ req_rx'[i] = req_rx[i + 1]
                          /\ i \in Nat
        BY <2>2
      <3>1. i + 1 \in 1..Len(req_rx) /\ i + 1 # 1 /\ i \in Nat
        BY <2>2
      <3>2. req_rx'[i] = req_rx[i + 1]
        BY <2>2
      <3> QED
        BY <3>1, <3>2
    <2>3. \A i, j \in DOMAIN req_rx' : req_rx'[i] = req_rx'[j] => i = j
      <3> SUFFICES ASSUME NEW i \in DOMAIN req_rx', NEW j \in DOMAIN req_rx',
                          req_rx'[i] = req_rx'[j]
                   PROVE  i = j
        OBVIOUS
      <3>1. i + 1 = j + 1
        BY <2>i
      <3> QED
        BY <3>1, <2>i
    <2>4. \A i \in DOMAIN req_rx' : req_rx'[i] # Head(req_rx) /\ req_rx'[i] \in Clients
      <3> SUFFICES ASSUME NEW i \in DOMAIN req_rx'
                   PROVE  req_rx'[i] # Head(req_rx) /\ req_rx'[i] \in Clients
        OBVIOUS
      <3>1. 1 \in DOMAIN req_rx
        BY <2>2
      <3>2. req_rx[i + 1] # req_rx[1]
        BY <3>1, <2>i
      <3> QED
        BY <3>2, <2>2, <2>i
    <2>5. call' = call /\ \A d \in Clients \ {Head(req_rx)} : relay'[d] = relay[d]
      BY <1>5, <2>2 DEF ServeRequest, IsWaiting, Replay, Tracked, clientVars
    <2>6. \A i \in DOMAIN req_rx' : /\ relay[req_rx'[i]] = "none"
                                    /\ call[req_rx'[i]] \in {"waiting", "gone"}
      BY <2>i
    <2> QED
      BY <2>3, <2>4, <2>5, <2>6
  <1>6. ASSUME NEW c \in Clients, Relay(c) PROVE RequestsAreFresh'
    BY <1>6, <1>k, <1>r DEF Relay, RelayReceive, RelayClosed, RelaySend, RelaySendFails,
                            RelayDrain, RelayEnd, clientVars
  <1>7. ASSUME NEW c \in Clients, Client(c) PROVE RequestsAreFresh'
    <2>1. CASE Ask(c)
      <3>1. relay[c] = "none" /\ \A i \in DOMAIN req_rx : req_rx[i] # c
        BY <2>1 DEF Ask, StreamState
      <3>2. /\ DOMAIN req_rx' = 1..(Len(req_rx) + 1)
            /\ \A i \in 1..Len(req_rx) : req_rx'[i] = req_rx[i]
            /\ req_rx'[Len(req_rx) + 1] = c
            /\ DOMAIN req_rx = 1..Len(req_rx)
            /\ Len(req_rx) \in Nat
        BY <2>1 DEF Ask
      <3>3. relay' = relay /\ call' = [call EXCEPT ![c] = "waiting"]
        BY <2>1 DEF Ask, relayVars
      <3>4. \A i \in 1..Len(req_rx) : req_rx[i] \in Clients
        BY <3>2
      <3>5. \A i \in DOMAIN req_rx' : /\ relay'[req_rx'[i]] = "none"
                                      /\ call'[req_rx'[i]] \in {"waiting", "gone"}
        <4> SUFFICES ASSUME NEW i \in 1..(Len(req_rx) + 1)
                     PROVE  /\ relay'[req_rx'[i]] = "none"
                            /\ call'[req_rx'[i]] \in {"waiting", "gone"}
          BY <3>2
        <4>1. CASE i \in 1..Len(req_rx)
          BY <4>1, <3>1, <3>2, <3>3, <3>4
        <4>2. CASE i = Len(req_rx) + 1
          BY <4>2, <3>1, <3>2, <3>3
        <4> QED
          BY <4>1, <4>2, <3>2
      <3>d. DOMAIN req_rx' = 1..(Len(req_rx) + 1)
        BY <3>2
      <3>6. ASSUME NEW i \in DOMAIN req_rx', NEW j \in DOMAIN req_rx',
                   req_rx'[i] = req_rx'[j]
            PROVE  i = j
        <4>d. i \in 1..(Len(req_rx) + 1) /\ j \in 1..(Len(req_rx) + 1)
          BY <3>d
        <4>1. /\ i \in 1..Len(req_rx) \/ i = Len(req_rx) + 1
              /\ j \in 1..Len(req_rx) \/ j = Len(req_rx) + 1
          BY <4>d, <3>2
        <4>2. ASSUME NEW k \in 1..Len(req_rx) PROVE req_rx'[k] # c
          BY <3>1, <3>2
        <4>3. CASE i \in 1..Len(req_rx) /\ j \in 1..Len(req_rx)
          <5>1. req_rx[i] = req_rx[j]
            BY <4>3, <3>2, <3>6
          <5>2. i \in DOMAIN req_rx /\ j \in DOMAIN req_rx
            BY <4>3, <3>2
          <5> QED
            BY <5>1, <5>2
        <4> QED
          BY <4>1, <4>2, <4>3, <3>2, <3>6
      <3> QED
        BY <3>5, <3>6
    <2>2. CASE TakeStream(c)
      BY <2>2, <1>c DEF TakeStream, relayVars
    <2>3. CASE GiveUp(c)
      BY <2>3, <1>c DEF GiveUp, relayVars
    <2>4. CASE Read(c)
      <3>1. relay[c] # "none"
        BY <2>4 DEF Read, StreamState
      <3> QED
        BY <2>4, <3>1, <1>k, <1>c DEF Read, relayVars
    <2>5. CASE ReadCut(c)
      BY <2>5, <1>c DEF ReadCut, relayVars
    <2> QED
      BY <1>7, <2>1, <2>2, <2>3, <2>4, <2>5 DEF Client
  <1>8. CASE UNCHANGED vars
    BY <1>8, <1>k DEF vars, relayVars, clientVars
  <1> QED
    BY <1>1, <1>2, <1>3, <1>4, <1>5, <1>6, <1>7, <1>8 DEF Next

(* Each action moves at most one stream from one state to the next.        *)
LEMMA StreamStep ==
  ASSUME TypeOK, DeliveryInv, [Next]_vars, NEW d \in Clients
  PROVE  StreamState(d)'
  <1>i. StreamState(d)
    BY DEF DeliveryInv
  <1> USE DEF TypeOK, StreamState, ReceiverOpen
  <1>k. ASSUME relay'[d] = relay[d], call'[d] = call[d], got'[d] = got[d],
               pending'[d] = pending[d], inbox'[d] = inbox[d], out'[d] = out[d],
               d \in relays' => d \in relays
        PROVE  StreamState(d)'
    BY <1>i, <1>k DEF Terminated
  <1>1. ASSUME NEW e \in Events, TrackerSend(e) PROVE StreamState(d)'
    BY <1>1, <1>k DEF TrackerSend, MayEmit, bcastVars, relayVars, clientVars
  <1>2. CASE TrackerEnd
    BY <1>2, <1>k DEF TrackerEnd, bcastVars, relayVars, clientVars
  <1>3. CASE TakeFrame
    <2>1. CASE d \in relays /\ Accepts(d)
      <3>1. relay[d] \in {"none", "running"} => relay[d] = "running"
        BY <1>i, <2>1
      <3>2. relay[d] = "running"
        BY <1>i, <2>1, <3>1 DEF Accepts
      <3> QED
        BY <1>i, <1>3, <2>1, <3>2 DEF TakeFrame, Keep, clientVars, Terminated
    <2>2. CASE ~(d \in relays /\ Accepts(d))
      BY <1>3, <1>k, <2>2 DEF TakeFrame, Keep, clientVars
    <2> QED
      BY <2>1, <2>2
  <1>4. CASE SourceEnds
    BY <1>4, <1>k DEF SourceEnds, relayVars, clientVars
  <1>5. CASE ServeRequest
    <2>1. Head(req_rx) \in Clients /\ relay[Head(req_rx)] = "none"
      <3>1. req_rx \in Seq(Clients) /\ req_rx # <<>>
        BY <1>5 DEF ServeRequest, IsWaiting, Replay, Tracked
      <3>2. 1 \in DOMAIN req_rx /\ Head(req_rx) = req_rx[1] /\ Head(req_rx) \in Clients
        BY <3>1, HeadTail
      <3> QED
        BY <3>2 DEF DeliveryInv, RequestsAreFresh
    <2>2. CASE d = Head(req_rx) /\ call[d] = "waiting"
      <3>1. /\ relay'[d] = "running" /\ call'[d] = "waiting"
            /\ out'[d] = <<>>
        BY <1>5, <1>i, <2>1, <2>2 DEF ServeRequest, IsWaiting, Replay, Tracked, clientVars
      <3> QED
        BY <3>1
    <2>3. CASE ~(d = Head(req_rx) /\ call[d] = "waiting")
      <3>1. relay'[d] = relay[d] /\ pending'[d] = pending[d] /\ (d \in relays' => d \in relays)
        <4>1. CASE call[Head(req_rx)] = "waiting"
          <5> DEFINE h == Head(req_rx)
          <5>1. h # d /\ h \in Clients
            BY <2>1, <2>3, <4>1
          <5>2. /\ relay' = [relay EXCEPT ![h] = "running"]
                /\ pending' = [pending EXCEPT ![h] = frames]
                /\ relays' = relays \union {h} \/ relays' = relays
            BY <1>5, <4>1 DEF ServeRequest, IsWaiting, Replay, Tracked
          <5> HIDE DEF h
          <5> QED
            BY <5>1, <5>2
        <4>2. CASE call[Head(req_rx)] # "waiting"
          BY <1>5, <4>2 DEF ServeRequest, IsWaiting, Replay, Tracked
        <4> QED
          BY <4>1, <4>2
      <3> QED
        BY <1>5, <1>k, <3>1 DEF ServeRequest, IsWaiting, Replay, Tracked, clientVars
    <2> QED
      BY <2>2, <2>3
  <1>6. ASSUME NEW c \in Clients, Relay(c) PROVE StreamState(d)'
    <2>1. CASE c # d
      BY <1>6, <1>k, <2>1 DEF Relay, RelayReceive, RelayClosed, RelaySend, RelaySendFails,
                              RelayDrain, RelayEnd, bcastVars, clientVars
    <2>2. CASE c = d
      <3> USE <1>i, <2>2
      <3>1. CASE RelayReceive(c)
        BY <3>1 DEF RelayReceive, bcastVars, clientVars, Terminated
      <3>2. CASE RelayClosed(c)
        BY <3>2 DEF RelayClosed, InboxClosed, bcastVars, clientVars, Terminated
      <3>3. CASE RelaySend(c)
        BY <3>3 DEF RelaySend, bcastVars, clientVars, Terminated
      <3>4. CASE RelaySendFails(c)
        BY <3>4 DEF RelaySendFails, bcastVars, clientVars, Terminated
      <3>5. CASE RelayDrain(c)
        <4>1. /\ relay[d] = "draining" /\ relay'[d] = "draining" /\ call'[d] = call[d] /\ got'[d] = got[d]
              /\ inbox'[d] = inbox[d] /\ relays' = relays
              /\ ~ReceiverOpen(c) => out'[d] = out[d]
          BY <3>5 DEF RelayDrain, bcastVars, clientVars
        <4> QED
          BY <4>1 DEF Terminated
      <3>6. CASE RelayEnd(c)
        BY <3>6 DEF RelayEnd, bcastVars, clientVars, Terminated
      <3> QED
        BY <1>6, <3>1, <3>2, <3>3, <3>4, <3>5, <3>6 DEF Relay
    <2> QED
      BY <2>1, <2>2
  <1>7. ASSUME NEW c \in Clients, Client(c) PROVE StreamState(d)'
    <2>1. CASE c # d
      BY <1>7, <1>k, <2>1 DEF Client, Ask, TakeStream, GiveUp, Read, ReadCut,
                              bcastVars, relayVars
    <2>2. CASE c = d
      <3> USE <1>i, <2>2
      <3>1. CASE Ask(c)
        BY <3>1 DEF Ask, bcastVars, relayVars, Terminated
      <3>2. CASE TakeStream(c)
        BY <3>2 DEF TakeStream, bcastVars, relayVars, Terminated
      <3>3. CASE GiveUp(c)
        BY <3>3 DEF GiveUp, bcastVars, relayVars, Terminated
      <3>4. CASE Read(c)
        <4>1. relay[d] # "none" /\ relay' = relay /\ relays' = relays
          BY <3>4 DEF Read, bcastVars, relayVars
        <4>2. pending' = pending /\ inbox' = inbox
          BY <3>4 DEF Read, relayVars
        <4>3. CASE Head(out[c]) \in Terminals
          <5>1. call'[d] = "done" /\ out'[d] = <<>>
            BY <3>4, <4>3 DEF Read
          <5>2. Terminated(got'[d])
            <6>1. got'[d] = Append(got[d], Head(out[d])) /\ Head(out[d]) \in Events
              BY <3>4, HeadTail DEF Read
            <6>2. /\ DOMAIN got'[d] = 1..(Len(got[d]) + 1)
                  /\ got'[d][Len(got[d]) + 1] = Head(out[d])
                  /\ Len(got[d]) \in Nat
              BY <6>1, AppendProperties
            <6> QED
              BY <6>2, <4>3, Len(got[d]) + 1 \in DOMAIN got'[d] DEF Terminated
          <5> QED
            BY <4>1, <4>2, <5>1, <5>2 DEF Terminated
        <4>4. CASE Head(out[c]) \notin Terminals
          BY <3>4, <4>1, <4>2, <4>4 DEF Read
        <4> QED
          BY <4>3, <4>4
      <3>5. CASE ReadCut(c)
        BY <3>5 DEF ReadCut, bcastVars, relayVars, Terminated
      <3> QED
        BY <1>7, <3>1, <3>2, <3>3, <3>4, <3>5 DEF Client
    <2> QED
      BY <2>1, <2>2
  <1>8. CASE UNCHANGED vars
    BY <1>8, <1>k DEF vars, bcastVars, relayVars, clientVars
  <1> QED
    BY <1>1, <1>2, <1>3, <1>4, <1>5, <1>6, <1>7, <1>8 DEF Next

(* An event moves from the relay to the client's channel.                  *)
LEMMA DeliverySends ==
  ASSUME NEW o \in Seq(Events), NEW p \in Seq(Events), NEW i \in Seq(Events), p # <<>>
  PROVE  Append(o, Head(p)) \o (Tail(p) \o i) = o \o (p \o i)
  <1>1. /\ p \o i \in Seq(Events) /\ p \o i # <<>>
        /\ Head(p \o i) = Head(p) /\ Tail(p \o i) = Tail(p) \o i
    BY HeadOfConcat
  <1>2. Append(o, Head(p \o i)) \o Tail(p \o i) = o \o (p \o i)
    BY <1>1, MoveHead
  <1> QED
    BY <1>1, <1>2

LEMMA PrefixReflexive ==
  ASSUME NEW S, NEW s \in Seq(S)
  PROVE  IsPrefix(s, s) /\ IsPrefix(<<>>, s)
  BY DEF IsPrefix

LEMMA DeliveryType ==
  ASSUME TypeOK, NEW d \in Clients
  PROVE  /\ got[d] \in Seq(Events) /\ out[d] \in Seq(Events)
         /\ pending[d] \in Seq(Events) /\ inbox[d] \in Seq(Events)
         /\ Delivery(d) \in Seq(Events) /\ frames \in Seq(Events)
  BY DEF TypeOK, Delivery

(* No queue on the way to a client loses, repeats or reorders an event.    *)
LEMMA DeliveryStep ==
  ASSUME TypeOK, DeliveryInv, [Next]_vars, NEW d \in Clients
  PROVE  DeliveryInOrder(d)'
  <1>i. DeliveryInOrder(d) /\ StreamState(d)
    BY DEF DeliveryInv
  <1>t. /\ got[d] \in Seq(Events) /\ out[d] \in Seq(Events)
        /\ pending[d] \in Seq(Events) /\ inbox[d] \in Seq(Events)
        /\ Delivery(d) \in Seq(Events) /\ frames \in Seq(Events)
    BY DeliveryType
  <1>k. ASSUME got'[d] = got[d], frames' = frames, d \in relays' => d \in relays,
               ReceiverOpen(d)' => ReceiverOpen(d) /\ Delivery(d)' = Delivery(d)
        PROVE  DeliveryInOrder(d)'
    BY <1>i, <1>k DEF DeliveryInOrder
  <1>q. ASSUME got'[d] = got[d], out'[d] = out[d], pending'[d] = pending[d],
               inbox'[d] = inbox[d]
        PROVE  Delivery(d)' = Delivery(d)
    BY <1>q DEF Delivery
  <1>1. ASSUME NEW e \in Events, TrackerSend(e) PROVE DeliveryInOrder(d)'
    BY <1>1, <1>k, <1>q DEF TrackerSend, MayEmit, bcastVars, relayVars, clientVars, ReceiverOpen
  <1>2. CASE TrackerEnd
    BY <1>2, <1>k, <1>q DEF TrackerEnd, bcastVars, relayVars, clientVars, ReceiverOpen
  <1>3. CASE TakeFrame
    <2>1. /\ Head(source) \in Events /\ frames' = Append(frames, Head(source))
          /\ got' = got /\ call' = call /\ out' = out /\ pending' = pending
      BY <1>3, HeadTail DEF TakeFrame, Keep, TypeOK, clientVars
    <2>2. IsPrefix(got'[d], frames')
      BY <1>i, <1>t, <2>1, PrefixOfLonger DEF DeliveryInOrder
    <2>3. CASE d \in relays /\ Accepts(d)
      <3>1. inbox'[d] = Append(inbox[d], Head(source))
        BY <1>3, <2>3 DEF TakeFrame, Keep, TypeOK
      <3>2. Delivery(d)' = Append(Delivery(d), Head(source))
        <4>1. got[d] \o (out[d] \o (pending[d] \o Append(inbox[d], Head(source))))
              = Append(got[d] \o (out[d] \o (pending[d] \o inbox[d])), Head(source))
          <5> DEFINE e == Head(source)
                     g == got[d]
                     o == out[d]
                     p == pending[d]
                     i == inbox[d]
          <5>1. /\ e \in Events /\ g \in Seq(Events) /\ o \in Seq(Events)
                /\ p \in Seq(Events) /\ i \in Seq(Events)
            BY <1>t, <2>1
          <5>2. g \o (o \o (p \o Append(i, e))) = Append(g \o (o \o (p \o i)), e)
            <6> HIDE DEF e, g, o, p, i
            <6>1. p \o Append(i, e) = Append(p \o i, e) /\ p \o i \in Seq(Events)
              BY <5>1, AppendToLast
            <6>2. /\ o \o Append(p \o i, e) = Append(o \o (p \o i), e)
                  /\ o \o (p \o i) \in Seq(Events)
              BY <5>1, <6>1, AppendToLast
            <6>3. g \o Append(o \o (p \o i), e) = Append(g \o (o \o (p \o i)), e)
              <7> DEFINE x == o \o (p \o i)
              <7>1. x \in Seq(Events)
                BY <6>2
              <7> HIDE DEF x
              <7>2. g \o Append(x, e) = Append(g \o x, e)
                BY <5>1, <7>1, AppendToLast
              <7> QED
                BY <7>2 DEF x
            <6> QED
              BY <6>1, <6>2, <6>3
          <5> QED
            BY <5>2
        <4> QED
          BY <2>1, <3>1, <4>1 DEF Delivery
      <3>3. ReceiverOpen(d)' => ReceiverOpen(d) /\ Delivery(d) = frames
        BY <1>i, <2>1, <2>3 DEF DeliveryInOrder, ReceiverOpen
      <3>4. ReceiverOpen(d)' => Delivery(d)' = frames'
        BY <2>1, <3>2, <3>3
      <3>5. frames' \in Seq(Events)
        BY <1>t, <2>1
      <3> QED
        BY <2>2, <3>4, <3>5, PrefixReflexive DEF DeliveryInOrder
    <2>4. CASE ~(d \in relays /\ Accepts(d))
      <3>1. inbox'[d] = inbox[d] /\ d \notin relays'
        BY <1>3, <2>4 DEF TakeFrame, Keep, TypeOK
      <3>2. Delivery(d)' = Delivery(d)
        BY <1>q, <2>1, <3>1
      <3>3. ReceiverOpen(d)' => IsPrefix(Delivery(d), frames)
        BY <1>i, <2>1 DEF DeliveryInOrder, ReceiverOpen
      <3>4. ReceiverOpen(d)' => IsPrefix(Delivery(d)', frames')
        BY <1>t, <2>1, <3>2, <3>3, PrefixOfLonger
      <3> QED
        BY <2>2, <3>1, <3>4 DEF DeliveryInOrder
    <2> QED
      BY <2>3, <2>4
  <1>4. CASE SourceEnds
    BY <1>4, <1>k, <1>q DEF SourceEnds, relayVars, clientVars, ReceiverOpen
  <1>5. CASE ServeRequest
    <2>1. Head(req_rx) \in Clients /\ relay[Head(req_rx)] = "none"
      <3>1. req_rx \in Seq(Clients) /\ req_rx # <<>>
        BY <1>5 DEF ServeRequest, IsWaiting, Replay, Tracked, TypeOK
      <3>2. 1 \in DOMAIN req_rx /\ Head(req_rx) = req_rx[1] /\ Head(req_rx) \in Clients
        BY <3>1, HeadTail
      <3> QED
        BY <3>2 DEF DeliveryInv, RequestsAreFresh
    <2>2. /\ got' = got /\ out' = out /\ inbox' = inbox /\ frames' = frames /\ call' = call
      BY <1>5 DEF ServeRequest, IsWaiting, Replay, Tracked, clientVars
    <2>3. CASE d = Head(req_rx) /\ call[d] = "waiting"
      <3>1. got[d] = <<>> /\ out[d] = <<>> /\ inbox[d] = <<>>
        BY <1>i, <2>1, <2>3 DEF StreamState
      <3>2. pending'[d] = frames
        BY <1>5, <2>1, <2>3 DEF ServeRequest, IsWaiting, Replay, Tracked, TypeOK
      <3>3. Delivery(d)' = frames
        BY <1>t, <2>2, <3>1, <3>2, ConcatEmpty DEF Delivery
      <3> QED
        BY <1>i, <1>t, <2>2, <3>3, PrefixReflexive DEF DeliveryInOrder
    <2>4. CASE ~(d = Head(req_rx) /\ call[d] = "waiting")
      <3>1. pending'[d] = pending[d] /\ (d \in relays' => d \in relays)
        <4>1. CASE call[Head(req_rx)] = "waiting"
          <5>1. /\ d # Head(req_rx)
                /\ pending' = [pending EXCEPT ![Head(req_rx)] = frames]
                /\ relays' \subseteq relays \union {Head(req_rx)}
            BY <1>5, <2>4, <4>1 DEF ServeRequest, IsWaiting, Replay, Tracked
          <5> QED
            BY <5>1, <2>1 DEF TypeOK
        <4>2. CASE call[Head(req_rx)] # "waiting"
          BY <1>5, <4>2 DEF ServeRequest, IsWaiting, Replay, Tracked
        <4> QED
          BY <4>1, <4>2
      <3> QED
        BY <1>k, <1>q, <2>2, <3>1 DEF ReceiverOpen
    <2> QED
      BY <2>3, <2>4
  <1>6. ASSUME NEW c \in Clients, Relay(c) PROVE DeliveryInOrder(d)'
    <2>1. got' = got /\ call' = call /\ frames' = frames /\ relays' = relays
      BY <1>6 DEF Relay, RelayReceive, RelayClosed, RelaySend, RelaySendFails,
                  RelayDrain, RelayEnd, bcastVars, clientVars
    <2>2. ReceiverOpen(d)' => ReceiverOpen(d)
      BY <2>1 DEF ReceiverOpen
    <2>3. ReceiverOpen(d) => Delivery(d)' = Delivery(d)
      <3>1. CASE c # d
        BY <1>6, <1>q, <3>1 DEF Relay, RelayReceive, RelayClosed, RelaySend, RelaySendFails,
                                RelayDrain, RelayEnd, clientVars, TypeOK
      <3> SUFFICES ASSUME c = d, ReceiverOpen(d) PROVE Delivery(d)' = Delivery(d)
        BY <3>1
      <3>2. CASE RelayReceive(d)
        <4>1. /\ out'[d] = out[d] /\ inbox'[d] = Tail(inbox[d]) /\ inbox[d] # <<>>
              /\ pending'[d] = Append(pending[d], Head(inbox[d]))
          BY <3>2 DEF RelayReceive, TypeOK
        <4>2. Append(pending[d], Head(inbox[d])) \o Tail(inbox[d]) = pending[d] \o inbox[d]
          BY <1>t, <4>1, MoveHead
        <4> QED
          BY <2>1, <4>1, <4>2 DEF Delivery
      <3>3. CASE RelayClosed(d)
        BY <1>q, <3>3 DEF RelayClosed, clientVars
      <3>4. CASE RelaySend(d) \/ RelayDrain(d)
        <4>1. /\ out'[d] = Append(out[d], Head(pending[d]))
              /\ pending'[d] = Tail(pending[d]) /\ pending[d] # <<>>
              /\ inbox'[d] = inbox[d]
          BY <3>4 DEF RelaySend, RelayDrain, TypeOK
        <4>2. Append(out[d], Head(pending[d])) \o (Tail(pending[d]) \o inbox[d])
              = out[d] \o (pending[d] \o inbox[d])
          <5> DEFINE o == out[d]
                     p == pending[d]
                     i == inbox[d]
          <5>1. o \in Seq(Events) /\ p \in Seq(Events) /\ p # <<>> /\ i \in Seq(Events)
            BY <1>t, <4>1
          <5> HIDE DEF o, p, i
          <5>2. Append(o, Head(p)) \o (Tail(p) \o i) = o \o (p \o i)
            BY <5>1, DeliverySends
          <5> QED
            BY <5>2 DEF o, p, i
        <4> QED
          BY <2>1, <4>1, <4>2 DEF Delivery
      <3>5. CASE RelaySendFails(d)
        BY <3>5 DEF RelaySendFails
      <3>6. CASE RelayEnd(d)
        BY <1>q, <3>6 DEF RelayEnd, clientVars
      <3> QED
        BY <1>6, <3>2, <3>3, <3>4, <3>5, <3>6 DEF Relay
    <2> QED
      BY <1>k, <2>1, <2>2, <2>3
  <1>7. ASSUME NEW c \in Clients, Client(c) PROVE DeliveryInOrder(d)'
    <2>1. frames' = frames /\ relays' = relays /\ pending' = pending /\ inbox' = inbox
      BY <1>7 DEF Client, Ask, TakeStream, GiveUp, Read, ReadCut, bcastVars, relayVars
    <2>2. CASE c # d
      <3>1. call'[d] = call[d] /\ got'[d] = got[d] /\ out'[d] = out[d]
        BY <1>7, <2>2 DEF Client, Ask, TakeStream, GiveUp, Read, ReadCut, TypeOK
      <3> QED
        BY <1>k, <1>q, <2>1, <3>1 DEF ReceiverOpen
    <2>3. CASE c = d
      <3>1. CASE Ask(d)
        <4>1. /\ got'[d] = got[d] /\ out'[d] = out[d]
              /\ relay[d] = "none" /\ got[d] = <<>> /\ out[d] = <<>>
              /\ pending[d] = <<>> /\ inbox[d] = <<>> /\ d \notin relays
          BY <1>i, <3>1 DEF Ask, StreamState, TypeOK
        <4>2. Delivery(d)' = <<>>
          BY <2>1, <4>1, ConcatEmpty DEF Delivery
        <4> QED
          BY <1>t, <2>1, <4>1, <4>2, PrefixReflexive DEF DeliveryInOrder
      <3>2. CASE TakeStream(d)
        BY <1>k, <1>q, <2>1, <3>2 DEF TakeStream, ReceiverOpen
      <3>3. CASE GiveUp(d)
        BY <1>k, <2>1, <3>3 DEF GiveUp, ReceiverOpen, TypeOK
      <3>4. CASE Read(d)
        <4>1. /\ got'[d] = Append(got[d], Head(out[d])) /\ out[d] # <<>>
              /\ call[d] = "reading"
          BY <3>4 DEF Read, TypeOK
        <4>2. Head(out[d]) \in Events /\ Tail(out[d]) \in Seq(Events) /\ got'[d] \in Seq(Events)
          BY <1>t, <4>1, HeadTail
        <4>3. got'[d] \o (Tail(out[d]) \o (pending[d] \o inbox[d])) = Delivery(d)
          <5>1. pending[d] \o inbox[d] \in Seq(Events)
            BY <1>t
          <5>2. Append(got[d], Head(out[d])) \o (Tail(out[d]) \o (pending[d] \o inbox[d]))
                = got[d] \o (out[d] \o (pending[d] \o inbox[d]))
            <6> DEFINE g == got[d]
                       o == out[d]
                       rest == pending[d] \o inbox[d]
            <6>1. g \in Seq(Events) /\ o \in Seq(Events) /\ o # <<>> /\ rest \in Seq(Events)
              BY <1>t, <4>1, <5>1
            <6> HIDE DEF g, o, rest
            <6>2. Append(g, Head(o)) \o (Tail(o) \o rest) = g \o (o \o rest)
              BY <6>1, DeliverySends
            <6> QED
              BY <6>2 DEF g, o, rest
          <5> QED
            BY <4>1, <5>2 DEF Delivery
        <4>4. IsPrefix(Delivery(d), frames) /\ (d \in relays => Delivery(d) = frames)
          BY <1>i, <4>1 DEF DeliveryInOrder, ReceiverOpen
        <4>5. IsPrefix(got'[d], frames)
          <5>1. Tail(out[d]) \o (pending[d] \o inbox[d]) \in Seq(Events)
            BY <1>t, <4>2
          <5>2. IsPrefix(got'[d] \o (Tail(out[d]) \o (pending[d] \o inbox[d])), frames)
            BY <4>3, <4>4
          <5> QED
            BY <1>t, <4>2, <5>1, <5>2, PrefixOfPart
        <4>6. CASE Head(out[d]) \in Terminals
          <5>1. ~ReceiverOpen(d)'
            BY <3>4, <4>6 DEF Read, ReceiverOpen, TypeOK
          <5> QED
            BY <2>1, <4>5, <5>1 DEF DeliveryInOrder
        <4>7. CASE Head(out[d]) \notin Terminals
          <5>1. out'[d] = Tail(out[d])
            BY <3>4, <4>7 DEF Read, TypeOK
          <5>2. Delivery(d)' = Delivery(d)
            BY <2>1, <4>3, <5>1 DEF Delivery
          <5> QED
            BY <2>1, <4>4, <4>5, <5>2 DEF DeliveryInOrder
        <4> QED
          BY <4>6, <4>7
      <3>5. CASE ReadCut(d)
        BY <1>k, <2>1, <3>5 DEF ReadCut, ReceiverOpen, TypeOK
      <3> QED
        BY <1>7, <2>3, <3>1, <3>2, <3>3, <3>4, <3>5 DEF Client
    <2> QED
      BY <2>2, <2>3
  <1>8. CASE UNCHANGED vars
    BY <1>8, <1>k, <1>q DEF vars, bcastVars, relayVars, clientVars, ReceiverOpen
  <1> QED
    BY <1>1, <1>2, <1>3, <1>4, <1>5, <1>6, <1>7, <1>8 DEF Next

-----------------------------------------------------------------------------
(* How far a client is behind.                                            *)

LEMMA LengthOfLine ==
  ASSUME NEW S, NEW g \in Seq(S), NEW o \in Seq(S), NEW p \in Seq(S), NEW i \in Seq(S)
  PROVE  /\ g \o (o \o (p \o i)) \in Seq(S)
         /\ Len(g \o (o \o (p \o i))) = Len(g) + Len(o) + Len(p) + Len(i)
  OBVIOUS

LEMMA QueueLengths ==
  ASSUME TypeOK, NEW c \in Clients
  PROVE  /\ Len(got[c]) \in Nat /\ Len(out[c]) \in Nat
         /\ Len(pending[c]) \in Nat /\ Len(inbox[c]) \in Nat
  <1>1. /\ got[c] \in Seq(Events) /\ out[c] \in Seq(Events)
        /\ pending[c] \in Seq(Events) /\ inbox[c] \in Seq(Events)
    BY DEF TypeOK
  <1> QED
    BY <1>1

LEMMA HeldIsDelivery ==
  ASSUME TypeOK, NEW c \in Clients
  PROVE  /\ Delivery(c) \in Seq(Events)
         /\ Len(Delivery(c)) = Held(c)
         /\ Held(c) \in Nat /\ Len(inbox[c]) <= Held(c)
         /\ frames \in Seq(Events) /\ Len(frames) \in Nat
  <1> DEFINE g == got[c]
             o == out[c]
             p == pending[c]
             i == inbox[c]
  <1>1. /\ g \in Seq(Events) /\ o \in Seq(Events) /\ p \in Seq(Events)
        /\ i \in Seq(Events) /\ frames \in Seq(Events) /\ Len(frames) \in Nat
    BY DEF TypeOK
  <1>2. Delivery(c) = g \o (o \o (p \o i)) /\ Held(c) = Len(g) + Len(o) + Len(p) + Len(i)
    BY DEF Delivery, Held
  <1>3. Len(g) \in Nat /\ Len(o) \in Nat /\ Len(p) \in Nat /\ Len(i) \in Nat
    BY QueueLengths
  <1>4. Len(i) <= Held(c) /\ Held(c) \in Nat
    <2> HIDE DEF g, o, p, i
    <2> QED
      BY <1>2, <1>3
  <1>5. Delivery(c) \in Seq(Events) /\ Len(Delivery(c)) = Held(c)
    <2> HIDE DEF g, o, p, i
    <2> QED
      BY <1>1, <1>2, LengthOfLine
  <1> QED
    BY <1>1, <1>4, <1>5

(* One event moves from one queue to the next.                             *)
LEMMA MovedOne ==
  ASSUME TypeOK, NEW c \in Clients
  PROVE  /\ Len(got[c]) + Len(out[c]) + (Len(pending[c]) + 1) + (Len(inbox[c]) - 1) = Held(c)
         /\ Len(got[c]) + (Len(out[c]) + 1) + (Len(pending[c]) - 1) + Len(inbox[c]) = Held(c)
         /\ (Len(got[c]) + 1) + (Len(out[c]) - 1) + Len(pending[c]) + Len(inbox[c]) = Held(c)
  <1> DEFINE g == Len(got[c])
             o == Len(out[c])
             p == Len(pending[c])
             i == Len(inbox[c])
  <1>1. g \in Nat /\ o \in Nat /\ p \in Nat /\ i \in Nat
    BY QueueLengths
  <1>2. Held(c) = g + o + p + i
    BY DEF Held
  <1> HIDE DEF g, o, p, i
  <1>3. /\ g + o + (p + 1) + (i - 1) = Held(c)
        /\ g + (o + 1) + (p - 1) + i = Held(c)
        /\ (g + 1) + (o - 1) + p + i = Held(c)
    BY <1>1, <1>2
  <1> QED
    BY <1>3 DEF g, o, p, i

LEMMA LagInit == Init => LagInv
  BY DEF Init, LagInv, Forgotten, CallState, ReceiverOpen

(* A step that moves events only between the queues of a client.           *)
LEMMA ForgottenLocal ==
  ASSUME NEW c \in Clients, Forgotten(c), relays' = relays, frames' = frames,
         frame_rx_ok' = frame_rx_ok, relay'[c] # "none" => relay[c] # "none",
         ReceiverOpen(c)' => ReceiverOpen(c) /\ Held(c)' = Held(c)
  PROVE  Forgotten(c)'
  BY DEF Forgotten

LEMMA ForgottenStep ==
  ASSUME TypeOK, DeliveryInv, LagInv, [Next]_vars, NEW d \in Clients
  PROVE  Forgotten(d)'
  <1>i. Forgotten(d) /\ CallState(d) /\ StreamState(d) /\ DeliveryInOrder(d)
    BY DEF LagInv, DeliveryInv
  <1>t. /\ got[d] \in Seq(Events) /\ out[d] \in Seq(Events) /\ pending[d] \in Seq(Events)
        /\ inbox[d] \in Seq(Events) /\ frames \in Seq(Events) /\ source \in Seq(Events)
        /\ Len(frames) \in Nat /\ RelayCap \in Nat
    BY BoundsAssumption DEF TypeOK
  <1>h. Held(d) \in Nat /\ Len(inbox[d]) <= Held(d)
    BY HeldIsDelivery
  <1>r. ReceiverOpen(d) /\ d \in relays => Held(d) = Len(frames)
    BY <1>i, HeldIsDelivery DEF DeliveryInOrder
  <1>k. ASSUME UNCHANGED <<frames, frame_rx_ok, relays, relay, inbox, pending, out, call, got>>
        PROVE  Forgotten(d)'
    BY <1>i, <1>k DEF Forgotten, Held, ReceiverOpen
  <1>1. ASSUME NEW e \in Events, TrackerSend(e) PROVE Forgotten(d)'
    BY <1>k, <1>1 DEF TrackerSend, bcastVars, relayVars, clientVars
  <1>2. CASE TrackerEnd
    BY <1>k, <1>2 DEF TrackerEnd, bcastVars, relayVars, clientVars
  <1>3. CASE TakeFrame
    <2>1. /\ frame_rx_ok /\ frame_rx_ok' = frame_rx_ok /\ relay' = relay /\ call' = call
          /\ got' = got /\ out' = out /\ pending' = pending
          /\ relays' = {c \in relays : Accepts(c)}
          /\ Len(frames') = Len(frames) + 1
      BY <1>t, <1>3, HeadTail, AppendAt DEF TakeFrame, Keep, clientVars
    <2>2. CASE d \in relays /\ Accepts(d)
      BY <2>1, <2>2 DEF Forgotten
    <2>3. CASE ~(d \in relays /\ Accepts(d))
      <3>1. inbox'[d] = inbox[d]
        BY <1>3, <2>3 DEF TakeFrame, TypeOK
      <3>2. Held(d)' = Held(d) /\ (ReceiverOpen(d)' <=> ReceiverOpen(d))
        BY <2>1, <3>1 DEF Held, ReceiverOpen
      <3>3. CASE d \in relays
        <4>1. ReceiverOpen(d) => ~(Len(inbox[d]) < RelayCap)
          BY <1>i, <2>3, <3>3 DEF Accepts, CallState
        <4>2. ReceiverOpen(d) => RelayCap <= Held(d) /\ Held(d) < Len(frames')
          BY <1>t, <1>h, <1>r, <2>1, <3>3, <4>1
        <4> QED
          BY <3>2, <4>2 DEF Forgotten
      <3>4. CASE d \notin relays
        BY <1>i, <1>t, <1>h, <2>1, <3>2, <3>4 DEF Forgotten
      <3> QED
        BY <3>3, <3>4
    <2> QED
      BY <2>2, <2>3
  <1>4. CASE SourceEnds
    <2>1. /\ frame_rx_ok /\ ~frame_rx_ok' /\ frames' = frames
          /\ UNCHANGED <<relay, inbox, pending, out, call, got>>
      BY <1>4 DEF SourceEnds, relayVars, clientVars
    <2>2. Held(d)' = Held(d) /\ (ReceiverOpen(d)' <=> ReceiverOpen(d))
      BY <2>1 DEF Held, ReceiverOpen
    <2> QED
      BY <1>i, <1>r, <2>1, <2>2 DEF Forgotten
  <1>5. CASE ServeRequest
    <2>1. /\ UNCHANGED <<frames, frame_rx_ok, inbox, out, call, got>>
          /\ Head(req_rx) \in Clients /\ relay[Head(req_rx)] = "none"
      <3>1. req_rx \in Seq(Clients) /\ req_rx # <<>>
        BY <1>5 DEF ServeRequest, TypeOK
      <3>2. 1 \in DOMAIN req_rx /\ Head(req_rx) = req_rx[1] /\ Head(req_rx) \in Clients
        BY <3>1, HeadTail
      <3> QED
        BY <1>5, <3>2 DEF ServeRequest, clientVars, DeliveryInv, RequestsAreFresh
    <2>2. CASE d = Head(req_rx) /\ call[d] = "waiting"
      <3>1. got[d] = <<>> /\ out[d] = <<>> /\ inbox[d] = <<>>
        BY <1>i, <2>1, <2>2 DEF StreamState
      <3>2. pending'[d] = frames /\ relays' = Tracked(d)
        BY <1>5, <2>1, <2>2 DEF ServeRequest, IsWaiting, Replay, TypeOK
      <3>3. Held(d)' = Len(frames)
        BY <1>t, <2>1, <3>1, <3>2 DEF Held
      <3> QED
        BY <2>1, <3>2, <3>3 DEF Forgotten, Tracked
    <2>3. CASE ~(d = Head(req_rx) /\ call[d] = "waiting")
      <3>1. /\ pending'[d] = pending[d] /\ relay'[d] = relay[d]
            /\ d \in relays <=> d \in relays'
        <4>1. CASE call[Head(req_rx)] = "waiting"
          <5>1. /\ d # Head(req_rx)
                /\ pending' = [pending EXCEPT ![Head(req_rx)] = frames]
                /\ relay' = [relay EXCEPT ![Head(req_rx)] = "running"]
                /\ relays' = relays \/ relays' = relays \union {Head(req_rx)}
            BY <1>5, <2>3, <4>1 DEF ServeRequest, IsWaiting, Replay, Tracked
          <5> QED
            BY <5>1, <2>1 DEF TypeOK
        <4>2. CASE call[Head(req_rx)] # "waiting"
          BY <1>5, <4>2 DEF ServeRequest, IsWaiting
        <4> QED
          BY <4>1, <4>2
      <3>2. Held(d)' = Held(d) /\ (ReceiverOpen(d)' <=> ReceiverOpen(d))
        BY <2>1, <3>1 DEF Held, ReceiverOpen
      <3> QED
        BY <1>i, <2>1, <3>1, <3>2 DEF Forgotten
    <2> QED
      BY <2>2, <2>3
  <1>6. ASSUME NEW c \in Clients, Relay(c) PROVE Forgotten(d)'
    <2>1. UNCHANGED <<frames, frame_rx_ok, relays, call, got>>
      BY <1>6 DEF Relay, RelayReceive, RelayClosed, RelaySend, RelaySendFails,
                  RelayDrain, RelayEnd, bcastVars, clientVars
    <2>2. (ReceiverOpen(d)' <=> ReceiverOpen(d)) /\ (relay'[d] # "none" => relay[d] # "none")
      BY <1>6, <2>1 DEF Relay, RelayReceive, RelayClosed, RelaySend, RelaySendFails,
                        RelayDrain, RelayEnd, ReceiverOpen, TypeOK
    <2>3. ReceiverOpen(d) => Held(d)' = Held(d)
      <3>1. CASE c # d
        BY <1>6, <2>1, <3>1 DEF Relay, RelayReceive, RelayClosed, RelaySend, RelaySendFails,
                                RelayDrain, RelayEnd, TypeOK, Held
      <3> SUFFICES ASSUME c = d, ReceiverOpen(d) PROVE Held(d)' = Held(d)
        BY <3>1
      <3>2. CASE RelayReceive(d)
        <4>1. /\ out'[d] = out[d] /\ inbox'[d] = Tail(inbox[d]) /\ inbox[d] # <<>>
              /\ pending'[d] = Append(pending[d], Head(inbox[d]))
          BY <3>2 DEF RelayReceive, TypeOK
        <4>2. Len(pending'[d]) = Len(pending[d]) + 1 /\ Len(inbox'[d]) = Len(inbox[d]) - 1
          BY <1>t, <4>1, HeadTail, AppendAt
        <4>3. Held(d)' = Len(got[d]) + Len(out[d]) + (Len(pending[d]) + 1) + (Len(inbox[d]) - 1)
          BY <2>1, <4>1, <4>2 DEF Held
        <4> QED
          BY <4>3, MovedOne
      <3>3. CASE RelayClosed(d) \/ RelayEnd(d)
        BY <2>1, <3>3 DEF RelayClosed, RelayEnd, Held
      <3>4. CASE RelaySend(d) \/ RelayDrain(d)
        <4>1. /\ out'[d] = Append(out[d], Head(pending[d]))
              /\ pending'[d] = Tail(pending[d]) /\ pending[d] # <<>>
              /\ inbox'[d] = inbox[d]
          BY <3>4 DEF RelaySend, RelayDrain, TypeOK
        <4>2. Len(out'[d]) = Len(out[d]) + 1 /\ Len(pending'[d]) = Len(pending[d]) - 1
          BY <1>t, <4>1, HeadTail, AppendAt
        <4>3. Held(d)' = Len(got[d]) + (Len(out[d]) + 1) + (Len(pending[d]) - 1) + Len(inbox[d])
          BY <2>1, <4>1, <4>2 DEF Held
        <4> QED
          BY <4>3, MovedOne
      <3>5. CASE RelaySendFails(d)
        BY <3>5 DEF RelaySendFails
      <3> QED
        BY <1>6, <3>2, <3>3, <3>4, <3>5 DEF Relay
    <2> QED
      BY <1>i, <2>1, <2>2, <2>3, ForgottenLocal
  <1>7. ASSUME NEW c \in Clients, Client(c) PROVE Forgotten(d)'
    <2>1. UNCHANGED <<frames, frame_rx_ok, relays, relay, pending, inbox>>
      BY <1>7 DEF Client, Ask, TakeStream, GiveUp, Read, ReadCut, bcastVars, relayVars
    <2>2. CASE c # d
      <3>1. call'[d] = call[d] /\ got'[d] = got[d] /\ out'[d] = out[d]
        BY <1>7, <2>2 DEF Client, Ask, TakeStream, GiveUp, Read, ReadCut, TypeOK
      <3> QED
        BY <1>i, <2>1, <3>1, ForgottenLocal DEF Held, ReceiverOpen
    <2>3. CASE Ask(d)
      BY <1>i, <2>1, <2>3 DEF Ask, StreamState, Forgotten
    <2>4. CASE TakeStream(d)
      BY <1>i, <2>1, <2>4, ForgottenLocal DEF TakeStream, Held, ReceiverOpen
    <2>5. CASE GiveUp(d) \/ ReadCut(d)
      BY <2>5 DEF GiveUp, ReadCut, ReceiverOpen, Forgotten, TypeOK
    <2>6. CASE Read(d)
      <3>1. /\ got'[d] = Append(got[d], Head(out[d])) /\ out[d] # <<>> /\ ReceiverOpen(d)
            /\ ReceiverOpen(d)' => out'[d] = Tail(out[d])
        BY <2>6 DEF Read, ReceiverOpen, TypeOK
      <3>2. Len(got'[d]) = Len(got[d]) + 1 /\ Len(Tail(out[d])) = Len(out[d]) - 1
        BY <1>t, <3>1, HeadTail, AppendAt
      <3>3. ReceiverOpen(d)' => Held(d)' = Held(d)
        <4> SUFFICES ASSUME ReceiverOpen(d)' PROVE Held(d)' = Held(d)
          OBVIOUS
        <4>1. Held(d)' = (Len(got[d]) + 1) + (Len(out[d]) - 1) + Len(pending[d]) + Len(inbox[d])
          BY <2>1, <3>1, <3>2 DEF Held
        <4> QED
          BY <4>1, MovedOne
      <3> QED
        BY <1>i, <2>1, <3>1, <3>3, ForgottenLocal
    <2> QED
      BY <1>7, <2>2, <2>3, <2>4, <2>5, <2>6 DEF Client
  <1>8. CASE UNCHANGED vars
    BY <1>k, <1>8 DEF vars, bcastVars, relayVars, clientVars
  <1> QED
    BY <1>1, <1>2, <1>3, <1>4, <1>5, <1>6, <1>7, <1>8 DEF Next

LEMMA CallStep ==
  ASSUME TypeOK, DeliveryInv, LagInv, [Next]_vars, NEW d \in Clients
  PROVE  CallState(d)'
  <1>i. Forgotten(d) /\ CallState(d) /\ StreamState(d) /\ DeliveryInOrder(d)
    BY DEF LagInv, DeliveryInv
  <1>t. /\ got[d] \in Seq(Events) /\ out[d] \in Seq(Events) /\ pending[d] \in Seq(Events)
        /\ inbox[d] \in Seq(Events) /\ frames \in Seq(Events) /\ source \in Seq(Events)
        /\ Len(frames) \in Nat /\ RelayCap \in Nat
    BY BoundsAssumption DEF TypeOK
  <1>k. ASSUME relay'[d] = relay[d], call'[d] = call[d], got'[d] = got[d],
               d \in relays' => d \in relays, Len(frames') >= Len(frames), Len(frames') \in Nat
        PROVE  CallState(d)'
    BY <1>i, <1>k, <1>t DEF CallState, ReceiverOpen, Terminated
  <1>1. ASSUME NEW e \in Events, TrackerSend(e) PROVE CallState(d)'
    BY <1>k, <1>t, <1>1 DEF TrackerSend, bcastVars, relayVars, clientVars
  <1>2. CASE TrackerEnd \/ SourceEnds
    BY <1>k, <1>t, <1>2 DEF TrackerEnd, SourceEnds, bcastVars, relayVars, clientVars
  <1>3. CASE TakeFrame
    <2>1. Len(frames') = Len(frames) + 1
      BY <1>t, <1>3, HeadTail, AppendAt DEF TakeFrame
    <2> QED
      BY <1>k, <1>t, <1>3, <2>1 DEF TakeFrame, Keep, clientVars
  <1>4. CASE ServeRequest
    <2>1. UNCHANGED <<frames, call, got>> /\ Head(req_rx) \in Clients
      <3>1. req_rx \in Seq(Clients) /\ req_rx # <<>>
        BY <1>4 DEF ServeRequest, TypeOK
      <3> QED
        BY <1>4, <3>1, HeadTail DEF ServeRequest, clientVars
    <2>2. CASE d = Head(req_rx) /\ call[d] = "waiting"
      <3>1. relay'[d] = "running"
        BY <1>4, <2>1, <2>2 DEF ServeRequest, IsWaiting, TypeOK
      <3> QED
        BY <1>i, <2>1, <2>2, <3>1 DEF CallState, Terminated
    <2>3. CASE ~(d = Head(req_rx) /\ call[d] = "waiting")
      <3>1. relay'[d] = relay[d] /\ (d \in relays' => d \in relays)
        <4>1. CASE call[Head(req_rx)] = "waiting"
          <5>1. /\ d # Head(req_rx)
                /\ relay' = [relay EXCEPT ![Head(req_rx)] = "running"]
                /\ relays' \subseteq relays \union {Head(req_rx)}
            BY <1>4, <2>3, <4>1 DEF ServeRequest, IsWaiting, Tracked
          <5> QED
            BY <5>1, <2>1 DEF TypeOK
        <4>2. CASE call[Head(req_rx)] # "waiting"
          BY <1>4, <4>2 DEF ServeRequest, IsWaiting
        <4> QED
          BY <4>1, <4>2
      <3> QED
        BY <1>k, <1>t, <2>1, <3>1
    <2> QED
      BY <2>2, <2>3
  <1>5. ASSUME NEW c \in Clients, Relay(c) PROVE CallState(d)'
    <2>1. UNCHANGED <<frames, relays, call, got>>
      BY <1>5 DEF Relay, RelayReceive, RelayClosed, RelaySend, RelaySendFails,
                  RelayDrain, RelayEnd, bcastVars, clientVars
    <2>2. relay'[d] = "ended" /\ ReceiverOpen(d) => d \notin relays
      BY <1>i, <1>5 DEF Relay, RelayReceive, RelayClosed, RelaySend, RelaySendFails,
                        RelayDrain, RelayEnd, CallState, StreamState, TypeOK
    <2> QED
      BY <1>i, <2>1, <2>2 DEF CallState, ReceiverOpen, Terminated
  <1>6. ASSUME NEW c \in Clients, Client(c) PROVE CallState(d)'
    <2>1. UNCHANGED <<frames, frame_rx_ok, relays, relay, pending, inbox, source>>
      BY <1>6 DEF Client, Ask, TakeStream, GiveUp, Read, ReadCut, bcastVars, relayVars, sourceVars
    <2>2. CASE c # d
      BY <1>6, <1>k, <1>t, <2>1, <2>2 DEF Client, Ask, TakeStream, GiveUp, Read, ReadCut, TypeOK
    <2>3. CASE Ask(d)
      BY <1>i, <2>1, <2>3 DEF Ask, StreamState, CallState, TypeOK
    <2>4. CASE TakeStream(d)
      BY <1>i, <2>1, <2>4 DEF TakeStream, CallState, ReceiverOpen, Terminated, TypeOK
    <2>5. CASE GiveUp(d)
      BY <2>5 DEF GiveUp, CallState, ReceiverOpen, TypeOK
    <2>6. CASE Read(d)
      <3>1. /\ got'[d] = Append(got[d], Head(out[d])) /\ out[d] # <<>> /\ call[d] = "reading"
            /\ IF Head(out[d]) \in Terminals THEN call'[d] = "done" ELSE call'[d] = "reading"
        BY <2>6 DEF Read, TypeOK
      <3>2. Head(out[d]) \notin Terminals => ~Terminated(got'[d])
        <4>1. Head(out[d]) \in Events
          BY <1>t, <3>1, HeadTail
        <4> QED
          BY <1>i, <1>t, <3>1, <4>1, AppendAt DEF CallState, Terminated
      <3> QED
        BY <1>i, <2>1, <3>1, <3>2 DEF CallState, ReceiverOpen, Terminated
    <2>7. CASE ReadCut(d)
      <3>1. /\ call[d] = "reading" /\ call'[d] = "cut" /\ out[d] = <<>> /\ relay[d] = "ended"
            /\ pending[d] = <<>> /\ inbox[d] = <<>> /\ d \notin relays /\ ReceiverOpen(d)
        BY <1>i, <2>7 DEF ReadCut, StreamState, CallState, ReceiverOpen, TypeOK
      <3>2. ~(~frame_rx_ok /\ Held(d) = Len(frames))
        <4> SUFFICES ASSUME ~frame_rx_ok, Held(d) = Len(frames) PROVE FALSE
          OBVIOUS
        <4>1. Len(got[d]) = Len(frames)
          BY <1>t, <3>1 DEF Held
        <4>2. \A i \in 1..Len(frames) : got[d][i] = frames[i]
          BY <1>i, <1>t, <4>1 DEF DeliveryInOrder, IsPrefix
        <4>3. source = <<>> /\ Terminated(Emitted)
          BY DEF DeliveryInv, LogIsSealed
        <4>4. Terminated(frames)
          BY <1>t, <4>3, ConcatEmpty DEF Emitted
        <4>5. Terminated(got[d])
          BY <1>t, <4>1, <4>2, <4>4 DEF Terminated
        <4> QED
          BY <1>i, <3>1, <4>5 DEF CallState
      <3>3. Len(frames) > RelayCap
        BY <1>i, <1>t, <3>1, <3>2, HeldIsDelivery DEF Forgotten
      <3> QED
        BY <2>1, <3>1, <3>3 DEF CallState, ReceiverOpen
    <2> QED
      BY <1>6, <2>2, <2>3, <2>4, <2>5, <2>6, <2>7 DEF Client
  <1>7. CASE UNCHANGED vars
    BY <1>k, <1>t, <1>7 DEF vars, bcastVars, relayVars, clientVars
  <1> QED
    BY <1>1, <1>2, <1>3, <1>4, <1>5, <1>6, <1>7 DEF Next

-----------------------------------------------------------------------------
(* The theorems.                                                           *)

(* The inductive invariant holds throughout.                               *)
THEOREM DeliveryInvariant == Spec => [](TypeOK /\ DeliveryInv)
  <1>1. TypeOK /\ DeliveryInv /\ [Next]_vars => DeliveryInv'
    BY SealedStep, FreshStep, StreamStep, DeliveryStep DEF DeliveryInv
  <1>2. Init => DeliveryInv
    BY DeliveryInit
  <1> QED
    BY <1>1, <1>2, TypeCorrect, PTL DEF Spec

(* A client has always received a prefix of the log, whichever branch each *)
(* select takes and whenever it asked.                                     *)
THEOREM StreamsArePrefixes == Spec => []StreamIsPrefix
  <1>1. DeliveryInv => StreamIsPrefix
    BY DEF DeliveryInv, DeliveryInOrder, StreamIsPrefix
  <1> QED
    BY <1>1, DeliveryInvariant, PTL

(* As long as bcast holds the relay of a listening client, every event of  *)
(* the log is with the client or in one queue on the way.                  *)
THEOREM NothingIsLost == Spec => []NothingLostInFlight
  <1>1. TypeOK /\ DeliveryInv => NothingLostInFlight
    BY DEF TypeOK, DeliveryInv, DeliveryInOrder, NothingLostInFlight
  <1> QED
    BY <1>1, DeliveryInvariant, PTL

(* A stream that ended with a terminal event was the whole log.            *)
THEOREM DoneIsComplete == Spec => []DoneMeansComplete
  <1>1. TypeOK /\ DeliveryInv => DoneMeansComplete
    <2> SUFFICES ASSUME TypeOK, DeliveryInv, NEW c \in Clients, call[c] = "done"
                 PROVE  got[c] = Emitted
      BY DEF DoneMeansComplete
    <2>1. got[c] \in Seq(Events) /\ frames \in Seq(Events) /\ source \in Seq(Events)
      BY DEF TypeOK
    <2>2. PICK i \in DOMAIN got[c] : got[c][i] \in Terminals
      BY DEF DeliveryInv, StreamState, Terminated
    <2>3. Len(got[c]) <= Len(frames) /\ \A k \in 1..Len(got[c]) : got[c][k] = frames[k]
      <3>1. IsPrefix(got[c], frames)
        BY DEF DeliveryInv, DeliveryInOrder
      <3> QED
        BY <2>1, <3>1 DEF IsPrefix
    <2>4. /\ Emitted \in Seq(Events)
          /\ Len(Emitted) = Len(frames) + Len(source)
          /\ \A k \in 1..Len(frames) : Emitted[k] = frames[k]
      BY <2>1, ConcatProperties DEF Emitted
    <2>5. /\ Len(got[c]) \in Nat /\ Len(frames) \in Nat /\ Len(source) \in Nat
          /\ DOMAIN got[c] = 1..Len(got[c])
          /\ DOMAIN Emitted = 1..Len(Emitted)
      BY <2>1, <2>4
    <2>6. i \in DOMAIN Emitted /\ Emitted[i] \in Terminals
      BY <2>2, <2>3, <2>4, <2>5
    <2>7. i = Len(Emitted)
      BY <2>6 DEF DeliveryInv, LogIsSealed
    <2>8. Len(got[c]) = Len(Emitted)
      BY <2>2, <2>3, <2>4, <2>5, <2>7
    <2>9. \A k \in 1..Len(got[c]) : got[c][k] = Emitted[k]
      BY <2>3, <2>4, <2>5
    <2> QED
      BY <2>1, <2>4, <2>8, <2>9, SeqEqual
  <1> QED
    BY <1>1, DeliveryInvariant, PTL

(* What is in the queues of a client, and how far it is behind: whatever   *)
(* bcast, the relays and the clients do, the log stays sealed, requests    *)
(* stay fresh, and every listening client stays on its way to the log.     *)
THEOREM BroadcasterInvariant == Spec => []IndInv
  <1>1. TypeOK /\ DeliveryInv /\ LagInv /\ [Next]_vars => LagInv'
    BY ForgottenStep, CallStep DEF LagInv
  <1>2. Init => LagInv
    BY LagInit
  <1> QED
    BY <1>1, <1>2, DeliveryInvariant, PTL DEF Spec, IndInv

(* The client of a relay that bcast forgot before the end of the job gets  *)
(* at least as much of the log as the relay's inbox holds.                 *)
THEOREM OnlyOverflowForgets == Spec => []ForgottenOnlyByOverflow
  <1>1. TypeOK /\ DeliveryInv /\ LagInv => ForgottenOnlyByOverflow
    <2> SUFFICES ASSUME TypeOK, DeliveryInv, LagInv, NEW c \in Clients,
                        ReceiverOpen(c), relay[c] # "none", c \notin relays
                 PROVE  \/ ~frame_rx_ok /\ Delivery(c) = frames
                        \/ RelayCap <= Len(Delivery(c)) /\ Len(Delivery(c)) < Len(frames)
      BY DEF ForgottenOnlyByOverflow
    <2>1. \/ ~frame_rx_ok /\ Held(c) = Len(frames)
          \/ RelayCap <= Held(c) /\ Held(c) < Len(frames)
      BY DEF LagInv, Forgotten
    <2>2. Held(c) = Len(frames) => Delivery(c) = frames
      <3>1. IsPrefix(Delivery(c), frames)
        BY DEF DeliveryInv, DeliveryInOrder
      <3> HIDE DEF Delivery
      <3> QED
        BY <3>1, HeldIsDelivery, SeqEqual DEF IsPrefix
    <2> QED
      BY <2>1, <2>2, HeldIsDelivery
  <1> QED
    BY <1>1, BroadcasterInvariant, PTL DEF IndInv

(* A relay that winds down at the end of the job has delivered everything: *)
(* only a client that was forgotten for a full inbox sees its stream break *)
(* off.                                                                    *)
THEOREM OnlyOverflowCuts == Spec => []CutOnlyByOverflow
  <1>1. LagInv => CutOnlyByOverflow
    BY DEF LagInv, CallState, CutOnlyByOverflow
  <1> QED
    BY <1>1, BroadcasterInvariant, PTL DEF IndInv

(* A stream breaks off only under a client that was left behind: one that  *)
(* has the complete log has seen its terminal event and reads no more.     *)
LEMMA CutIsBehind ==
  ASSUME TypeOK, DeliveryInv, LagInv, NEW c \in Clients, ReadCut(c)
  PROVE  Len(got[c]) < Len(frames)
  <1>1. /\ relay[c] = "ended" /\ call[c] = "reading" /\ out[c] = <<>>
        /\ pending[c] = <<>> /\ inbox[c] = <<>>
    BY DEF ReadCut, DeliveryInv, StreamState
  <1>2. got[c] \in Seq(Events) /\ frames \in Seq(Events)
    BY DeliveryType
  <1>3. ReceiverOpen(c) /\ c \notin relays /\ ~Terminated(got[c])
    BY <1>1 DEF ReceiverOpen, LagInv, CallState
  <1>4. Held(c) = Len(got[c])
    BY <1>1, <1>2 DEF Held
  <1>5. \/ ~frame_rx_ok /\ Len(got[c]) = Len(frames)
        \/ Len(got[c]) < Len(frames)
    BY <1>1, <1>3, <1>4 DEF LagInv, Forgotten
  <1>6. ASSUME ~frame_rx_ok, Len(got[c]) = Len(frames) PROVE FALSE
    <2>1. got[c] = frames
      BY <1>2, <1>6, SeqEqual DEF DeliveryInv, DeliveryInOrder, IsPrefix
    <2>2. source = <<>> /\ Terminated(Emitted)
      BY <1>6 DEF DeliveryInv, LogIsSealed
    <2>3. Emitted = frames
      BY <1>2, <2>2 DEF Emitted
    <2> QED
      BY <1>3, <2>1, <2>2, <2>3
  <1> QED
    BY <1>5, <1>6

(* The broadcaster, its relays and its clients implement LogStream: only   *)
(* TakeFrame publishes, only Read observes, ServeRequest starts a relay    *)
(* for a caller that waits or does nothing, and the steps of the relays    *)
(* stutter.                                                                *)
THEOREM BroadcasterImplementsLogStream == Spec => ImplementsLogStream
  <1>1. Init => Promise!Init
    BY DEF Init, Promise!Init
  <1>2. IndInv /\ [Next]_vars => [Promise!Next]_Promise!vars
    <2> DEFINE served == {c \in Clients : relay[c] # "none"}
    <2> SUFFICES ASSUME TypeOK, DeliveryInv, LagInv, [Next]_vars
                 PROVE  Promise!Next \/ UNCHANGED <<frames, got, call, served>>
      BY DEF Promise!vars, IndInv
    <2>0. UNCHANGED relay => UNCHANGED served
      OBVIOUS
    <2>1. CASE TakeFrame
      <3>1. /\ frames' = Append(frames, Head(source)) /\ UNCHANGED <<got, call, relay>>
            /\ Head(source) \in Frames \union Terminals
        BY <2>1, HeadTail DEF TakeFrame, Keep, TypeOK, clientVars, Events
      <3>2. ~Promise!Sealed
        <4> SUFFICES ASSUME NEW i \in DOMAIN frames, frames[i] \in Terminals
                     PROVE  FALSE
          BY DEF Promise!Sealed
        <4>1. /\ frames \in Seq(Events) /\ source \in Seq(Events) /\ source # <<>>
              /\ Len(frames) \in Nat /\ Len(source) \in Nat \ {0}
              /\ i \in 1..Len(frames)
          BY <2>1 DEF TakeFrame, Keep, TypeOK
        <4>2. /\ Len(Emitted) = Len(frames) + Len(source)
              /\ Emitted[i] = frames[i]
              /\ i \in DOMAIN Emitted
          BY <4>1, ConcatProperties DEF Emitted
        <4>3. i = Len(Emitted)
          BY <4>2 DEF DeliveryInv, LogIsSealed
        <4> QED
          BY <4>1, <4>2, <4>3
      <3>3. Promise!Publish
        BY <2>0, <3>1, <3>2 DEF Promise!Publish
      <3> QED
        BY <3>3 DEF Promise!Next
    <2>2. ASSUME NEW c \in Clients, Read(c) PROVE Promise!Observe(c)
      <3>1. /\ UNCHANGED <<frames, relay>>
            /\ got' = [got EXCEPT ![c] = Append(@, Head(out[c]))]
            /\ call' = IF Head(out[c]) \in Terminals
                       THEN [call EXCEPT ![c] = "done"] ELSE call
            /\ out[c] # <<>> /\ ReceiverOpen(c) /\ call[c] = "reading"
        BY <2>2 DEF Read, bcastVars, relayVars, ReceiverOpen
      <3>t. /\ got[c] \in Seq(Events) /\ out[c] \in Seq(Events)
            /\ pending[c] \in Seq(Events) /\ inbox[c] \in Seq(Events)
            /\ frames \in Seq(Events)
        BY DeliveryType
      <3> DEFINE rest == pending[c] \o inbox[c]
                 tail == out[c] \o rest
      <3>2. /\ tail \in Seq(Events) /\ tail # <<>> /\ Head(tail) = Head(out[c])
        <4>1. rest \in Seq(Events)
          BY <3>t
        <4> HIDE DEF rest
        <4> QED
          BY <3>t, <3>1, <4>1, HeadOfConcat
      <3>3. IsPrefix(got[c] \o tail, frames)
        BY <3>1 DEF DeliveryInv, DeliveryInOrder, Delivery
      <3> HIDE DEF tail
      <3>4. /\ Len(got[c] \o tail) <= Len(frames)
            /\ \A i \in 1..Len(got[c] \o tail) : (got[c] \o tail)[i] = frames[i]
        BY <3>t, <3>2, <3>3 DEF IsPrefix
      <3>5. /\ Len(got[c] \o tail) = Len(got[c]) + Len(tail)
            /\ (got[c] \o tail)[Len(got[c]) + 1] = Head(tail)
            /\ Len(got[c]) \in Nat /\ Len(tail) \in Nat \ {0} /\ Len(frames) \in Nat
        BY <3>t, <3>2, ConcatProperties, HeadTail
      <3>6. Len(got[c]) < Len(frames) /\ frames[Len(got[c]) + 1] = Head(out[c])
        <4>1. Len(got[c]) < Len(frames) /\ Len(got[c]) + 1 \in 1..Len(got[c] \o tail)
          BY <3>4, <3>5
        <4>2. (got[c] \o tail)[Len(got[c]) + 1] = frames[Len(got[c]) + 1]
          BY <3>4, <4>1
        <4> QED
          BY <3>2, <3>5, <4>1, <4>2
      <3> QED
        BY <2>0, <3>1, <3>6 DEF Promise!Observe
    <2>3. CASE ServeRequest
      <3>r. req_rx \in Seq(Clients) /\ req_rx # <<>> /\ UNCHANGED <<frames, got, call>>
        BY <2>3 DEF ServeRequest, TypeOK, clientVars
      <3>h. /\ Head(req_rx) = req_rx[1] /\ 1 \in DOMAIN req_rx
            /\ Head(req_rx) \in Clients
        BY <3>r, HeadTail
      <3>1. /\ Head(req_rx) \in Clients /\ relay[Head(req_rx)] = "none"
            /\ UNCHANGED <<frames, got, call>>
        BY <3>r, <3>h DEF DeliveryInv, RequestsAreFresh
      <3>2. CASE IsWaiting(Head(req_rx))
        <4>c. PICK c \in Clients : c = Head(req_rx)
          BY <3>1
        <4>1. call[c] = "waiting" /\ relay' = [relay EXCEPT ![c] = "running"]
          BY <2>3, <3>2, <4>c DEF ServeRequest, IsWaiting
        <4>2. served' = served \union {c} /\ c \notin served
          BY <3>1, <4>c, <4>1 DEF TypeOK
        <4>3. Promise!Serve(c)
          BY <3>1, <4>1, <4>2 DEF Promise!Serve
        <4> QED
          BY <4>3 DEF Promise!Next
      <3>3. CASE ~IsWaiting(Head(req_rx))
        BY <2>0, <2>3, <3>1, <3>3 DEF ServeRequest
      <3> QED
        BY <3>2, <3>3
    <2>4. ASSUME NEW c \in Clients, Client(c), ~Read(c) PROVE Promise!Next
      <3>1. CASE Ask(c)
        BY <2>0, <3>1 DEF Ask, bcastVars, relayVars, Promise!Ask, Promise!Next
      <3>2. CASE TakeStream(c)
        BY <2>0, <3>2 DEF TakeStream, bcastVars, relayVars, Promise!Open, Promise!Next
      <3>3. CASE GiveUp(c)
        BY <2>0, <3>3 DEF GiveUp, bcastVars, relayVars, Promise!GiveUp, Promise!Next
      <3>4. CASE ReadCut(c)
        BY <2>0, <3>4, CutIsBehind
           DEF ReadCut, bcastVars, relayVars, Promise!Cut, Promise!Next
      <3> QED
        BY <2>4, <3>1, <3>2, <3>3, <3>4 DEF Client
    <2>5. ASSUME NEW c \in Clients, Relay(c)
          PROVE  UNCHANGED <<frames, got, call, served>>
      <3>1. UNCHANGED <<frames, got, call>>
        BY <2>5 DEF Relay, RelayReceive, RelayClosed, RelaySend, RelaySendFails,
                    RelayDrain, RelayEnd, bcastVars, clientVars
      <3>2. \/ UNCHANGED relay
            \/ /\ relay[c] # "none"
               /\ \E r \in {"draining", "ended"} : relay' = [relay EXCEPT ![c] = r]
        BY <2>5 DEF Relay, RelayReceive, RelayClosed, RelaySend, RelaySendFails,
                    RelayDrain, RelayEnd
      <3>3. \A d \in Clients : relay'[d] # "none" <=> relay[d] # "none"
        BY <3>2 DEF TypeOK
      <3> QED
        BY <3>1, <3>3
    <2>6. CASE UNCHANGED vars
      BY <2>0, <2>6 DEF vars, bcastVars, relayVars, clientVars
    <2>7. ASSUME NEW e \in Events, TrackerSend(e)
          PROVE  UNCHANGED <<frames, got, call, served>>
      BY <2>0, <2>7 DEF TrackerSend, MayEmit, bcastVars, relayVars, clientVars
    <2>8. CASE TrackerEnd \/ SourceEnds
      BY <2>0, <2>8 DEF TrackerEnd, SourceEnds, bcastVars, relayVars, clientVars
    <2> QED
      BY <2>1, <2>2, <2>3, <2>4, <2>5, <2>6, <2>7, <2>8 DEF Next, Promise!Next
  <1> QED
    BY <1>1, <1>2, BroadcasterInvariant, PTL DEF Spec, ImplementsLogStream, Promise!Spec
==============================================================================
