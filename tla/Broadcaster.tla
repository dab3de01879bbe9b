----------------------------- MODULE Broadcaster -----------------------------
(***************************************************************************)
(* FrameBroadcaster and FrameRelay of src/proc/coord.rs: the task that     *)
(* buffers the output of one job (bcast), the task it starts for every     *)
(* call of logs() (relay), and the callers themselves (stream, then the    *)
(* forwarding loop of src/grpc.rs that consumes the receiver).             *)
(*                                                                         *)
(* One action is one iteration of a select loop, or one stretch of code    *)
(* between two awaits.  tokio's bounded channels are sequences with a      *)
(* capacity; a oneshot is the state of the call that waits on it.          *)
(***************************************************************************)
EXTENDS Naturals, Sequences, SequencesExt

CONSTANTS
  Clients,     \* calls of stream(): one element per logs() request
  Frames,      \* the payloads of FrameEvent::Frame
  EOF, Err,    \* the terminal events FrameEvent::EOF and FrameEvent::Error
  MaxFrames,   \* bound: frames one job emits before its terminal event
  SourceCap,   \* capacity of the tracker -> broadcaster channel (2)
  ReqCap,      \* capacity of the FrameRequest channel (1)
  RelayCap,    \* capacity of a broadcaster -> relay channel (1024)
  ClientCap,   \* capacity of a relay -> client channel (1024)
  RelayKeepsSender
    \* TRUE: the code.  relay() takes self by value, and self owns a sender
    \* of the very channel the task receives from.
    \* FALSE: a relay that does not own one, as the doc comment of
    \* FrameBroadcaster presumes when it says that dropping it ends it.

Terminals == {EOF, Err}
Events == Frames \union Terminals

ASSUME EventsAssumption == Frames \intersect Terminals = {}
ASSUME BoundsAssumption ==
  /\ MaxFrames \in Nat
  /\ SourceCap \in Nat \ {0}
  /\ ReqCap \in Nat \ {0}
  /\ RelayCap \in Nat \ {0}
  /\ ClientCap \in Nat \ {0}
  /\ RelayKeepsSender \in BOOLEAN

VARIABLES
  source,       \* frame_rx of bcast: events in flight from the tracker
  source_open,  \* the tracker still owns frame_tx
  frames,       \* bcast's buffer: every event of the job so far
  frame_rx_ok,  \* bcast still selects on frame_rx
  relays,       \* the clients whose FrameRelay bcast still holds
  req_rx,       \* FrameRequests in flight, as the clients that sent them
  relay,        \* relay[c]: the relay task started for client c
  inbox,        \* inbox[c]: the broadcaster -> relay channel
  pending,      \* pending[c]: to_send followed by the relay's local deque
  out,          \* out[c]: the relay -> client channel
  call,         \* call[c]: where the logs() call of c is
  got           \* got[c]: the events c has received

relayVars  == <<relay, inbox, pending>>
bcastVars  == <<frames, frame_rx_ok, relays>>
sourceVars == <<source, source_open>>
clientVars == <<call, got>>
vars == <<sourceVars, bcastVars, req_rx, relayVars, out, clientVars>>

TypeOK ==
  /\ source \in Seq(Events)
  /\ Len(source) <= SourceCap
  /\ source_open \in BOOLEAN
  /\ frames \in Seq(Events)
  /\ frame_rx_ok \in BOOLEAN
  /\ relays \in SUBSET Clients
  /\ req_rx \in Seq(Clients)
  /\ Len(req_rx) <= ReqCap
  /\ relay \in [Clients -> {"none", "running", "draining", "ended"}]
  /\ inbox \in [Clients -> Seq(Events)]
  /\ \A c \in Clients : Len(inbox[c]) <= RelayCap
  /\ pending \in [Clients -> Seq(Events)]
  /\ out \in [Clients -> Seq(Events)]
  /\ \A c \in Clients : Len(out[c]) <= ClientCap
  /\ call \in [Clients -> {"idle", "waiting", "reading", "done", "cut", "gone"}]
  /\ got \in [Clients -> Seq(Events)]

Init ==
  /\ source = <<>>
  /\ source_open = TRUE
  /\ frames = <<>>
  /\ frame_rx_ok = TRUE
  /\ relays = {}
  /\ req_rx = <<>>
  /\ relay = [c \in Clients |-> "none"]
  /\ inbox = [c \in Clients |-> <<>>]
  /\ pending = [c \in Clients |-> <<>>]
  /\ out = [c \in Clients |-> <<>>]
  /\ call = [c \in Clients |-> "idle"]
  /\ got = [c \in Clients |-> <<>>]

-----------------------------------------------------------------------------
(* The job tracker, as far as the broadcaster sees it.                     *)

Emitted == frames \o source
Terminated(log) == \E i \in DOMAIN log : log[i] \in Terminals

(* Nothing follows a terminal event.  Faulty: the tracker reads on after   *)
(* an error.                                                               *)
MayEmitAnything(e) == Len(Emitted) <= MaxFrames
MayEmit(e) == /\ ~Terminated(Emitted)
              /\ e \in Frames => Len(Emitted) < MaxFrames

(* JobTracker::wait sends a frame, or its one terminal event at the end.   *)
TrackerSend(e) ==
  /\ source_open
  /\ Len(source) < SourceCap
  /\ MayEmit(e)
  /\ source' = Append(source, e)
  /\ UNCHANGED <<source_open, bcastVars, req_rx, relayVars, out, clientVars>>

(* JobTracker::wait returns, right after its terminal event: frame_tx is   *)
(* dropped.                                                                *)
TrackerEnd ==
  /\ source_open
  /\ Terminated(Emitted)
  /\ source_open' = FALSE
  /\ UNCHANGED <<source, bcastVars, req_rx, relayVars, out, clientVars>>

-----------------------------------------------------------------------------
(* The select loop of bcast.  bcast owns a clone of its own request        *)
(* sender, so req_rx never closes and the loop never ends.                 *)

(* try_send succeeds: the relay's receiver is alive and has room.          *)
Accepts(c) == /\ relay[c] # "ended"
              /\ Len(inbox[c]) < RelayCap

(* The relays that accept an event.  Faulty: all are retained.             *)
KeepAll == relays
Keep == {c \in relays : Accepts(c)}

(* A new event: offer it to every relay, forget those that did not take    *)
(* it, and buffer it for later requests.                                   *)
TakeFrame ==
  /\ frame_rx_ok
  /\ source # <<>>
  /\ relays' = Keep
  /\ inbox' = [c \in Clients |-> IF c \in relays /\ Accepts(c)
                                 THEN Append(inbox[c], Head(source))
                                 ELSE inbox[c]]
  /\ frames' = Append(frames, Head(source))
  /\ source' = Tail(source)
  /\ UNCHANGED <<source_open, frame_rx_ok, req_rx, relay, pending, out, clientVars>>

(* The tracker is gone: drop all relays.                                   *)
SourceEnds ==
  /\ frame_rx_ok
  /\ source = <<>>
  /\ ~source_open
  /\ frame_rx_ok' = FALSE
  /\ relays' = {}
  /\ UNCHANGED <<sourceVars, frames, req_rx, relayVars, out, clientVars>>

(* The receiver is still wanted.  Faulty: nobody is served after the end;  *)
(* whether the send of the receiver failed is not looked at.               *)
IsWaitingEarly(c) == call[c] = "waiting" /\ frame_rx_ok
IsWaitingAlways(c) == TRUE
IsWaiting(c) == call[c] = "waiting"

(* What a new relay starts with.  Faulty: only what is to come.            *)
NoReplay == <<>>
Replay == frames

(* bcast tracks a relay while more frames may come.  Faulty: never, or     *)
(* even when none will come.                                               *)
Untracked(c) == relays
TrackedAlways(c) == relays \union {c}
Tracked(c) == IF frame_rx_ok THEN relays \union {c} ELSE relays

(* A FrameRequest: hand the receiver to the caller and start a relay with  *)
(* a snapshot of the buffer.  A caller that is gone gets no relay, and the *)
(* relay is only remembered while more frames may come.                    *)
ServeRequest ==
  /\ req_rx # <<>>
  /\ req_rx' = Tail(req_rx)
  /\ LET c == Head(req_rx) IN
       IF IsWaiting(c)
       THEN /\ relay' = [relay EXCEPT ![c] = "running"]
            /\ pending' = [pending EXCEPT ![c] = Replay]
            /\ relays' = Tracked(c)
       ELSE UNCHANGED <<relay, pending, relays>>
  /\ UNCHANGED <<sourceVars, frames, frame_rx_ok, inbox, out, clientVars>>

-----------------------------------------------------------------------------
(* FrameRelay::relay.                                                      *)

(* The client's receiver exists: in the oneshot, or in the client's hands. *)
ReceiverOpen(c) == call[c] \in {"waiting", "reading"}

(* No sender of the relay's inbox is left.  Faulty: one always is.         *)
NeverClosed(c) == FALSE
InboxClosed(c) == /\ c \notin relays
                  /\ ~RelayKeepsSender

(* select: an event of the broadcaster wins.  The send it was racing with  *)
(* is cancelled, and its event stays at the head of pending.               *)
RelayReceive(c) ==
  /\ relay[c] = "running"
  /\ inbox[c] # <<>>
  /\ pending' = [pending EXCEPT ![c] = Append(@, Head(inbox[c]))]
  /\ inbox' = [inbox EXCEPT ![c] = Tail(@)]
  /\ UNCHANGED <<sourceVars, bcastVars, req_rx, relay, out, clientVars>>

(* select: recv() returns None.                                            *)
RelayClosed(c) ==
  /\ relay[c] = "running"
  /\ inbox[c] = <<>>
  /\ InboxClosed(c)
  /\ relay' = [relay EXCEPT ![c] = "draining"]
  /\ UNCHANGED <<sourceVars, bcastVars, req_rx, inbox, pending, out, clientVars>>

(* select: the send to the client wins.                                    *)
RelaySend(c) ==
  /\ relay[c] = "running"
  /\ pending[c] # <<>>
  /\ ReceiverOpen(c)
  /\ Len(out[c]) < ClientCap
  /\ out' = [out EXCEPT ![c] = Append(@, Head(pending[c]))]
  /\ pending' = [pending EXCEPT ![c] = Tail(@)]
  /\ UNCHANGED <<sourceVars, bcastVars, req_rx, relay, inbox, clientVars>>

(* select: the send fails because the client is gone.  The task ends and   *)
(* its queues with it.                                                     *)
RelaySendFails(c) ==
  /\ relay[c] = "running"
  /\ pending[c] # <<>>
  /\ ~ReceiverOpen(c)
  /\ relay' = [relay EXCEPT ![c] = "ended"]
  /\ inbox' = [inbox EXCEPT ![c] = <<>>]
  /\ pending' = [pending EXCEPT ![c] = <<>>]
  /\ UNCHANGED <<sourceVars, bcastVars, req_rx, out, clientVars>>

(* After the loop: send what is left, without minding failures.            *)
RelayDrain(c) ==
  /\ relay[c] = "draining"
  /\ pending[c] # <<>>
  /\ pending' = [pending EXCEPT ![c] = Tail(@)]
  /\ IF ReceiverOpen(c)
     THEN /\ Len(out[c]) < ClientCap
          /\ out' = [out EXCEPT ![c] = Append(@, Head(pending[c]))]
     ELSE UNCHANGED out
  /\ UNCHANGED <<sourceVars, bcastVars, req_rx, relay, inbox, clientVars>>

(* The drained task returns: frame_tx to the client is dropped.            *)
RelayEnd(c) ==
  /\ relay[c] = "draining"
  /\ pending[c] = <<>>
  /\ relay' = [relay EXCEPT ![c] = "ended"]
  /\ UNCHANGED <<sourceVars, bcastVars, req_rx, inbox, pending, out, clientVars>>

-----------------------------------------------------------------------------
(* The caller: FrameBroadcaster::stream, then GrpcStoreImpl::logs.         *)

(* stream() gets its FrameRequest into the channel.                        *)
Ask(c) ==
  /\ call[c] = "idle"
  /\ Len(req_rx) < ReqCap
  /\ req_rx' = Append(req_rx, c)
  /\ call' = [call EXCEPT ![c] = "waiting"]
  /\ UNCHANGED <<sourceVars, bcastVars, relayVars, out, got>>

(* The oneshot delivers the receiver.                                      *)
TakeStream(c) ==
  /\ call[c] = "waiting"
  /\ relay[c] # "none"
  /\ call' = [call EXCEPT ![c] = "reading"]
  /\ UNCHANGED <<sourceVars, bcastVars, req_rx, relayVars, out, got>>

(* The one-second timeout of stream(), or, once the forwarding loop has a   *)
(* frame in hand, a send to the connection that fails: the receiver is     *)
(* dropped with what is in it.  A loop that waits for its first frame does *)
(* not notice that the connection is gone.                                 *)
GiveUp(c) ==
  /\ \/ call[c] = "waiting"
     \/ call[c] = "reading" /\ got[c] # <<>>
  /\ call' = [call EXCEPT ![c] = "gone"]
  /\ out' = [out EXCEPT ![c] = <<>>]
  /\ UNCHANGED <<sourceVars, bcastVars, req_rx, relayVars, got>>

(* The forwarding loop receives an event; a terminal one ends it and drops *)
(* the receiver.                                                           *)
Read(c) ==
  /\ call[c] = "reading"
  /\ out[c] # <<>>
  /\ got' = [got EXCEPT ![c] = Append(@, Head(out[c]))]
  /\ IF Head(out[c]) \in Terminals
     THEN /\ call' = [call EXCEPT ![c] = "done"]
          /\ out' = [out EXCEPT ![c] = <<>>]
     ELSE /\ out' = [out EXCEPT ![c] = Tail(@)]
          /\ UNCHANGED call
  /\ UNCHANGED <<sourceVars, bcastVars, req_rx, relayVars>>

(* The forwarding loop receives None before a terminal event: "log stream  *)
(* terminated unexpectedly".                                               *)
ReadCut(c) ==
  /\ call[c] = "reading"
  /\ out[c] = <<>>
  /\ relay[c] = "ended"
  /\ call' = [call EXCEPT ![c] = "cut"]
  /\ UNCHANGED <<sourceVars, bcastVars, req_rx, relayVars, out, got>>

-----------------------------------------------------------------------------
Relay(c) == \/ RelayReceive(c) \/ RelayClosed(c)
            \/ RelaySend(c)    \/ RelaySendFails(c)
            \/ RelayDrain(c)   \/ RelayEnd(c)

Client(c) == Ask(c) \/ TakeStream(c) \/ GiveUp(c) \/ Read(c) \/ ReadCut(c)

Next == \/ \E e \in Events : TrackerSend(e)
        \/ TrackerEnd
        \/ TakeFrame
        \/ SourceEnds
        \/ ServeRequest
        \/ \E c \in Clients : Relay(c) \/ Client(c)

Spec == Init /\ [][Next]_vars

(* A spawned task runs whenever it can, and select! polls its branches in  *)
(* random order, so a branch that stays ready is taken.  Nothing makes the *)
(* job end, a caller ask, or a client give up.                             *)
Fairness ==
  /\ WF_vars(TrackerEnd)
  /\ WF_vars(TakeFrame)
  /\ WF_vars(SourceEnds)
  /\ WF_vars(ServeRequest)
  /\ \A c \in Clients :
       /\ WF_vars(RelayReceive(c))
       /\ WF_vars(RelayClosed(c))
       /\ WF_vars(RelaySend(c) \/ RelaySendFails(c))
       /\ WF_vars(RelayDrain(c) \/ RelayEnd(c))
       /\ WF_vars(TakeStream(c))
       /\ WF_vars(Read(c) \/ ReadCut(c))

FairSpec == Spec /\ Fairness

-----------------------------------------------------------------------------
(* Safety.                                                                 *)

(* The events client c has received or will still be offered.              *)
Delivery(c) == got[c] \o (out[c] \o (pending[c] \o inbox[c]))

(* What a logs() client has received is always a prefix of the job's log:  *)
(* a relay that starts late replays the buffer (FrameRelay::start) and the *)
(* events accepted meanwhile follow with no gap, repetition or reordering, *)
(* whichever select branch wins.                                           *)
StreamIsPrefix == \A c \in Clients : IsPrefix(got[c], frames)

(* As long as bcast holds a relay whose client listens, the events the     *)
(* client has received and those queued for it in the three queues on the  *)
(* way are exactly the log: the snapshot and the hand-over of `relays` in  *)
(* bcast leave no window in which an event is lost.                        *)
NothingLostInFlight ==
  \A c \in relays : ReceiverOpen(c) => Delivery(c) = frames

(* A client whose stream ended with EOF or Error has received the complete *)
(* log, and the log can no longer grow behind its back.                    *)
DoneMeansComplete ==
  \A c \in Clients : call[c] = "done" => got[c] = Emitted

(* bcast forgets the relay of a client that listens for two reasons only:  *)
(* the job is over, and then the client gets the complete log, or the      *)
(* relay's inbox was full, and then the client still gets at least what    *)
(* the inbox holds.  A client that hangs for a dropped relay has seen, or  *)
(* will see, that much.                                                    *)
ForgottenOnlyByOverflow ==
  \A c \in Clients :
    ReceiverOpen(c) /\ relay[c] # "none" /\ c \notin relays =>
      \/ ~frame_rx_ok /\ Delivery(c) = frames
      \/ RelayCap <= Len(Delivery(c)) /\ Len(Delivery(c)) < Len(frames)

(* A client is told that its stream broke off ("log stream terminated      *)
(* unexpectedly") only after bcast dropped its relay for a full inbox, for *)
(* which the job must have logged more events than the inbox holds:        *)
(* dropping the relays at the end of the job cuts no stream short.  It     *)
(* matters for relays that end, RelayKeepsSender = FALSE; with those of    *)
(* the code nobody is cut, a client left behind waits for ever.            *)
CutOnlyByOverflow ==
  \A c \in Clients : call[c] = "cut" => Len(frames) > RelayCap

(* What makes them inductive (BroadcasterProofs.tla).                      *)

(* A terminal event is the last one of the log, the tracker only leaves    *)
(* after it, and bcast only forgets the tracker once it has everything.    *)
LogIsSealed ==
  /\ \A i \in DOMAIN Emitted : Emitted[i] \in Terminals => i = Len(Emitted)
  /\ ~source_open => Terminated(Emitted)
  /\ ~frame_rx_ok => source = <<>> /\ ~source_open /\ relays = {}

(* A request in flight is the only trace of its call.                      *)
RequestsAreFresh ==
  /\ \A i \in DOMAIN req_rx : /\ relay[req_rx[i]] = "none"
                             /\ call[req_rx[i]] \in {"waiting", "gone"}
  /\ \A i, j \in DOMAIN req_rx : req_rx[i] = req_rx[j] => i = j

(* Where the two ends of a stream are, and which of its queues are in use. *)
StreamState(c) ==
  /\ relay[c] = "none" => /\ call[c] \in {"idle", "waiting", "gone"}
                          /\ c \notin relays
                          /\ got[c] = <<>>
                          /\ pending[c] = <<>>
                          /\ inbox[c] = <<>>
  /\ call[c] = "idle" => relay[c] = "none"
  /\ relay[c] = "draining" => c \notin relays /\ inbox[c] = <<>>
  /\ relay[c] = "ended" => pending[c] = <<>> /\ inbox[c] = <<>>
  /\ ~ReceiverOpen(c) \/ relay[c] = "none" => out[c] = <<>>
  /\ call[c] = "done" => Terminated(got[c])

(* A listening client is on its way to a prefix of the log, and to all of  *)
(* it while bcast holds its relay.                                         *)
DeliveryInOrder(c) ==
  /\ IsPrefix(got[c], frames)
  /\ ReceiverOpen(c) => IsPrefix(Delivery(c), frames)
  /\ ReceiverOpen(c) /\ c \in relays => Delivery(c) = frames

DeliveryInv ==
  /\ LogIsSealed
  /\ RequestsAreFresh
  /\ \A c \in Clients : StreamState(c) /\ DeliveryInOrder(c)

(* How far a client is behind.  For that the lengths of its queues are     *)
(* enough, since DeliveryInOrder says what is in them.                     *)
Held(c) == Len(got[c]) + Len(out[c]) + Len(pending[c]) + Len(inbox[c])

(* A client whose relay is forgotten is up to date with a log that is      *)
(* complete, or behind with at least a full inbox.                         *)
Forgotten(c) ==
  ReceiverOpen(c) /\ relay[c] # "none" /\ c \notin relays =>
    \/ ~frame_rx_ok /\ Held(c) = Len(frames)
    \/ RelayCap <= Held(c) /\ Held(c) < Len(frames)

(* Where a call of stream() is.                                            *)
CallState(c) ==
  /\ relay[c] = "ended" /\ ReceiverOpen(c) => c \notin relays
  /\ call[c] = "waiting" => got[c] = <<>>
  /\ call[c] = "reading" => ~Terminated(got[c])
  /\ call[c] = "cut" => Len(frames) > RelayCap

LagInv == \A c \in Clients : Forgotten(c) /\ CallState(c)

(* With the types: what every step preserves.                              *)
IndInv == TypeOK /\ DeliveryInv /\ LagInv

(* The broadcaster implements the log API's promise: a relay is the reader *)
(* that a caller is given.  Besides the order of the events it says that a *)
(* relay is started only for a caller that still waits when its request is *)
(* served, and once, whenever the caller gives up (FrameRelay::start).     *)
Promise == INSTANCE LogStream WITH
             log <- frames, seen <- got,
             served <- {c \in Clients : relay[c] # "none"}
ImplementsLogStream == Promise!Spec

-----------------------------------------------------------------------------
(* Liveness.                                                               *)

(* Every logs() request the broadcaster has received is answered.          *)
RequestsAreAnswered ==
  \A c \in Clients : call[c] = "waiting" ~> call[c] # "waiting"

(* After the job is over no relay task outlives the client it serves       *)
(* (src/proc/coord.rs:498 "existing frame relays will be dropped").        *)
RelaysWindDown ==
  \A c \in Clients :
    (~frame_rx_ok /\ relay[c] # "none" /\ ~ReceiverOpen(c)) ~> relay[c] = "ended"
==============================================================================
