----------------------------- MODULE JobPipeline -----------------------------
(***************************************************************************)
(* One job from its child process to the callers of logs(): the tracker of *)
(* Tracker.tla and the broadcaster of Broadcaster.tla, joined by the       *)
(* channel that JobTracker::track creates between them.                    *)
(*                                                                         *)
(* Each of the two modules assumes something of the other side of that     *)
(* channel: Broadcaster.tla has a tracker that ends its log once, and      *)
(* Tracker.tla a broadcaster that takes every event.  Here both sides are  *)
(* the code, and what they assume of each other is shown.                  *)
(***************************************************************************)
EXTENDS Tracker, FiniteSets

CONSTANTS
  Clients,     \* calls of logs()
  ReqCap,      \* capacity of the FrameRequest channel (1)
  RelayCap,    \* capacity of a broadcaster -> relay channel (1024)
  ClientCap    \* capacity of a relay -> client channel (1024)

ASSUME JobBoundsAssumption == /\ IsFiniteSet(Streams)
                              /\ ReqCap \in Nat \ {0}
                              /\ RelayCap \in Nat \ {0}
                              /\ ClientCap \in Nat \ {0}

VARIABLES frame_rx_ok, relays, req_rx, relay, inbox, pending, out, call, got

(* track() moves frame_tx into wait(), which drops it when it returns.     *)
B == INSTANCE Broadcaster WITH
       Frames <- Chunks,
       MaxFrames <- Cardinality(Chunks),
       RelayKeepsSender <- TRUE,
       source_open <- Alive

trackerVars == <<osVars, pumpVars, loopVars, killVars, job>>
bcastVars == <<frame_rx_ok, relays, req_rx, relay, inbox, pending, out, call, got>>
jobVars == <<vars, bcastVars>>

(* JobTracker::track.                                                      *)
JobInit == Init /\ B!Init

TrackerActs ==
  /\ \/ OS
     \/ \E s \in Streams : Pump(s)
     \/ Wait
     \/ \E k \in Killers : Kill(k)
  /\ UNCHANGED bcastVars

BcastActs ==
  /\ UNCHANGED trackerVars
  /\ \/ B!TakeFrame \/ B!SourceEnds \/ B!ServeRequest
     \/ \E c \in Clients : B!Relay(c) \/ B!Client(c)

JobNext == TrackerActs \/ BcastActs

JobSpec == JobInit /\ [][JobNext]_jobVars

(* The fairness of both modules; nothing is assumed of the tracker any     *)
(* more but that its tasks run.                                            *)
JobFairness ==
  /\ Fairness
  /\ WF_jobVars(UNCHANGED trackerVars /\ B!SourceEnds)
  /\ WF_jobVars(UNCHANGED trackerVars /\ B!ServeRequest)
  /\ \A c \in Clients :
       /\ WF_jobVars(UNCHANGED trackerVars /\ B!RelayReceive(c))
       /\ WF_jobVars(UNCHANGED trackerVars /\ (B!RelaySend(c) \/ B!RelaySendFails(c)))
       /\ WF_jobVars(UNCHANGED trackerVars /\ B!TakeStream(c))
       /\ WF_jobVars(UNCHANGED trackerVars /\ B!Read(c))

FairJobSpec == JobSpec /\ JobFairness

-----------------------------------------------------------------------------
(* The tracker is the tracker that the broadcaster was checked with, and   *)
(* the broadcaster the one the tracker was checked with: one terminal      *)
(* event, no frame after it, and no end of the channel before it; every    *)
(* event taken once and in order.                                          *)
ImplementsBroadcaster == B!Spec
ImplementsTracker == Spec

(* From the write of a process to the read of a client: a stream that      *)
(* ended with EOF contained every chunk that any process ever wrote to     *)
(* stdout and stderr, each once and in the order of its writing, and the   *)
(* job is over, with nobody left who could write more.                     *)
EOFMeansWholeOutput ==
  \A c \in Clients :
    call[c] = "done" /\ got[c][Len(got[c])] = EOF =>
      /\ \A s \in Streams : \A n \in 1..written[s] : \E i \in DOMAIN got[c] : got[c][i] = <<s, n>>
      /\ \A i, j \in DOMAIN got[c], s \in Streams, m, n \in 1..MaxChunks :
           i < j /\ got[c][i] = <<s, m>> /\ got[c][j] = <<s, n>> => m < n
      /\ writers = {}
      /\ job.state = "exited"

(* What a client has received of a stream is at any time a prefix of what  *)
(* was written to it: whoever has the nth chunk has received the n - 1     *)
(* before it, earlier, and no other; no channel on the way and no select   *)
(* between them drops a chunk and goes on with the next.                   *)
ReadersSeeWhatWasWritten ==
  \A c \in Clients, s \in Streams, n \in 1..MaxChunks :
    \A i \in DOMAIN got[c] : got[c][i] = <<s, n>> =>
      /\ n <= written[s]
      /\ \A m \in 1..MaxChunks : m < n <=> \E j \in 1..(i - 1) : got[c][j] = <<s, m>>

(* A logs() call is answered at any time in the life of its job: between   *)
(* two frames, while output floods in, after everything is over.           *)
RequestsAreAnswered == B!RequestsAreAnswered

(* bcast has forgotten the relay of a client that reads, and what is on    *)
(* its way to the client is not all of the log: the inbox was full when    *)
(* an event came (ForgottenOnlyByOverflow), and no later event gets in.    *)
LeftBehind(c) == /\ call[c] = "reading"
                 /\ c \notin relays
                 /\ Len(B!Delivery(c)) < Len(frames)

(* Once the child has exited and every write end is closed, a client that  *)
(* keeps reading reaches the end of its stream, and no task on the way     *)
(* from the pipe to the client waits for another for ever.  The one        *)
(* exception is a client that could not keep up: its relay is forgotten    *)
(* for a full inbox, but does not end, so the client waits for ever (the   *)
(* stream never ends for it), after it got everything that was queued.     *)
OutputReachesReaders ==
  \A c \in Clients :
    (proc # "running" /\ writers = {} /\ call[c] = "reading")
      ~> (call[c] # "reading" \/ (LeftBehind(c) /\ got[c] = B!Delivery(c)))
==============================================================================
