-------------------------- MODULE JobPipelineProofs --------------------------
(***************************************************************************)
(* Theorems about JobPipeline.tla, for any streams, callers, amount of     *)
(* output and capacities, with or without faults.                          *)
(*                                                                         *)
(* The tracker and the broadcaster were proved correct one by one.  What   *)
(* is left is that the job they form together is a behaviour of each of    *)
(* the two modules; the theorems of both then hold of it, and meet in the  *)
(* log they share.                                                         *)
(***************************************************************************)
EXTENDS JobPipeline, TrackerProofs, FiniteSetTheorems

(* The broadcaster of the job, with what is proved about it.               *)
BP == INSTANCE BroadcasterProofs WITH
        Frames <- Chunks,
        MaxFrames <- Cardinality(Chunks),
        RelayKeepsSender <- TRUE,
        source_open <- Alive

LEMMA ChunksAreFinite == IsFiniteSet(Chunks) /\ Cardinality(Chunks) \in Nat
  <1>1. IsFiniteSet(1..MaxChunks)
    BY BoundsAssumption, FS_Interval
  <1>2. IsFiniteSet(Chunks)
    BY <1>1, JobBoundsAssumption, FS_Product DEF Chunks
  <1> QED
    BY <1>2, FS_CardinalityType

(* What Broadcaster.tla assumes of its constants.                          *)
LEMMA BroadcasterEvents == BP!EventsAssumption
  BY NamesAssumption DEF BP!EventsAssumption, BP!Terminals

LEMMA BroadcasterBounds == BP!BoundsAssumption
  BY BoundsAssumption, JobBoundsAssumption, ChunksAreFinite DEF BP!BoundsAssumption

-----------------------------------------------------------------------------
(* The job is a tracker whose events are taken.                            *)
LEMMA JobStepsTrack == [JobNext]_jobVars => [Next]_vars
  <1> SUFFICES ASSUME [JobNext]_jobVars PROVE [Next]_vars
    OBVIOUS
  <1>1. CASE TrackerActs
    BY <1>1 DEF TrackerActs, Next
  <1>2. CASE BcastActs
    <2>1. UNCHANGED <<osVars, pumpVars, loopVars, killVars, job>>
      BY <1>2 DEF BcastActs, trackerVars
    <2>2. CASE B!TakeFrame
      BY <2>1, <2>2 DEF B!TakeFrame, TakeFrame, Next
    <2>3. CASE B!SourceEnds \/ B!ServeRequest
      BY <2>1, <2>3 DEF B!SourceEnds, B!ServeRequest, B!sourceVars, vars, streamVars
    <2>4. ASSUME NEW c \in Clients, B!Relay(c) PROVE [Next]_vars
      BY <2>1, <2>4 DEF B!Relay, B!RelayReceive, B!RelayClosed, B!RelaySend, B!RelaySendFails,
                        B!RelayDrain, B!RelayEnd, B!sourceVars, B!bcastVars, vars, streamVars
    <2>5. ASSUME NEW c \in Clients, B!Client(c) PROVE [Next]_vars
      BY <2>1, <2>5 DEF B!Client, B!Ask, B!TakeStream, B!GiveUp, B!Read, B!ReadCut,
                        B!sourceVars, B!bcastVars, vars, streamVars
    <2> QED
      BY <1>2, <2>2, <2>3, <2>4, <2>5 DEF BcastActs
  <1>3. CASE UNCHANGED jobVars
    BY <1>3 DEF jobVars
  <1> QED
    BY <1>1, <1>2, <1>3 DEF JobNext

(* Nothing the broadcaster does disturbs the tracker.                      *)
THEOREM JobImplementsTracker == JobSpec => ImplementsTracker
  <1>1. JobInit => Init
    BY DEF JobInit
  <1> QED
    BY <1>1, JobStepsTrack, PTL DEF JobSpec, Spec, ImplementsTracker

-----------------------------------------------------------------------------
(* The job is a broadcaster that is fed by a tracker.                      *)

(* The log does not repeat a chunk, so it has room for one that is new.    *)
LEMMA RoomForChunk ==
  ASSUME TypeOK, OutputInOrder, \A i \in DOMAIN Emitted : Emitted[i] \in Chunks,
         NEW e \in Chunks, \A i \in DOMAIN Emitted : Emitted[i] # e
  PROVE  Len(Emitted) < Cardinality(Chunks)
  <1> DEFINE n == Len(Emitted)
             log == [i \in 1..(n + 1) |-> IF i = n + 1 THEN e ELSE Emitted[i]]
  <1>1. n \in Nat /\ DOMAIN Emitted = 1..n
    BY EmittedType
  <1>2. \A i, j \in 1..n : i < j => Emitted[i] # Emitted[j]
    <2> SUFFICES ASSUME NEW i \in 1..n, NEW j \in 1..n, i < j, Emitted[i] = Emitted[j]
                 PROVE  FALSE
      OBVIOUS
    <2>1. PICK s \in Streams, m \in 1..MaxChunks : Emitted[i] = <<s, m>>
      BY <1>1 DEF Chunks
    <2>2. m < m
      BY <1>1, <2>1 DEF OutputInOrder
    <2> QED
      BY <2>2
  <1>3. \A i, j \in 1..n : i # j => Emitted[i] # Emitted[j]
    BY <1>1, <1>2
  <1>4. log \in [1..(n + 1) -> Chunks]
    BY <1>1
  <1>5. \A i, j \in 1..(n + 1) : i # j => log[i] # log[j]
    <2> SUFFICES ASSUME NEW i \in 1..(n + 1), NEW j \in 1..(n + 1), i # j
                 PROVE  log[i] # log[j]
      OBVIOUS
    <2>1. CASE i = n + 1
      BY <1>1, <2>1
    <2>2. CASE j = n + 1
      BY <1>1, <2>2
    <2>3. CASE i # n + 1 /\ j # n + 1
      BY <1>1, <1>3, <2>3
    <2> QED
      BY <2>1, <2>2, <2>3
  <1> HIDE DEF log, n
  <1>6. IsFiniteSet(1..(n + 1)) /\ Cardinality(1..(n + 1)) = n + 1
    BY <1>1, FS_Interval
  <1>7. ~(Cardinality(Chunks) < n + 1)
    BY <1>4, <1>5, <1>6, ChunksAreFinite, FS_PigeonHole
  <1> QED
    BY <1>1, <1>7, ChunksAreFinite DEF n

(* A chunk in the tracker's hand is not in the log yet.                    *)
LEMMA HandIsNew ==
  ASSUME TypeOK, TrackerInv, pc = "sending"
  PROVE  /\ hand \in Chunks
         /\ \A i \in DOMAIN Emitted : Emitted[i] # hand /\ Emitted[i] \in Chunks
  <1>1. hand \in Chunks
    BY DEF TypeOK
  <1>2. PICK s \in Streams, n \in 1..MaxChunks : hand = <<s, n>>
    BY <1>1 DEF Chunks
  <1>3. ~Terminated
    BY DEF TrackerInv, TerminalInv, Looping
  <1>4. \A i \in DOMAIN Emitted : Emitted[i] \in Chunks
    BY <1>3, EmittedType DEF Terminated
  <1>5. \A i \in DOMAIN Emitted : Emitted[i] = <<s, n>> => n < n
    BY <1>2 DEF TrackerInv, OrderInv
  <1> QED
    BY <1>1, <1>2, <1>4, <1>5

(* What the broadcaster sees of the tracker's steps.                       *)
LEMMA TrackerStepsFeed ==
  ASSUME TypeOK, TrackerInv, TrackerActs
  PROVE  [B!Next]_(B!vars)
  <1> USE DEF B!vars, B!bcastVars, B!relayVars, B!clientVars, B!sourceVars, bcastVars
  <1>1. UNCHANGED <<bcastVars, frames>>
    BY DEF TrackerActs, OS, Pump, Wait, Kill, Write, CloseStream, Exit,
           PumpRead, PumpEOF, PumpError, PumpStops, SelectFrame, SelectClosed, Send, SelectKill,
           KillDone, KillFails, SelectWait, WaitFails, EndSend, Return,
           KillStart, KillSend, KillNotRunning, KillGivesUp, streamVars
  <1>2. /\ B!Emitted = Emitted /\ B!Terminals = Terminals /\ B!Events = Chunks \union Terminals
        /\ \A log : B!Terminated(log) <=> \E i \in DOMAIN log : log[i] \in Terminals
    BY DEF B!Emitted, Emitted, B!Terminals, Terminals, B!Events, B!Terminated
  <1>3. CASE Send
    <2>1. /\ hand \in Chunks /\ Len(Emitted) < Cardinality(Chunks)
          /\ \A i \in DOMAIN Emitted : Emitted[i] \in Chunks
      BY <1>3, HandIsNew, RoomForChunk DEF Send, TrackerInv
    <2>2. B!MayEmit(hand)
      BY <1>2, <2>1, NamesAssumption DEF B!MayEmit, Terminals
    <2>3. B!TrackerSend(hand)
      BY <1>1, <1>3, <2>2 DEF Send, B!TrackerSend, Alive
    <2> QED
      BY <1>2, <2>1, <2>3 DEF B!Next
  <1>4. CASE EndSend
    <2> DEFINE e == IF loop_err THEN Err ELSE EOF
    <2>1. e \in Terminals /\ e \notin Chunks
      BY NamesAssumption DEF Terminals
    <2>2. ~Terminated
      BY <1>4 DEF EndSend, TrackerInv, TerminalInv
    <2>3. B!MayEmit(e)
      BY <1>2, <2>1, <2>2 DEF B!MayEmit, Terminated
    <2>4. source \o LastEvents = Append(source, e)
      BY DEF LastEvents, TypeOK
    <2> HIDE DEF e
    <2>5. B!TrackerSend(e)
      BY <1>1, <1>4, <2>3, <2>4 DEF EndSend, B!TrackerSend, Alive
    <2> QED
      BY <1>2, <2>1, <2>5 DEF B!Next
  <1>5. CASE Return
    <2>1. Terminated
      BY <1>5, EmittedType DEF Return, TrackerInv, TerminalInv, Terminated, Terminals
    <2>2. B!TrackerEnd
      BY <1>1, <1>2, <1>5, <2>1 DEF Return, B!TrackerEnd, Terminated, Alive, streamVars
    <2> QED
      BY <2>2 DEF B!Next
  <1>6. CASE ~Send /\ ~EndSend /\ ~Return
    <2>1. source' = source
      BY <1>6 DEF TrackerActs, OS, Pump, Wait, Kill, Write, CloseStream, Exit,
             PumpRead, PumpEOF, PumpError, PumpStops, SelectFrame, SelectClosed, SelectKill,
             KillDone, KillFails, SelectWait, WaitFails,
             KillStart, KillSend, KillNotRunning, KillGivesUp, streamVars
    <2>2. Alive' = Alive
      BY <1>6 DEF TrackerActs, OS, Pump, Wait, Kill, Write, CloseStream, Exit,
             PumpRead, PumpEOF, PumpError, PumpStops, SelectFrame, SelectClosed, SelectKill,
             KillDone, KillFails, SelectWait, WaitFails, LoopTop,
             KillStart, KillSend, KillNotRunning, KillGivesUp, loopVars, Alive
    <2> QED
      BY <1>1, <2>1, <2>2
  <1> QED
    BY <1>3, <1>4, <1>5, <1>6

LEMMA JobStepsBroadcast ==
  TypeOK /\ TrackerInv /\ [JobNext]_jobVars => [B!Next]_(B!vars)
  <1> SUFFICES ASSUME TypeOK, TrackerInv, [JobNext]_jobVars
               PROVE  [B!Next]_(B!vars)
    OBVIOUS
  <1>1. CASE TrackerActs
    BY <1>1, TrackerStepsFeed
  <1>2. CASE BcastActs
    BY <1>2 DEF BcastActs, B!Next
  <1>3. CASE UNCHANGED jobVars
    BY <1>3 DEF jobVars, vars, bcastVars, loopVars, streamVars, Alive,
                B!vars, B!bcastVars, B!relayVars, B!clientVars, B!sourceVars
  <1> QED
    BY <1>1, <1>2, <1>3 DEF JobNext

(* wait() feeds the broadcaster as it expects: one terminal event, nothing *)
(* after it, and no end of the channel before it.                          *)
THEOREM JobImplementsBroadcaster == JobSpec => ImplementsBroadcaster
  <1>1. JobInit => B!Init
    BY DEF JobInit
  <1>2. JobSpec => [](TypeOK /\ TrackerInv)
    BY JobImplementsTracker, TrackerInvariant, PTL DEF ImplementsTracker, IndInv
  <1> QED
    BY <1>1, <1>2, JobStepsBroadcast, PTL DEF JobSpec, B!Spec, ImplementsBroadcaster

-----------------------------------------------------------------------------
(* What is proved of Broadcaster.tla holds of the job: B and BP name the   *)
(* same operators.                                                         *)
LEMMA SameBroadcaster == B!Spec <=> BP!Spec
  <1>1. B!Init <=> BP!Init
    BY DEF B!Init, BP!Init
  <1>2. [B!Next]_(B!vars) <=> [BP!Next]_(BP!vars)
    BY DEF B!Next, BP!Next, B!vars, BP!vars,
           B!sourceVars, BP!sourceVars, B!bcastVars, BP!bcastVars,
           B!relayVars, BP!relayVars, B!clientVars, BP!clientVars,
           B!Events, BP!Events, B!Terminals, BP!Terminals,
           B!Emitted, BP!Emitted, B!Terminated, BP!Terminated,
           B!TrackerSend, BP!TrackerSend, B!TrackerEnd, BP!TrackerEnd, B!MayEmit, BP!MayEmit,
           B!TakeFrame, BP!TakeFrame, B!SourceEnds, BP!SourceEnds,
           B!ServeRequest, BP!ServeRequest, B!Accepts, BP!Accepts, B!Keep, BP!Keep,
           B!IsWaiting, BP!IsWaiting, B!Replay, BP!Replay, B!Tracked, BP!Tracked,
           B!Relay, BP!Relay, B!RelayReceive, BP!RelayReceive, B!RelayClosed, BP!RelayClosed,
           B!InboxClosed, BP!InboxClosed, B!ReceiverOpen, BP!ReceiverOpen,
           B!RelaySend, BP!RelaySend, B!RelaySendFails, BP!RelaySendFails,
           B!RelayDrain, BP!RelayDrain, B!RelayEnd, BP!RelayEnd,
           B!Client, BP!Client, B!Ask, BP!Ask, B!TakeStream, BP!TakeStream,
           B!GiveUp, BP!GiveUp, B!Read, BP!Read, B!ReadCut, BP!ReadCut
  <1> QED
    BY <1>1, <1>2, PTL DEF B!Spec, BP!Spec

LEMMA JobBroadcasts == JobSpec => BP!Spec
  BY JobImplementsBroadcaster, SameBroadcaster, PTL DEF ImplementsBroadcaster

LEMMA JobInvariant ==
  JobSpec => [](/\ IndInv /\ EOFMeansComplete
                /\ BP!TypeOK /\ BP!DeliveryInv /\ BP!DoneMeansComplete /\ BP!StreamIsPrefix)
  <1>1. JobSpec => [](IndInv /\ EOFMeansComplete)
    BY JobImplementsTracker, TrackerInvariant, EOFIsComplete, PTL DEF ImplementsTracker
  <1>2. BP!Spec => [](BP!TypeOK /\ BP!DeliveryInv)
    BY BP!DeliveryInvariant, BroadcasterEvents, BroadcasterBounds
  <1>3. BP!Spec => []BP!DoneMeansComplete
    BY BP!DoneIsComplete, BroadcasterEvents, BroadcasterBounds
  <1>4. BP!Spec => []BP!StreamIsPrefix
    BY BP!StreamsArePrefixes, BroadcasterEvents, BroadcasterBounds
  <1> QED
    BY <1>1, <1>2, <1>3, <1>4, JobBroadcasts, PTL

(* A client whose log stream ended with EOF has read every byte that any   *)
(* process wrote to the pipes of the job, in order, and the job is over.   *)
THEOREM WholeOutputIsRead == JobSpec => []EOFMeansWholeOutput
  <1>1. IndInv /\ EOFMeansComplete /\ BP!TypeOK /\ BP!DeliveryInv /\ BP!DoneMeansComplete
        => EOFMeansWholeOutput
    <2> SUFFICES ASSUME IndInv, EOFMeansComplete,
                        BP!TypeOK, BP!DeliveryInv, BP!DoneMeansComplete,
                        NEW c \in Clients, call[c] = "done", got[c][Len(got[c])] = EOF
                 PROVE  /\ \A s \in Streams : \A n \in 1..written[s] :
                             \E i \in DOMAIN got[c] : got[c][i] = <<s, n>>
                        /\ \A i, j \in DOMAIN got[c], s \in Streams, m, n \in 1..MaxChunks :
                             i < j /\ got[c][i] = <<s, m>> /\ got[c][j] = <<s, n>> => m < n
                        /\ writers = {} /\ job.state = "exited"
      BY DEF EOFMeansWholeOutput
    <2>1. got[c] = Emitted
      BY DEF BP!DoneMeansComplete, BP!Emitted, Emitted
    <2>2. got[c] \in Seq(BP!Events) /\ \E i \in DOMAIN got[c] : got[c][i] \in BP!Terminals
      BY DEF BP!TypeOK, BP!DeliveryInv, BP!StreamState, BP!Terminated
    <2>3. Len(got[c]) \in DOMAIN got[c]
      BY <2>2
    <2>4. IsLogged(EOF)
      BY <2>1, <2>3 DEF IsLogged
    <2>5. /\ job.state = "exited" /\ writers = {}
          /\ \A s \in Streams : \A n \in 1..written[s] : IsLogged(<<s, n>>)
      BY <2>4 DEF EOFMeansComplete
    <2> QED
      BY <2>1, <2>5 DEF IsLogged, OutputInOrder, IndInv, TrackerInv
  <1> QED
    BY <1>1, JobInvariant, PTL

(* What a client has received of a stream is at any time a prefix of what  *)
(* was written to it, whatever happens to tracker, relay and connection.   *)
THEOREM PrefixOfOutputIsRead == JobSpec => []ReadersSeeWhatWasWritten
  <1>1. IndInv /\ BP!TypeOK /\ BP!StreamIsPrefix => ReadersSeeWhatWasWritten
    <2> SUFFICES ASSUME IndInv, BP!TypeOK, BP!StreamIsPrefix,
                        NEW c \in Clients, NEW s \in Streams, NEW n \in 1..MaxChunks,
                        NEW i \in DOMAIN got[c], got[c][i] = <<s, n>>
                 PROVE  /\ n <= written[s]
                        /\ \A m \in 1..MaxChunks :
                             m < n <=> \E j \in 1..(i - 1) : got[c][j] = <<s, m>>
      BY DEF ReadersSeeWhatWasWritten
    <2>1. /\ got[c] \in Seq(BP!Events) /\ frames \in Seq(Chunks \union Terminals)
          /\ source \in Seq(Chunks \union Terminals)
      BY DEF BP!TypeOK, IndInv, TypeOK
    <2>2. /\ DOMAIN got[c] = 1..Len(got[c]) /\ Len(got[c]) <= Len(Emitted)
          /\ DOMAIN Emitted = 1..Len(Emitted) /\ Len(Emitted) \in Nat /\ Len(got[c]) \in Nat
          /\ \A j \in 1..Len(got[c]) : got[c][j] = Emitted[j]
      <3>1. BP!IsPrefix(got[c], frames)
        BY DEF BP!StreamIsPrefix
      <3>2. Len(got[c]) <= Len(frames) /\ \A j \in 1..Len(got[c]) : got[c][j] = frames[j]
        BY <2>1, <3>1 DEF BP!IsPrefix
      <3> QED
        BY <2>1, <3>2 DEF Emitted
    <2>3. i \in DOMAIN Emitted /\ Emitted[i] = <<s, n>>
      BY <2>2
    <2>4. /\ Ordered /\ Gapless /\ OrderInv(s)
          /\ read[s] \in Nat /\ written[s] \in Nat /\ read[s] <= written[s]
      BY OutputParts, BoundsAssumption DEF IndInv, TrackerInv, TypeOK
    <2>5. n <= read[s]
      BY <2>3, <2>4 DEF OrderInv
    <2>6. ASSUME NEW m \in 1..MaxChunks, m < n
          PROVE  \E j \in 1..(i - 1) : got[c][j] = <<s, m>>
      <3>1. PICK j \in DOMAIN Emitted : Emitted[j] = <<s, m>>
        BY <2>3, <2>4, <2>6 DEF Gapless, IsLogged
      <3>2. ~(i < j) /\ i # j
        BY <2>3, <2>4, <2>6, <3>1 DEF Ordered
      <3>3. j \in 1..(i - 1) /\ j \in 1..Len(got[c])
        BY <2>2, <3>2
      <3> QED
        BY <2>2, <3>1, <3>3
    <2>7. ASSUME NEW m \in 1..MaxChunks, NEW j \in 1..(i - 1), got[c][j] = <<s, m>>
          PROVE  m < n
      <3>1. j \in DOMAIN Emitted /\ Emitted[j] = <<s, m>> /\ j < i
        BY <2>2, <2>7
      <3> QED
        BY <2>3, <2>4, <3>1 DEF Ordered
    <2> QED
      BY <2>4, <2>5, <2>6, <2>7
  <1> QED
    BY <1>1, JobInvariant, PTL

-----------------------------------------------------------------------------
(* The promises of the two parts are promises of the job: what a client of *)
(* logs() observes of a job whose output comes from real pipes is one      *)
(* sealed log ...                                                          *)
THEOREM JobImplementsLogStream == JobSpec => BP!ImplementsLogStream
  <1>1. BP!Spec => BP!ImplementsLogStream
    BY BP!BroadcasterImplementsLogStream, BroadcasterEvents, BroadcasterBounds
  <1> QED
    BY <1>1, JobBroadcasts, PTL

(* ... and what ps and the callers of kill() see is the abstract job, with *)
(* any number of readers of its log.                                       *)
THEOREM JobKeepsContract == JobSpec => ImplementsJobContract
  BY JobImplementsTracker, TrackerKeepsContract, PTL DEF ImplementsTracker
=============================================================================
