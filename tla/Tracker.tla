------------------------------- MODULE Tracker -------------------------------
(***************************************************************************)
(* JobTracker of src/proc/coord.rs for one job on Unix: the select loop of *)
(* wait(), the two consume_output() tasks that feed it, and the callers of *)
(* kill().  Around it are the child process and its pipes (the operating   *)
(* system, through tokio's Child), and the broadcaster, which only takes   *)
(* events from the channel.                                                *)
(*                                                                         *)
(* The unit of output is what one read() returns: chunk n of stream s is   *)
(* <<s, n>>.                                                               *)
(***************************************************************************)
EXTENDS Naturals, Sequences

CONSTANTS
  Streams,     \* StreamKind: stdout and stderr
  Killers,     \* calls of kill(): one element per request
  EOF, Err,    \* the terminal events FrameEvent::EOF and FrameEvent::Error
  NoOne,       \* job.killed is None
  MaxChunks,   \* bound: chunks a process writes to one stream
  StreamCap,   \* capacity of a consume_output -> tracker channel (16)
  SourceCap,   \* capacity of the tracker -> broadcaster channel (2)
  KillCap,     \* capacity of the KillRequest channel (1)
  Faults       \* read(), wait() and kill() on the child may return errors

Chunks == Streams \X (1..MaxChunks)
Terminals == {EOF, Err}

ASSUME NamesAssumption == /\ EOF \notin Chunks /\ Err \notin Chunks /\ EOF # Err
                          /\ NoOne \notin Killers \union Terminals
ASSUME BoundsAssumption == /\ MaxChunks \in Nat
                           /\ StreamCap \in Nat \ {0}
                           /\ SourceCap \in Nat \ {0}
                           /\ KillCap \in Nat \ {0}
                           /\ Faults \in BOOLEAN

VARIABLES
  proc,         \* the child: running, a zombie, or reaped by a wait
  status,       \* how it ended: none yet, exit, or signal
  signalled,    \* SIGKILL was sent to it
  writers,      \* the streams whose write end some process still holds
  written,      \* written[s]: chunks written to s
  read,         \* read[s]: chunks consume_output has read from s
  ch,           \* ch[s]: the channel from consume_output of s, and the chunk
                \*        whose send is waiting for room in it
  pumps,        \* the streams whose consume_output still holds its sender
  pc,           \* where wait() is
  hand,         \* the event wait() is sending, or the kill request it serves
  ok,           \* the streams whose *_ok flag is set
  child_ok,     \* wait() still waits for the child
  loop_err,     \* wait() left its loop with an error
  kill_rx,      \* the KillRequest channel
  kill_reqs,    \* requests to be answered when the child exits
  job,          \* the job snapshot served to ps and to killers
  source,       \* events in flight to the broadcaster
  frames,       \* events the broadcaster has taken
  kcall,        \* kcall[k]: where the kill() call of k is
  reply         \* reply[k]: the job snapshot k was answered with

osVars     == <<proc, status, signalled, writers, written>>
pumpVars   == <<read, ch, pumps>>
loopVars   == <<pc, hand, ok, child_ok, loop_err>>
killVars   == <<kill_rx, kill_reqs, kcall, reply>>
streamVars == <<source, frames>>
vars == <<osVars, pumpVars, loopVars, killVars, job, streamVars>>

Jobs == [state : {"running", "exited"},
         status : {"none", "exit", "signal"},
         killed : Killers \union {NoOne}]

Started == [state |-> "running", status |-> "none", killed |-> NoOne]

TypeOK ==
  /\ proc \in {"running", "zombie", "reaped"}
  /\ status \in {"none", "exit", "signal"}
  /\ signalled \in BOOLEAN
  /\ writers \in SUBSET Streams
  /\ written \in [Streams -> 0..MaxChunks]
  /\ read \in [Streams -> 0..MaxChunks]
  /\ \A s \in Streams : read[s] <= written[s]
  /\ ch \in [Streams -> Seq(Chunks \union {Err})]
  /\ \A s \in Streams : Len(ch[s]) <= StreamCap + 1
  /\ pumps \in SUBSET Streams
  /\ pc \in {"select", "sending", "killing", "ending", "recording", "done"}
  /\ pc = "sending" => hand \in Chunks
  /\ pc = "killing" => hand \in Killers
  /\ ok \in SUBSET Streams
  /\ child_ok \in BOOLEAN
  /\ loop_err \in BOOLEAN
  /\ kill_rx \in Seq(Killers)
  /\ Len(kill_rx) <= KillCap
  /\ kill_reqs \in SUBSET Killers
  /\ job \in Jobs
  /\ source \in Seq(Chunks \union Terminals)
  /\ Len(source) <= SourceCap
  /\ frames \in Seq(Chunks \union Terminals)
  /\ kcall \in [Killers -> {"idle", "sending", "waiting", "gone",
                            "ok", "failed", "dropped", "notRunning"}]
  /\ reply \in [Killers -> Jobs]

(* Opts::spawn: the child runs with its streams piped, and kill_on_drop    *)
(* (see Return).                                                           *)
Spawned == /\ proc = "running" /\ status = "none" /\ signalled = FALSE
           /\ writers = Streams

(* track(): nothing has been read.                                         *)
Init ==
  /\ Spawned
  /\ written = [s \in Streams |-> 0]
  /\ read = [s \in Streams |-> 0]
  /\ ch = [s \in Streams |-> <<>>]
  /\ pumps = Streams
  /\ pc = "select" /\ hand = NoOne
  /\ ok = Streams /\ child_ok = TRUE /\ loop_err = FALSE
  /\ kill_rx = <<>> /\ kill_reqs = {}
  /\ job = Started
  /\ source = <<>> /\ frames = <<>>
  /\ kcall = [k \in Killers |-> "idle"]
  /\ reply = [k \in Killers |-> Started]

-----------------------------------------------------------------------------
(* The operating system.  The write end of a pipe is held by the child and *)
(* by whatever it spawned, so a stream may close long before or long after *)
(* the child exits.                                                        *)

Write(s) ==
  /\ s \in writers
  /\ written[s] < MaxChunks
  /\ written' = [written EXCEPT ![s] = @ + 1]
  /\ UNCHANGED <<proc, status, signalled, writers, pumpVars, loopVars, killVars, job, streamVars>>

CloseStream(s) ==
  /\ s \in writers
  /\ writers' = writers \ {s}
  /\ UNCHANGED <<proc, status, signalled, written, pumpVars, loopVars, killVars, job, streamVars>>

(* The child ends, by itself or, once signalled, by the signal.            *)
Exit(how) ==
  /\ proc = "running"
  /\ how = "signal" => signalled
  /\ proc' = "zombie"
  /\ status' = how
  /\ UNCHANGED <<signalled, writers, written, pumpVars, loopVars, killVars, job, streamVars>>

-----------------------------------------------------------------------------
(* consume_output(s).                                                      *)

Alive == pc # "done"

(* What a read yields.  Faulty: the frame is made of the previous buffer.  *)
NextChunkStale(s) == <<s, IF read[s] = 0 THEN 1 ELSE read[s]>>
NextChunk(s) == <<s, read[s] + 1>>

(* A read returns a chunk, and the task goes on to send it: it does not    *)
(* read again before the send completes.                                   *)
PumpRead(s) ==
  /\ Alive
  /\ s \in pumps
  /\ read[s] < written[s]
  /\ Len(ch[s]) <= StreamCap
  /\ read' = [read EXCEPT ![s] = @ + 1]
  /\ ch' = [ch EXCEPT ![s] = Append(@, NextChunk(s))]
  /\ UNCHANGED <<osVars, pumps, loopVars, killVars, job, streamVars>>

(* A read returns 0 bytes.                                                 *)
PumpEOF(s) ==
  /\ s \in pumps
  /\ read[s] = written[s]
  /\ s \notin writers
  /\ Len(ch[s]) <= StreamCap
  /\ pumps' = pumps \ {s}
  /\ UNCHANGED <<osVars, read, ch, loopVars, killVars, job, streamVars>>

(* A read fails: the error is the last thing the task sends.               *)
PumpError(s) ==
  /\ Faults
  /\ Alive
  /\ s \in pumps
  /\ Len(ch[s]) <= StreamCap
  /\ pumps' = pumps \ {s}
  /\ ch' = [ch EXCEPT ![s] = Append(@, Err)]
  /\ UNCHANGED <<osVars, read, loopVars, killVars, job, streamVars>>

(* The tracker is gone: a send fails.                                      *)
PumpStops(s) ==
  /\ ~Alive
  /\ s \in pumps
  /\ read[s] < written[s] \/ Len(ch[s]) > StreamCap
  /\ pumps' = pumps \ {s}
  /\ UNCHANGED <<osVars, read, ch, loopVars, killVars, job, streamVars>>

-----------------------------------------------------------------------------
(* JobTracker::wait.                                                       *)

(* The check at the top of the loop.  Faulty: it forgets the streams, or   *)
(* the child, or is missing.                                               *)
LoopTopIgnoringStreams(waits, streams) == IF ~waits THEN "ending" ELSE "select"
LoopTopIgnoringChild(waits, streams) == IF streams = {} THEN "ending" ELSE "select"
LoopTopEndless(waits, streams) == "select"
LoopTop(waits, streams) == IF ~waits /\ streams = {} THEN "ending" ELSE "select"

(* select: a stream yields a chunk, or an error that ends the loop.        *)
SelectFrame(s) ==
  /\ pc = "select"
  /\ s \in ok
  /\ ch[s] # <<>>
  /\ ch' = [ch EXCEPT ![s] = Tail(@)]
  /\ IF Head(ch[s]) = Err
     THEN pc' = "ending" /\ loop_err' = TRUE /\ UNCHANGED hand
     ELSE pc' = "sending" /\ hand' = Head(ch[s]) /\ UNCHANGED loop_err
  /\ UNCHANGED <<osVars, read, pumps, ok, child_ok, killVars, job, streamVars>>

(* frame_tx.send, inside the branch: nothing else is served meanwhile.     *)
Send ==
  /\ pc = "sending"
  /\ Len(source) < SourceCap
  /\ source' = Append(source, hand)
  /\ pc' = "select"
  /\ UNCHANGED <<osVars, pumpVars, hand, ok, child_ok, loop_err, killVars, job, frames>>

(* select: a stream is at its end.                                         *)
SelectClosed(s) ==
  /\ pc = "select"
  /\ s \in ok
  /\ ch[s] = <<>>
  /\ s \notin pumps
  /\ ok' = ok \ {s}
  /\ pc' = LoopTop(child_ok, ok')
  /\ UNCHANGED <<osVars, pumpVars, hand, child_ok, loop_err, killVars, job, streamVars>>

(* The oneshots of the requests in K are used or dropped.                  *)
Answered(K, outcome) ==
  [k \in Killers |-> IF k \in K /\ kcall[k] = "waiting" THEN outcome ELSE kcall[k]]

(* tokio refuses to signal a child it has already reaped.  Faulty: the     *)
(* signal goes to whatever has the pid, and the wait returns at once.      *)
CanKillAnything == TRUE
CanKill == proc # "reaped"

(* select: a kill request.  Unless it is refused, the signal is sent (a    *)
(* zombie takes it too) and kill() waits, inside the branch, until the     *)
(* child is reaped.                                                        *)
SelectKill ==
  /\ pc = "select"
  /\ kill_rx # <<>>
  /\ kill_rx' = Tail(kill_rx)
  /\ \/ /\ ~CanKill \/ Faults
        /\ kcall' = Answered({Head(kill_rx)}, "failed")
        /\ UNCHANGED <<signalled, pc, hand>>
     \/ /\ CanKill
        /\ signalled' = TRUE
        /\ pc' = "killing"
        /\ hand' = Head(kill_rx)
        /\ UNCHANGED kcall
  /\ UNCHANGED <<proc, status, writers, written, pumpVars, ok, child_ok, loop_err,
                 kill_reqs, reply, job, streamVars>>

(* Faulty: the request is not retained for the answer.                     *)
RetainedNone == kill_reqs
Retained == kill_reqs \union {hand}

(* kill() returns Ok: the killer is recorded, its answer waits for the     *)
(* child's exit to be noticed.                                             *)
KillDone ==
  /\ pc = "killing"
  /\ proc # "running"
  /\ proc' = "reaped"
  /\ job' = [job EXCEPT !.killed = hand]
  /\ kill_reqs' = Retained
  /\ pc' = "select"
  /\ UNCHANGED <<status, signalled, writers, written, pumpVars, hand, ok, child_ok, loop_err,
                 kill_rx, kcall, reply, streamVars>>

(* kill() returns an error of its wait: the caller gets it.                *)
KillFails ==
  /\ Faults
  /\ pc = "killing"
  /\ kcall' = Answered({hand}, "failed")
  /\ pc' = "select"
  /\ UNCHANGED <<osVars, pumpVars, hand, ok, child_ok, loop_err, kill_rx, kill_reqs, reply,
                 job, streamVars>>

(* The job of a child that has exited.  Faulty: its state is forgotten.    *)
SettledStateless == [job EXCEPT !.status = status]
Settled == [job EXCEPT !.state = "exited", !.status = status]

(* select: the child has exited.  The job is settled, and those who asked  *)
(* for its death get the snapshot.                                         *)
SelectWait ==
  /\ pc = "select"
  /\ child_ok
  /\ proc # "running"
  /\ proc' = "reaped"
  /\ child_ok' = FALSE
  /\ job' = Settled
  /\ kcall' = Answered(kill_reqs, "ok")
  /\ reply' = [k \in Killers |-> IF k \in kill_reqs THEN job' ELSE reply[k]]
  /\ kill_reqs' = {}
  /\ pc' = LoopTop(FALSE, ok)
  /\ UNCHANGED <<status, signalled, writers, written, pumpVars, hand, ok, loop_err, kill_rx,
                 streamVars>>

(* select: wait() on a child not yet reaped fails.                         *)
WaitFails ==
  /\ Faults
  /\ pc = "select"
  /\ child_ok
  /\ proc # "reaped"
  /\ child_ok' = FALSE
  /\ loop_err' = TRUE
  /\ pc' = "ending"
  /\ UNCHANGED <<osVars, pumpVars, hand, ok, killVars, job, streamVars>>

(* Faulty: an error is only logged, or a clean end is left to the closing  *)
(* of the channel.                                                         *)
LastEventsSilent == IF loop_err THEN <<>> ELSE <<EOF>>
LastEventsImplied == IF loop_err THEN <<Err>> ELSE <<>>
LastEvents == IF loop_err THEN <<Err>> ELSE <<EOF>>

(* After the loop: the terminal event.                                     *)
EndSend ==
  /\ pc = "ending"
  /\ Len(source) < SourceCap
  /\ source' = source \o LastEvents
  /\ pc' = "recording"
  /\ UNCHANGED <<osVars, pumpVars, hand, ok, child_ok, loop_err, killVars, job, frames>>

(* res is set and wait() returns.  What it owned is dropped: requests that *)
(* nobody will answer, and the child, which kill_on_drop then signals.     *)
Return ==
  /\ pc = "recording"
  /\ pc' = "done"
  /\ kcall' = Answered(kill_reqs \union {kill_rx[i] : i \in DOMAIN kill_rx}, "dropped")
  /\ kill_rx' = <<>>
  /\ kill_reqs' = {}
  /\ signalled' = (signalled \/ proc # "reaped")
  /\ UNCHANGED <<proc, status, writers, written, pumpVars, hand, ok, child_ok, loop_err,
                 reply, job, streamVars>>

-----------------------------------------------------------------------------
(* JobTracker::kill.                                                       *)

(* The channel holds its senders back.                                     *)
KillRoom == Len(kill_rx) < KillCap

(* kill_tx is cloned and the send begins.                                  *)
KillStart(k) ==
  /\ kcall[k] = "idle"
  /\ kcall' = [kcall EXCEPT ![k] = "sending"]
  /\ UNCHANGED <<osVars, pumpVars, loopVars, kill_rx, kill_reqs, reply, job, streamVars>>

KillSend(k) ==
  /\ kcall[k] = "sending"
  /\ Alive
  /\ KillRoom
  /\ kill_rx' = Append(kill_rx, k)
  /\ kcall' = [kcall EXCEPT ![k] = "waiting"]
  /\ UNCHANGED <<osVars, pumpVars, loopVars, kill_reqs, reply, job, streamVars>>

(* The receiver is gone: KillError::ReqSendFailed, that is JobNotRunning.  *)
KillNotRunning(k) ==
  /\ kcall[k] = "sending"
  /\ ~Alive
  /\ kcall' = [kcall EXCEPT ![k] = "notRunning"]
  /\ UNCHANGED <<osVars, pumpVars, loopVars, kill_rx, kill_reqs, reply, job, streamVars>>

(* The one-second timeout, or the RPC is cancelled.  A request that is in  *)
(* the channel or served stays there.                                      *)
KillGivesUp(k) ==
  /\ kcall[k] \in {"sending", "waiting"}
  /\ kcall' = [kcall EXCEPT ![k] = "gone"]
  /\ UNCHANGED <<osVars, pumpVars, loopVars, kill_rx, kill_reqs, reply, job, streamVars>>

-----------------------------------------------------------------------------
(* The broadcaster never ends and takes every event it is sent.            *)
TakeFrame ==
  /\ source # <<>>
  /\ frames' = Append(frames, Head(source))
  /\ source' = Tail(source)
  /\ UNCHANGED <<osVars, pumpVars, loopVars, killVars, job>>

-----------------------------------------------------------------------------
OS == \/ \E s \in Streams : Write(s) \/ CloseStream(s)
      \/ \E how \in {"exit", "signal"} : Exit(how)

Pump(s) == PumpRead(s) \/ PumpEOF(s) \/ PumpError(s) \/ PumpStops(s)

Wait == \/ \E s \in Streams : SelectFrame(s) \/ SelectClosed(s)
        \/ Send
        \/ SelectKill \/ KillDone \/ KillFails
        \/ SelectWait \/ WaitFails
        \/ EndSend \/ Return

Kill(k) == KillStart(k) \/ KillSend(k) \/ KillNotRunning(k) \/ KillGivesUp(k)

Next == \/ OS
        \/ \E s \in Streams : Pump(s)
        \/ Wait
        \/ \E k \in Killers : Kill(k)
        \/ TakeFrame

Spec == Init /\ [][Next]_vars

(* The tasks run whenever they can.  select! polls its branches in random  *)
(* order, so a branch that stays ready is taken; each Select action below  *)
(* is one branch.  Nothing makes the child exit or close its streams, but  *)
(* SIGKILL works, and nothing makes a caller start or give up.             *)
Fairness ==
  /\ \A s \in Streams : /\ WF_vars(PumpRead(s) \/ PumpEOF(s))
                        /\ WF_vars(SelectFrame(s))
                        /\ WF_vars(SelectClosed(s))
  /\ WF_vars(Send) /\ WF_vars(KillDone) /\ WF_vars(EndSend) /\ WF_vars(Return)
  /\ SF_vars(SelectKill) /\ SF_vars(SelectWait)
  /\ WF_vars(signalled /\ Exit("signal"))
  /\ \A k \in Killers : SF_vars(KillSend(k)) /\ WF_vars(KillNotRunning(k))
  /\ WF_vars(TakeFrame)

FairSpec == Spec /\ Fairness

-----------------------------------------------------------------------------
(* Safety.                                                                 *)

Emitted == frames \o source
Terminated == \E i \in DOMAIN Emitted : Emitted[i] \in Terminals
IsLogged(e) == \E i \in DOMAIN Emitted : Emitted[i] = e

(* The chunks of a stream are in the log in the order in which the process *)
(* wrote them and without a gap, and every chunk consume_output has read   *)
(* is in the log, in hand, or in the channel: no select branch loses,      *)
(* repeats or reorders output.  Only a failed tracker discards what it has *)
(* not sent, and then all of it.                                           *)
OutputInOrder ==
  /\ \A i, j \in DOMAIN Emitted, s \in Streams, m, n \in 1..MaxChunks :
       i < j /\ Emitted[i] = <<s, m>> /\ Emitted[j] = <<s, n>> => m < n
  /\ \A i \in DOMAIN Emitted, s \in Streams, n \in 1..MaxChunks :
       Emitted[i] = <<s, n>> => \A m \in 1..(n - 1) : IsLogged(<<s, m>>)
  /\ \A s \in Streams : \A n \in 1..read[s] :
       \/ IsLogged(<<s, n>>)
       \/ pc = "sending" /\ hand = <<s, n>>
       \/ \E i \in DOMAIN ch[s] : ch[s][i] = <<s, n>>
       \/ loop_err

(* EOF is a promise about everything: the child was reaped and the job is  *)
(* settled, no process holds a stream open, and all that was ever written  *)
(* is in the log before it.                                                *)
EOFMeansComplete ==
  IsLogged(EOF) =>
    /\ job.state = "exited"
    /\ writers = {}
    /\ \A s \in Streams : \A n \in 1..written[s] : IsLogged(<<s, n>>)

(* What the broadcaster relies on: the terminal event is the last one, and *)
(* the tracker does not return without it.                                 *)
TerminalEventIsLast ==
  /\ \A i \in DOMAIN Emitted : Emitted[i] \in Terminals => i = Len(Emitted)
  /\ pc = "done" => Terminated

(* kill() returns Ok only for a child that is dead and reaped, with a      *)
(* settled job that names this very caller as the killer.                  *)
KillOkMeansDead ==
  \A k \in Killers :
    kcall[k] = "ok" => /\ proc = "reaped"
                       /\ reply[k] = job
                       /\ job.state = "exited"
                       /\ job.killed = k

(* The caller recorded as the killer is not told that its kill failed or   *)
(* came too late; if the tracker broke off before it could answer, the     *)
(* log says so.                                                            *)
KillerIsToldTheTruth ==
  \A k \in Killers :
    job.killed = k => \/ kcall[k] \in {"waiting", "ok", "gone"}
                      \/ kcall[k] = "dropped" /\ loop_err

(* Once ps has shown the job as exited, it never shows anything else.      *)
SettledJobIsFinal == [][job.state = "exited" => job' = job]_vars

(* Seen from outside, the job is that of JobContract.tla: what the select  *)
(* loop does with one request, step by step and between other branches,    *)
(* is one step to its caller, and no order of exit, kills, errors and the  *)
(* end of the log shows the callers and ps anything else.                  *)
Queued == {kill_rx[i] : i \in DOMAIN kill_rx}
Asked == Queued \union (IF pc = "killing" THEN {hand} ELSE {})
Sealed == IF IsLogged(EOF) THEN EOF ELSE IF IsLogged(Err) THEN Err ELSE NoOne
Contract == INSTANCE JobContract WITH
  running <- job.state = "running",
  killed  <- job.killed,
  sealed  <- Sealed,
  over    <- pc = "done",
  asked   <- Asked,
  call    <- [k \in Killers |-> IF kcall[k] = "sending" THEN "idle" ELSE kcall[k]]
ImplementsJobContract == Contract!Spec

-----------------------------------------------------------------------------
(* What makes them inductive (TrackerProofs.tla).                          *)

Looping == pc \in {"select", "sending", "killing"}

(* Only a reaped child has a killer, only a reaped child's job is settled, *)
(* and a child is not killed again once it is reaped.                      *)
ChildInv ==
  /\ proc # "reaped" => job.killed = NoOne /\ kill_reqs = {}
  /\ job.state = "exited" => proc = "reaped" /\ ~child_ok /\ kill_reqs = {}
  /\ pc = "killing" => proc # "reaped"
  /\ ~child_ok => job.state = "exited" \/ loop_err

(* An error ends the loop; without one it ends when all is collected.      *)
LoopInv ==
  /\ loop_err => ~Looping
  /\ ~Looping /\ ~loop_err => ~child_ok /\ ok = {}

(* The terminal event says how the loop ended.                             *)
TerminalInv ==
  /\ Looping \/ pc = "ending" => ~Terminated
  /\ pc \in {"recording", "done"} =>
       /\ Emitted # <<>>
       /\ Emitted[Len(Emitted)] = IF loop_err THEN Err ELSE EOF
       /\ \A i \in DOMAIN Emitted : Emitted[i] \in Terminals => i = Len(Emitted)

(* A stream is given up only at its end, or after an error.                *)
StreamInv(s) ==
  /\ s \notin ok => ch[s] = <<>> /\ s \notin pumps
  /\ \A i \in DOMAIN ch[s] : ch[s][i] = Err => i = Len(ch[s]) /\ s \notin pumps
  /\ s \notin pumps /\ ~loop_err /\ (\A i \in DOMAIN ch[s] : ch[s][i] # Err) =>
       s \notin writers /\ read[s] = written[s]

(* The log, the event in hand and the channel continue each other.         *)
OrderInv(s) ==
  /\ \A i \in DOMAIN ch[s] : ch[s][i] # Err => ch[s][i][1] = s /\ ch[s][i][2] <= read[s]
  /\ \A i, j \in DOMAIN ch[s] :
       i < j /\ ch[s][i] # Err /\ ch[s][j] # Err => ch[s][i][2] < ch[s][j][2]
  /\ pc = "sending" /\ hand[1] = s =>
       /\ hand[2] <= read[s]
       /\ \A i \in DOMAIN ch[s] : ch[s][i] # Err => hand[2] < ch[s][i][2]
  /\ \A i \in DOMAIN Emitted, n \in 1..MaxChunks : Emitted[i] = <<s, n>> =>
       /\ n <= read[s]
       /\ pc = "sending" /\ hand[1] = s => n < hand[2]
       /\ \A j \in DOMAIN ch[s] : ch[s][j] # Err => n < ch[s][j][2]

(* A kill request is in the channel, served, retained, or answered.        *)
RequestInv ==
  /\ \A i \in DOMAIN kill_rx : /\ kcall[kill_rx[i]] \in {"waiting", "gone"}
                              /\ kill_rx[i] # job.killed
                              /\ ~(pc = "killing" /\ hand = kill_rx[i])
  /\ \A i, j \in DOMAIN kill_rx : kill_rx[i] = kill_rx[j] => i = j
  /\ pc = "killing" => kcall[hand] \in {"waiting", "gone"}
  /\ \A k \in kill_reqs : kcall[k] \in {"waiting", "gone"} /\ job.killed = k
  /\ \A k \in Killers : job.killed = k =>
       \/ k \in kill_reqs
       \/ kcall[k] \in {"ok", "gone"}
       \/ kcall[k] = "dropped" /\ loop_err

(* Nobody waits in vain: whoever waits has a request that is queued,       *)
(* served, or retained, and so nobody does once wait() has returned.       *)
WaitInv ==
  /\ \A k \in Killers : kcall[k] = "waiting" => k \in Asked \union kill_reqs
  /\ pc = "done" => kill_rx = <<>> /\ kill_reqs = {}

TrackerInv ==
  /\ ChildInv /\ LoopInv /\ TerminalInv /\ RequestInv /\ WaitInv
  /\ \A s \in Streams : StreamInv(s) /\ OrderInv(s)
  /\ OutputInOrder /\ KillOkMeansDead

(* With the types: what every step preserves.                              *)
IndInv == TypeOK /\ TrackerInv

-----------------------------------------------------------------------------
(* Liveness.                                                               *)

(* Every kill() is answered, without the help of its timeout, whatever the *)
(* child and its descendants do with their streams.                        *)
KillsAreAnswered ==
  \A k \in Killers : kcall[k] \in {"sending", "waiting"}
                       ~> kcall[k] \notin {"sending", "waiting"}

(* A child that exits is noticed even if its streams stay open: the job is *)
(* settled, or wait() could not do it for an error, and then the log says  *)
(* so to its readers, since ps shows the job as running for ever.          *)
ExitIsNoticed == proc # "running" ~> (job.state = "exited" \/ IsLogged(Err))

(* The log is sealed once the child has exited and every write end of its  *)
(* streams is closed.                                                      *)
LogIsSealed == (proc # "running" /\ writers = {}) ~> Terminated

==============================================================================
