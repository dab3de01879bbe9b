# A verification of the job runner

TLA+ models of the job runner in this repository, checked with TLC on small
instances, and theorems about them checked with TLAPS for all of them. Paths
such as `src/proc/coord.rs:498` are relative to the root of the repository.

## The system

A server runs commands for its clients. Four calls (`spawn`, `logs`, `ps`,
`kill`) arrive over gRPC with mutual TLS; everything lives in memory.

| Component | Code | State it keeps | Operations |
|---|---|---|---|
| gRPC service | `src/grpc.rs` | nothing but one forwarding task per `logs` call | four handlers, interceptor, validation, conversions |
| `MemoryCoordinator` | `coord.rs:97-179` | the map of jobs, in a mutex | spawn, logs, ps, kill, `get_tracker` |
| `JobTracker` | `coord.rs:203-440` | the job snapshot in a mutex; in `wait()` the child, two output channels, a kill channel, retained kill requests | `track`, `wait`, `consume_output`, `kill` |
| `FrameBroadcaster` | `coord.rs:502-599` | every event of the job, the relays it feeds | `bcast`, `stream` |
| `FrameRelay` | `coord.rs:605-710` | a local queue between two channels | `start`, `relay`, `accept` |
| child, Unix | `src/proc/spawn/mod.rs` | tokio's `Child` | `wait`, `kill`, streams |
| child, Windows | `src/proc/spawn/win.rs` | handles, threads, wakers | the same, on Win32 |
| client | `src/bin/client.rs` | how its stream has ended | the four commands, `must_ok` |
| server, protobuf | `src/bin/server.rs`, `src/pb`, `proto` | none | start-up, generated code |

They interact through bounded channels and oneshots only: two `consume_output`
tasks feed the tracker (16), the tracker feeds the broadcaster (2), the
broadcaster feeds each relay without ever blocking (1024, `try_send`), a relay
feeds its caller (1024), the caller's forwarding task feeds the connection (1).
Kill requests (1) and log requests (1) go the other way, each with a oneshot for
the answer. Every task is one `select!` loop, whose ready branches are taken in
random order.

What is hard about it: the order in which output, exit, kill and end of stream
meet in one `select!`; awaits inside a branch, during which nothing else is
served; sends that a `select!` cancels; callers that time out while their
request goes on; relays that start in the middle of the log; descendants that
hold a pipe after the child has exited; and on Windows the hand-made wake-ups
between threads and tasks, and one handle table that all spawns share.

What makes each component correct:

* broadcaster and relays: every caller of `logs` that still waits is given one
  reader, sees the job's log from its beginning, without gap, repetition or
  reordering, and a stream that ends with a terminal event was complete;
* tracker: nothing the child writes is lost or reordered; EOF means that the
  child is reaped and all output is in the log; a kill that is answered Ok killed;
  every kill is answered; an exit is noticed, or the log tells of the error that
  prevented it;
* coordinator and service: only the owner of a job gets at it; answers do not go
  back in time; a log stream without an error status is a complete log;
* a job as a whole: what was written to a pipe reaches every reader of the log,
  through four tasks and three channels, and no reader waits for ever but one
  whose relay was forgotten for a full inbox;
* Windows child: no byte and no wake-up is lost; a kill completes; every handle
  is closed once, and none is used after that for another object.

## The modules

| Module | Models | Notes |
|---|---|---|
| `LogStream` | the promise of the log API | abstract: one log, the calls of `logs`, one position per reader |
| `Broadcaster` | `FrameBroadcaster`, `FrameRelay`, callers of `stream()`, the receiving half of the forwarding task | implements `LogStream` |
| `JobContract` | what `ps` and callers of `kill()` are promised of a job | abstract: snapshot, requests, answers, the end of the log |
| `Tracker` | `JobTracker::wait`, `consume_output`, `kill`, over a Unix child | implements `JobContract` |
| `JobPipeline` | `JobTracker::track`: tracker and broadcaster of one job, joined | implements `Tracker` and `Broadcaster`, and so `JobContract` and `LogStream` |
| `Service` | handlers, `MemoryCoordinator`, forwarding task, client program | a job is reduced to what `JobContract` says of it and a log length; each implements `JobContract` |
| `WinStream` | `WinHandleOutputStream` | |
| `WinKill` | `KillChild`, `WaitChild` and the tracker's task that awaits them | |
| `WinHandles` | `Child::spawn`, `Handle`, and what all tasks and threads do with handles | every job of the server at once |
| `MCBroadcaster`, `MCTracker`, `MCJobPipeline`, `MCService`, `MCWinHandles` | | the modules TLC runs, with a symmetry set where one is sound |
| `BroadcasterProofs`, `TrackerProofs`, `JobContractProofs`, `JobPipelineProofs`, `ServiceProofs`, `WinStreamProofs`, `WinHandlesProofs` | | theorems about the module of that name |
| `QueueLemmas` | | facts about sequences used as channels, cited by three of them |

### Broadcaster

`source`, `req_rx`, `inbox[c]`, `out[c]` are the four channels; `frames`,
`relays` and `frame_rx_ok` are the locals of `bcast`; `pending[c]` is `to_send`
followed by the relay's `VecDeque`, so a send that the `select!` cancels leaves
`pending` alone. `call[c]` and `got[c]` are the caller's. `TakeFrame`,
`SourceEnds` and `ServeRequest` are the branches of `bcast`; `RelayReceive`,
`RelayClosed`, `RelaySend`, `RelaySendFails` those of `relay`, with `RelayDrain`
and `RelayEnd` for the code after its loop. `ServeRequest` contains
`FrameRelay::start`, which does not await. `GiveUp` is the one-second timeout of
`stream()` or a connection that a forwarding task finds broken when it sends.

`bcast` owns a clone of its request sender, so its `req_rx` never closes and the
task never ends; the model has no action for it. In the same way a relay owns a
sender of its own inbox. `RelayKeepsSender = TRUE` is the code, in which
`RelayClosed` is never enabled; `FALSE` is the relay that the comment at
`coord.rs:498-501` describes, kept as a constant so that the code after the loop
can be checked as well (run `bcast_winddown`).

`LogStream` has the calls of `logs` and nothing between log and reader: `Serve`
makes a reader for a caller, `Open` hands it over, `Observe` is one event. In
`Broadcaster` a reader is a relay (`served` are the clients whose relay was
started), so that `ServeRequest` must start a relay exactly for the callers that
still wait when their request is taken from the channel: a caller that timed out
in between gets none (`coord.rs:635`).

### Tracker

The unit of output is what one `read` returns. `ch[s]` holds up to one chunk
more than the capacity of its channel: the chunk whose send waits for room.
`pc` is `select` at the top of the loop, `sending` and `killing` inside a branch,
`ending` and `recording` after the loop. Each `Select...` action is one branch of
`select!`. `KillDone` is tokio's `Child::kill`, which signals and then reaps; a
zombie takes the signal, a reaped child refuses it (`CanKill`). `Return` drops
what `wait()` owns: the kill channel with what is in it, the retained oneshots,
and the child, which `kill_on_drop` signals. The operating system is `Write`,
`CloseStream` and `Exit`: streams may close before or after the exit.
`Faults` lets reads, waits and kills fail. `Spawned` is the child as the options
of `coord.rs` start it: running, with all its streams.

The `kill_ok` flag is left out (the tracker owns a sender of the kill channel, so
it never closes), and so is a failing send to the broadcaster, which never ends.

### JobContract

What a job looks like from outside, without select loop, channels and child. A
request is asked, then recorded or refused, and its effect is one step; `Settle`
shows the end of the child and answers the killer in the same step; `Seal` ends
the log, with EOF only for a settled job; `End` lets go of whoever still waits.
It allows what the code does and a reader might not expect: a caller that gave up
may be recorded as the killer, and a request may be taken after the log is sealed
and is then dropped. In `Tracker` the requests asked are those in the channel and
the one being served, `sealed` is read off the events, and a caller whose send is
still waiting has not asked yet. `Service` models the trackers of its jobs by the
same steps and is shown to implement one contract per job: `Contract(j)` there is
an instance with a parameter.

### JobPipeline

`JobPipeline` extends `Tracker` and takes `Broadcaster` as an instance whose
`source` and log are the tracker's own variables: the tracker's `Send` fills the
channel that `TakeFrame` empties, and `source_open` is `Alive`, which ends when
`wait()` returns and drops its sender. Each module alone assumes something of the
other end of this channel: `Broadcaster` that the tracker ends its log once and
sends nothing after, `Tracker` that every event is taken. In the composition both
ends are the code, and these assumptions become properties
(`ImplementsBroadcaster`, and `ImplementsTracker`, which is proved).

### Service

One action is the code of a handler between two awaits. `Call` is the
interceptor, `get_ctx` and `validate`; `SpawnChild` and `Register` are the two
halves of `spawn` around the lock; `Lookup` and `Check` are the two locks of
`get_tracker`. `RespondJob` is the conversion of a job into its message, which
panics for a job without an exit code. `asked[j]` holds the kill requests in the
channel of a tracker and `told[r]` what the oneshot of a request has brought.
`ServeKill`, `ChildExits`, `Output`, `Seal` and `TrackerReturns` say in fewer
steps what `Tracker` says in many; the last two are apart because a request that
is accepted between the last event of the log and the return of `wait()` is
dropped. `Disconnect` drops a
handler where it waits, or the receiver of a stream. The forwarding task treats
the broadcaster as it must: its channel may close at any time (`ForwardCut`).
`MustOk` and `Succeeds` say when the client program exits with success.
An id is chosen fresh (version 7 UUIDs), so the panic on a duplicate is not
reachable. A certificate that x509 cannot parse has been refused by TLS.

### WinStream and WinKill

`WinStream` keeps `register`, `try_recv`, `send` and `wake` apart, because the
order of these four is what loses wake-ups. `Room` and `ReadSize` are both 1024
in the code, whose only reader is `consume_output`, so there every chunk fits into the
buffer and the partial copy of `poll_read` does not occur; they differ in the run
so that this branch is exercised too, as `AsyncRead` requires of it for any
buffer. A write of zero bytes makes `ReadFile` return zero bytes, which the
code takes for the end of the stream. `WriteNothing` lets the child make such
writes at `MaxBlanks` places, and the properties say that nothing else ends the
stream early.

`WinKill` has the kill thread, which blocks in a send on a channel without buffer
until it is received, the threads that wait for the process, and the wakers left
in the output channels, each good for one wake.

### WinHandles

`table[v]` is what the handle value `v` denotes for the server, `process`, `rx`
and `tx` are the owned `Handle`s, and the records of `killer` and `waiter` hold
clones. `Close` frees a value for whoever opens a handle next. `CreatePipe`,
`SetInherit`, `CreateProcess`, `DropTx` and `StartTracking` are the statements of
`Child::spawn` that change the table, `SpawnFails` its `?`. `CreateProcess` gives
the child a copy of every write end in `Inherited`, which is every handle of the
server marked inheritable at that moment, whichever `spawn` made it.
`PollPending`, `WaiterCalls` and `WaiterReturns` are the threads of `WaitChild`,
with the time between the clone and the call of `WaitForSingleObject` kept apart,
in which the tracker may drop the handle. The wake-ups are those of `WinKill` and
`WinStream` and are not repeated.

## The runs

| Run | Bounds | Shows |
|---|---|---|
| `bcast_safety` | 2 callers, 2 payloads, at most 2 frames and a terminal event, all capacities 1 | the inductive `IndInv`, `StreamIsPrefix`, `NothingLostInFlight`, `DoneMeansComplete`, `ForgottenOnlyByOverflow`, refinement of `LogStream` |
| `bcast_winddown` | `RelayKeepsSender = FALSE`, `RelayCap` 2 | control experiment: `CutOnlyByOverflow`, `RelaysWindDown` of the relay in the doc comment, which is not the one in the code |
| `bcast_leak` | one caller, one frame | violation of `RelaysWindDown` |
| `tracker_safety` | 2 streams, 2 killers, 1 chunk per stream, capacities 1, faults | the inductive `IndInv`, `EOFMeansComplete`, `TerminalEventIsLast`, `KillOkMeansDead`, `KillerIsToldTheTruth`, `SettledJobIsFinal`, refinement of `JobContract` |
| `tracker_live` | 1 stream, 2 killers, 2 chunks, faults | `OutputInOrder`, `KillsAreAnswered`, `ExitIsNoticed`, `LogIsSealed` |
| `pipeline` | 1 stream, 2 chunks, 2 callers, all capacities 1, no faults and no killers | `EOFMeansWholeOutput`, `ReadersSeeWhatWasWritten`, `RequestsAreAnswered`, `OutputReachesReaders`, refinement of `Broadcaster` |
| `service` | 2 users, 1 job, 3 calls, 1 frame | the inductive `IndInv`, `OnlyTheOwnerActs`, `AnswersMoveForward`, `SpawnedJobIsFound`, `CleanEndMeansComplete`, refinement of `JobContract` by each job |
| `service_panic` | 1 user, 1 job, 2 calls | violation of `PsDoesNotNeedARunningJob` |
| `win_stream` | 4 bytes, reads of 2, 1 place for empty writes, capacity 1, room 1 | the inductive `IndInv`, `BytesInOrder`, `EOFMeansComplete`, `SleeperIsWoken`, `OutputArrives` |
| `win_handles` | 2 jobs, 1 stream, 1 waiting thread each, 5 handle values | the inductive `IndInv`, `HandleIsOwn`, `KillHitsOwnProcess`, `WaiterServesItsTracker`, `NothingIsLeaked` |
| `win_inherit` | the same without waiting threads, with fairness | violation of `StreamsEndWithTheChild` |
| `win_kill` | 2 streams, 2 waiting threads | violation of `BookkeepingIsDone` |

Why the bounds are enough. A channel of capacity 1 is full after one message, so
every blocked and every refused send happens; two frames and a terminal event
overflow each of them in turn. Two callers (killers) suffice for two requests to
be in flight, one served while the other is queued or timed out. With three
calls of `Service`, a spawn, an answer and a later answer about the same job meet.
`tracker_live` has faults, so an exit may go unrecorded: `wait()` breaks off, the
job is shown as running for ever (`coord.rs:357`), and `ExitIsNoticed` says that
the readers of the log are then told of the error.

In `pipeline` a log of up to three events meets inboxes of capacity 1, so relays
overflow, and `bcast` forgets them. Such a relay keeps running, and its reader
waits for ever: this is what the code does (`coord.rs:704`, where the capacity is
1024 and the log has no bound). `OutputReachesReaders` names this one exception
(`LeftBehind`), and says that even then the reader gets all that was queued for
it; without the exception TLC finds it violated. `ForgottenOnlyByOverflow` says
that only a full inbox leads there. Kills and faults
are left to the tracker's own runs, since `JobPipelineProofs` shows that the
composed job is a behaviour of `Tracker` with them. In `win_handles` five values
for the six handles two jobs can hold at most make closed values come back at
once, also while a clone of them is still held; one stream per job is enough for
pipes of different jobs to meet, and the proofs hold for any number.

`CHECK_DEADLOCK FALSE` is in every cfg, because a system whose jobs are over and
whose callers are served has nothing left to do.

Fairness. A task that can run does (`WF` on the steps of each). `select!` polls
its branches in random order, so a branch that is ready again and again is
taken: `SF` on the kill and wait branches of the tracker, which other branches
interrupt. A bounded channel of tokio serves its waiting senders in order: `SF`
on `KillSend`. `pipeline` assumes the fairness of both parts and nothing more.
In `win_inherit` a `spawn` that has its pipes goes on, threads and trackers run,
and a kill that was started need not return. Nothing is assumed of the child (other than that SIGKILL ends it),
of the writers of its streams, of callers and of connections.

## What the violations show

* `bcast_leak`: `relay(self)` owns a sender of its own channel. After the job has
  ended no relay ends by itself; each `logs` call leaves a task and a copy of the
  log behind. A client sees no difference as long as the terminal event reached
  its relay; one whose relay overflowed waits for ever (`OutputReachesReaders`).
  `bcast_winddown` is the control: with a relay that owns no such sender
  `RelaysWindDown` holds, so the sender is the cause.
* `service_panic`: a job ended by a signal, that is, every job that was killed,
  can be shown neither by `ps` nor in the answer to `kill`.
* `win_inherit`: two spawns overlap; the child of one inherits the pipe of the
  other, whose reader thread then waits for the wrong child to end.
* `win_kill`: the kill thread wakes the task only after its result was received,
  and the task receives only when it is woken.

Three smaller deviations are part of the models and have no run of their own. A
`spawn` that is dropped while it waits for the lock leaves a job that runs and
that nobody can find (`Disconnect` in `Service`), though `coord.rs:105` has every
started job "end up in the jobs field"; the second part of `SpawnedJobIsFound`
says that nothing else leads there. A kill
that is served between the exit of the child and the moment the tracker notices
it succeeds, and the job is shown as killed although it had ended by itself
(compare `proto/jobs.proto:74`). And the kill channel outlives the EOF event by a
moment, in which a kill is accepted and then dropped, where the test at
`coord.rs:873` has it refused. `KillerIsToldTheTruth` is what still holds.

## What is proved

`BroadcasterProofs` proves, for any sets of clients and frames, any bound on the
log and any capacities (`EventsAssumption`, `BoundsAssumption`):

* `BroadcasterInvariant`: `Spec => []IndInv`, where `IndInv` is `TypeOK`,
  `DeliveryInv` and `LagInv` (the first is inductive by itself, the second
  with the first: `TypeCorrect`, `DeliveryInvariant`);
* `StreamsArePrefixes`, `NothingIsLost`, `DoneIsComplete`: `StreamIsPrefix`,
  `NothingLostInFlight` and `DoneMeansComplete`;
* `OnlyOverflowForgets`, `OnlyOverflowCuts`: `ForgottenOnlyByOverflow` and
  `CutOnlyByOverflow`. They need `LagInv`: a client whose received and queued
  events are not yet the whole log has a relay that is still fed, or an inbox
  that once was full;
* `BroadcasterImplementsLogStream`: `Spec => ImplementsLogStream`.

`CutOnlyByOverflow` is about both kinds of relay; with the one in the code nobody
is ever `cut`, so of the code it says little.

`StreamIsPrefix` is not inductive: it says nothing about the events on their
way. `DeliveryInv` is. Its core, `DeliveryInOrder`, says that for a listening
client the received events followed by its three queues are a prefix of the log,
and all of it while `bcast` holds the relay. A step then either moves an event
from one queue to the next, which leaves the concatenation as it is (lemmas
`MoveHead` and `DeliverySends`), or appends the new event to the log and, for a
relay that accepts it, to the inbox. `RequestsAreFresh` is needed so that
`ServeRequest` never starts a second relay for a caller, `LogIsSealed` so that a
terminal event at the end of `got` means the whole log, `StreamState` to know
which queues are empty when a stream starts and ends. For the refinement, a step
that takes an event into `frames` is `Publish`, a `Read` is `Observe` (the event
read is the next of the log by `DeliveryInOrder`), `ServeRequest` is `Serve` for a
caller that waits (`RequestsAreFresh`: it was not served before) and a stutter for
one that is gone, the steps of a client are those of its call, where a stream that
breaks off has not delivered everything (`CutIsBehind`, from `LagInv`), and the
steps of relays stutter.

`TrackerProofs` proves, for any sets of streams and kill callers, any amount of
output, any capacities, with or without faults (`NamesAssumption`,
`BoundsAssumption`):

* `TrackerInvariant`: `Spec => []IndInv`, where `IndInv` is `TypeOK` and `TrackerInv`;
* `OutputIsInOrder`, `EOFIsComplete`, `TerminalEventSealsTheLog`, `KillOkIsTrue`,
  `KillerKnows`: the safety properties of the tracker's runs;
* `SettledJobStays`: `Spec => SettledJobIsFinal`;
* `TrackerKeepsContract`: `Spec => ImplementsJobContract`.

The parts of `TrackerInv` lean on each other. `ChildInv` says that the child is
reaped once and that nobody is a killer before; so a kill that is being served
(`pc = "killing"`) finds no killer and no retained request, which is why at most
one caller is ever recorded. `RequestInv` says that a request is in the channel
once, or served, or retained, and that its caller then waits or has given up;
without "once" two answers to one caller could disagree. `WaitInv` is its
converse: whoever waits has such a request, so nobody waits for a `wait()` that
has returned. `LoopInv` ties the end
of the loop to its cause: without an error both streams are given up and the
child is settled. `StreamInv` says that a stream is given up only when it is
closed, read to its end and its channel empty; the three together give
`EOFMeansComplete`, with `TerminalInv` identifying an EOF in the log with an
error-free end of the loop. `OrderInv` says that the log, the event in hand and
the channel of a stream continue each other with growing numbers; `PumpRead`,
`SelectFrame` and `Send` move one chunk along that line and each has a lemma of
its own. `OutputInOrder` is proved in its three parts (`OutputParts`): the chunks
are logged in order, without a gap between them (`Gapless`), and none is lost.

In the refinement of `JobContract`, `KillSend`, `KillNotRunning` and `KillGivesUp` are `Ask`, `TooLate` and `GiveUp`;
taking a request from the channel to serve it is a stutter, since it stays asked;
`KillDone` is `Record` and `KillFails` or a refusal is `Refuse`; `SelectWait` is
`Settle`, where `RequestInv` says that the retained requests that still wait are
those of the recorded killer; `EndSend` is `Seal`, with `TerminalInv` for what the
log shows before and after and `LoopInv` for EOF; `Return` is `End`, where
`WaitInv` says that the requests dropped are all there are. All other steps
stutter (`OthersSealNothing`, `OthersAskNothing`).

`JobContractProofs` proves what the contract itself is worth, for any callers
(`Distinct`: nobody, a caller and the end of a log differ): `ContractInvariant`
(answers are true and stay true, and whoever waits can still be answered),
`OneCallerKills` (at most one `kill()` is told that it killed) and `JobOnlyEnds`
(an ended job does not run again, the killer on record is not replaced). Whatever
implements the contract inherits this.

`JobPipelineProofs` proves, for any finite set of streams, with or without faults
and kills (in addition `JobBoundsAssumption`):

* `JobImplementsTracker`: `JobSpec => ImplementsTracker`, since a step of the
  broadcaster leaves the tracker's variables alone or takes an event from the
  channel, which is `TakeFrame` of `Tracker`;
* `JobImplementsBroadcaster`: `JobSpec => ImplementsBroadcaster`. A step of the
  tracker is a stutter, a frame or a terminal event of the broadcaster's
  environment. That it is never an event after the terminal one, and that the
  channel is not closed before it, is where `TrackerInv` is needed; that there
  are no more frames than the bound is a fact about cardinalities
  (`ChunksAreFinite`, `RoomForChunk`, `HandIsNew`);
* `WholeOutputIsRead`: `EOFMeansWholeOutput`. By the two theorems before, the
  invariants of both modules hold of the composed job. `DoneMeansComplete` makes
  what the client got equal to the log, `EOFMeansComplete` and `OutputInOrder`
  say what the log is;
* `PrefixOfOutputIsRead`: `ReadersSeeWhatWasWritten`. The events a client has are
  a prefix of the log (`StreamsArePrefixes`), and the chunks of a stream stand in
  the log in order and without a gap (`OutputIsInOrder`);
* `JobImplementsLogStream` and `JobKeepsContract`: the composed job implements
  both abstract specifications, since implementing is transitive.

`ServiceProofs` proves, for any users, ids, calls and log length (`NamesAssumption`,
`BoundsAssumption`):

* `ServiceInvariant`: `Spec => []IndInv`;
* `OnlyOwnersAct`, `AnswersOnlyMoveForward`, `SpawnedIsFound`,
  `CleanEndIsComplete`: the safety properties of the run `service`;
* `ServiceKeepsContract`: `Spec => ImplementsJobContract`;
* `KillAnswersHold`: a kill answered ok is on record and holds the job as it ended.

`SpawnedIsFound` has two parts: the owner of an answered spawn finds the job, and
a job that nobody can find has a spawn call that is about to store it or was
dropped there (`OrphanStep`: only `SpawnChild` makes a job, `Register` stores it,
and `Disconnect` is the one other step such a call can take).

The argument rests on three monotone facts. A job, once started, keeps its owner
and only moves forward (`JobsMove`). An answer is final (`AnswersStay`). And a
step of one call is not seen by the others (`UntouchedByOthers`). So `CallInv`,
which says what a handler knows at each place of its code, is disturbed by steps
of its own only, and what `AnswerInv` says of an answer stays true while the job
moves on. For `AnswersMoveForward` take a new answer: it holds the snapshot of
this moment, which is not older than any earlier answer (`NewAnswer`), unless it
comes from `spawn`, which answers with the job as it started; but then the job is
new, and `BeforeInv` says that no call answered before was about it.

`KillInv` follows a kill request: it waits to be served, or is on record, or has
been answered, and its caller hears what became of the job. It gives the second
half of `OnlyTheOwnerActs`, `KillAnswersHold`, and the refinement: for a job, the
steps of its tracker are `Record`, `Refuse`, `Settle`, `Seal` and `End`, those of
its kill calls `Ask`, `TooLate` and `GiveUp`, and everything else, steps of other
jobs included, leaves its part of the state alone (`ContractStutters`). That a
request is about one job only (`asked`, `job[j].killed` and `req[r].id` agree) is
what makes the last point true.

`WinStreamProofs` proves, for any amount of output and any sizes:

* `StreamTypeCorrect`, `StreamInvariant` (`IndInv`);
* `StreamKeepsOrder`, `StreamEOFIsTrue`, `NoWakeUpIsLost`: `BytesInOrder`,
  `EOFMeansComplete` and `SleeperIsWoken`.

What the task has read, the rest of its chunk, the queue and the item in the
thread's hand continue each other; each action moves bytes along that line. A
sleeping task with something in its queue is one whose waker the thread is about
to use: `register` comes before the second look into the channel, and `wake`
after `send`.

`WinHandlesProofs` proves, for any number of jobs, streams, threads and values:

* `HandlesTypeCorrect`, `HandlesInvariant` (`IndInv`);
* `NoHandleIsClosedTwice`, `KillIsOnTarget`, `WaitsAreOnTarget`,
  `HandlesAreReturned`: the other four properties of the run `win_handles`.

`OwnershipInv` makes table and owners correspond one to one: what a `Handle` holds
denotes its object (`HandleIsOwn`), and what is open is held under that value
(`OpenIsOwned`). Since a value has one owner, closing one owner's handle leaves
every other alone. `CloneInv` says that the clone of the kill thread equals the
handle of a tracker that waits for it, and that the clones of waiting threads do
so as long as the tracker lives; after that they may denote anything, which harms
nobody, because a clone is not closed and nobody is left to be woken.

Only model-checked: liveness (`RelaysWindDown`, `KillsAreAnswered`,
`ExitIsNoticed`, `LogIsSealed`, `RequestsAreAnswered`, `OutputReachesReaders`,
`OutputArrives`), which rests on fairness and `ENABLED`. The module `WinKill` has
no theorem: its one property is violated. All safety properties that the runs
check are proved.

## What is not modelled

TLS and certificate parsing, tonic and prost, tracing, timestamps, the contents
of frames; the clap front ends and what the client prints. The command line of a
Windows child (`WinArgs`) joins the arguments with blanks and quotes nothing;
that is a pure function of strings. `src/pb/jobs.rs` is generated from
`proto/jobs.proto` and has no logic of the repository. A large part of `coord.rs`
and `win.rs` is tests. When the server quits its jobs should be terminated
(`README.md:8`); no code of the repository runs when a signal ends the server
(`src/bin/server.rs:37`), so there is nothing to model. Nothing is persisted, so
there is no recovery either.

Every hazard in `PROJECT.json` names the properties that watch it. Not watched is
the number of threads that `WaitChild` starts, one for each poll that finds the
child running, which the code does not limit.

## Plan

1. Done: `LogStream`, `Broadcaster`, `Tracker`, `Service`, `WinStream`, `WinKill`,
   with their runs; theorems about the first three.
2. Done: `JobPipeline` and `WinHandles`, empty writes in `WinStream`, the client's
   exit in `Service`; theorems about all four, and about overflow in `Broadcaster`.
3. Done: `JobContract`, the abstract job, with `Tracker` shown and proved to
   implement it.
4. Done: `Service` over `JobContract` instead of its own reduction of a job; the
   composed job proved to implement both abstract specifications and to lose
   nothing between a pipe and a reader; what follows from the contract.
5. Done: the calls of `logs` in `LogStream`; readers that overflow in
   `JobPipeline`; liveness of the tracker with faults; jobs that are out of reach
   in `Service`.
6. Open: theorems about `WinKill` with the thread's send and wake in the other
   order.
