------------------------------- MODULE Service -------------------------------
(***************************************************************************)
(* The RPC handlers of src/grpc.rs (GrpcStoreImpl) on top of               *)
(* MemoryCoordinator in src/proc/coord.rs: who may do what to which job,   *)
(* what each of the four calls answers, and the task that forwards a log   *)
(* stream to its connection.                                               *)
(*                                                                         *)
(* One action is the code of a handler between two awaits.  The two        *)
(* mutexes (of the job map, and of a tracker) are only held for one        *)
(* statement each, so taking one is one step, and a handler may be         *)
(* dropped while it waits for it.  A job is what JobContract.tla, which    *)
(* the tracker keeps, and the log of Broadcaster.tla show of it.           *)
(***************************************************************************)
EXTENDS Naturals, Sequences

CONSTANTS
  Users,      \* the subjects of the client certificates
  JobIds,     \* the ids JobId::default() can return
  Requests,   \* the RPCs that arrive, one element each
  NoOne,      \* no user, or no request
  Blank,      \* an empty job id or command name
  Command,    \* a command name
  MaxFrames   \* bound: frames in the log of one job

ASSUME NamesAssumption == /\ NoOne \notin Users \union Requests \union {"EOF", "Err"}
                          /\ Blank # Command /\ {Blank, Command} \intersect JobIds = {}
ASSUME BoundsAssumption == MaxFrames \in Nat

VARIABLES
  jobs,      \* the keys of Memory::jobs
  job,       \* job[j]: the snapshot the tracker of j serves
  tracker,   \* tracker[j]: wait() was not started, runs, or has returned
  log,       \* log[j]: how many frames, and how it ends
  req,       \* req[r]: what r asks for, on whose behalf, and where it is
  answer,    \* answer[r]: the status of the response, and the job in it
  asked,     \* asked[j]: kill requests the tracker of j has yet to serve
  told,      \* told[r]: how kill() stands, or ended, for its caller
  before,    \* before[r]: the requests that were answered when r came in
  fwd,       \* fwd[r]: the forwarding task of a logs request
  taken,     \* taken[r]: frames that task has received
  wire,      \* wire[r]: its channel to the connection, of capacity 1
  seen,      \* seen[r]: frames the client has received
  stream     \* stream[r]: how the client sees the stream

jobVars    == <<jobs, job, tracker, log>>
callVars   == <<req, answer, before>>
killVars   == <<asked, told>>
streamVars == <<fwd, taken, wire, seen, stream>>
vars == <<jobVars, callVars, killVars, streamVars>>

Kinds == {"spawn", "logs", "ps", "kill"}

\* ExitStatus.code is None ("nocode") for a child that a signal has ended.
States == {"unborn", "running", "code", "nocode"}
Ended == {"code", "nocode"}
\* JobKilled, a time and a user, is the request that led to it.
Jobs == [user : Users \union {NoOne}, state : States, killed : Requests \union {NoOne}]
Unborn == [user |-> NoOne, state |-> "unborn", killed |-> NoOne]
Started(u) == [user |-> u, state |-> "running", killed |-> NoOne]

Codes == {"none", "ok", "Unauthenticated", "InvalidArgument", "NotFound", "Internal"}

TypeOK ==
  /\ jobs \in SUBSET JobIds
  /\ job \in [JobIds -> Jobs]
  /\ tracker \in [JobIds -> {"none", "running", "over"}]
  /\ log \in [JobIds -> [len : 0..MaxFrames, end : {"open", "EOF", "Err"}]]
  /\ req \in [Requests -> [pc : {"idle", "called", "registering", "found", "subscribing",
                                 "asking", "waiting", "answered", "panicked", "gone"},
                           user : Users \union {NoOne},
                           kind : Kinds,
                           id : JobIds \union {Blank, Command}]]
  /\ answer \in [Requests -> [code : Codes, job : Jobs]]
  /\ asked \in [JobIds -> SUBSET Requests]
  /\ told \in [Requests -> {"none", "waiting", "ok", "failed", "dropped", "gone", "notRunning"}]
  /\ before \in [Requests -> SUBSET Requests]
  /\ fwd \in [Requests -> {"none", "receiving", "sending", "failing", "ended"}]
  /\ taken \in [Requests -> 0..MaxFrames]
  /\ wire \in [Requests -> {"empty", "frame", "status"}]
  /\ seen \in [Requests -> 0..MaxFrames]
  /\ stream \in [Requests -> {"none", "open", "ok", "error", "dropped"}]

Init ==
  /\ jobs = {}
  /\ job = [j \in JobIds |-> Unborn]
  /\ tracker = [j \in JobIds |-> "none"]
  /\ log = [j \in JobIds |-> [len |-> 0, end |-> "open"]]
  /\ req = [r \in Requests |-> [pc |-> "idle", user |-> NoOne, kind |-> "ps", id |-> Blank]]
  /\ answer = [r \in Requests |-> [code |-> "none", job |-> Unborn]]
  /\ asked = [j \in JobIds |-> {}]
  /\ told = [r \in Requests |-> "none"]
  /\ before = [r \in Requests |-> {}]
  /\ fwd = [r \in Requests |-> "none"]
  /\ taken = [r \in Requests |-> 0]
  /\ wire = [r \in Requests |-> "empty"]
  /\ seen = [r \in Requests |-> 0]
  /\ stream = [r \in Requests |-> "none"]

-----------------------------------------------------------------------------
At(r, pc) == req[r].pc = pc
Goto(r, pc) == /\ req' = [req EXCEPT ![r].pc = pc]
               /\ UNCHANGED answer
Respond(r, code, snapshot) ==
  /\ req' = [req EXCEPT ![r].pc = "answered"]
  /\ answer' = [answer EXCEPT ![r] = [code |-> code, job |-> snapshot]]
Refuse(r, code) == Respond(r, code, Unborn)

(* The conversion of a Job into its protobuf message: it unwraps the exit  *)
(* code, and panics if there is none.                                      *)
Convertible(snapshot) == snapshot.state # "nocode"

(* A job in a response, or a handler that panics while it converts it.     *)
RespondJob(r, snapshot) == IF Convertible(snapshot)
                           THEN Respond(r, "ok", snapshot)
                           ELSE Goto(r, "panicked")

-----------------------------------------------------------------------------
(* The interceptor and the validation every handler starts with.           *)

(* The certificate chains a TLS peer can present, as their subjects.       *)
Chains == {<<>>} \union {<<u>> : u \in Users} \union {<<u, v>> : u, v \in Users}

OneCertificate(chain) == Len(chain) = 1

(* Validate: the only thing a handler refuses is an empty name or id.      *)
IsBlank(id) == id = Blank

Call(r, chain, kind, id) ==
  /\ At(r, "idle")
  /\ id \in IF kind = "spawn" THEN {Blank, Command} ELSE {Blank} \union JobIds
  /\ before' = [before EXCEPT ![r] = {q \in Requests : At(q, "answered")}]
  /\ LET call == [pc |-> "called", user |-> NoOne, kind |-> kind, id |-> id]
         refused == [call EXCEPT !.pc = "answered"]
     IN CASE ~OneCertificate(chain) ->
               /\ req' = [req EXCEPT ![r] = refused]
               /\ answer' = [answer EXCEPT ![r].code = "Unauthenticated"]
          [] OneCertificate(chain) /\ IsBlank(id) ->
               /\ req' = [req EXCEPT ![r] = [refused EXCEPT !.user = chain[1]]]
               /\ answer' = [answer EXCEPT ![r].code = "InvalidArgument"]
          [] OTHER ->
               /\ req' = [req EXCEPT ![r] = [call EXCEPT !.user = chain[1]]]
               /\ UNCHANGED answer
  /\ UNCHANGED <<jobVars, killVars, streamVars>>

-----------------------------------------------------------------------------
(* spawn.                                                                  *)

(* The child and its tracker are started under a fresh id.  Both run from  *)
(* here on, whatever becomes of the handler, which now waits for the lock. *)
SpawnChild(r, j) ==
  /\ At(r, "called") /\ req[r].kind = "spawn"
  /\ job[j] = Unborn
  /\ job' = [job EXCEPT ![j] = Started(req[r].user)]
  /\ tracker' = [tracker EXCEPT ![j] = "running"]
  /\ req' = [req EXCEPT ![r].pc = "registering", ![r].id = j]
  /\ UNCHANGED <<jobs, log, answer, before, killVars, streamVars>>

SpawnFails(r) ==
  /\ At(r, "called") /\ req[r].kind = "spawn"
  /\ Refuse(r, "Internal")
  /\ UNCHANGED <<jobVars, before, killVars, streamVars>>

(* The lock is taken: insert the tracker, answer with the job as it was    *)
(* when it started.  Faulty: the job is not stored.                        *)
WithoutJob(j) == jobs
WithJob(j) == jobs \union {j}

Register(r) ==
  /\ At(r, "registering")
  /\ jobs' = WithJob(req[r].id)
  /\ RespondJob(r, Started(req[r].user))
  /\ UNCHANGED <<job, tracker, log, before, killVars, streamVars>>

-----------------------------------------------------------------------------
(* get_tracker, with which the other three begin.                          *)

Lookup(r) ==
  /\ At(r, "called") /\ req[r].kind # "spawn"
  /\ IF req[r].id \in jobs THEN Goto(r, "found") ELSE Refuse(r, "NotFound")
  /\ UNCHANGED <<jobVars, before, killVars, streamVars>>

(* Faulty: the owner is not compared, or what is served is not current.    *)
IsOwnerAlways(r) == TRUE
IsOwner(r) == job[req[r].id].user = req[r].user
SnapshotAtStart(j) == Started(job[j].user)
Snapshot(j) == job[j]

(* The tracker's lock is taken: compare the owner with the caller, then go *)
(* on with what the caller asked for.                                      *)
Check(r) ==
  /\ At(r, "found")
  /\ CASE ~IsOwner(r) -> Refuse(r, "NotFound")
       [] IsOwner(r) /\ req[r].kind = "ps"   -> RespondJob(r, Snapshot(req[r].id))
       [] IsOwner(r) /\ req[r].kind = "logs" -> Goto(r, "subscribing")
       [] IsOwner(r) /\ req[r].kind = "kill" -> Goto(r, "asking")
  /\ UNCHANGED <<jobVars, before, killVars, streamVars>>

-----------------------------------------------------------------------------
(* kill, and what the tracker makes of it (Tracker.tla in detail).         *)

(* The outcome of kill() for its caller, who may be gone by then.          *)
Tell(R, outcome) == told' = [r \in Requests |-> IF r \in R /\ told[r] = "waiting"
                                                THEN outcome ELSE told[r]]

(* The request gets into the tracker's channel.                            *)
AskKill(r) ==
  /\ At(r, "asking")
  /\ tracker[req[r].id] = "running"
  /\ asked' = [asked EXCEPT ![req[r].id] = @ \union {r}]
  /\ told' = [told EXCEPT ![r] = "waiting"]
  /\ Goto(r, "waiting")
  /\ UNCHANGED <<jobVars, before, streamVars>>

(* The receiver is gone: JobNotRunning, which grpc.rs reports as NotFound. *)
KillTooLate(r) ==
  /\ At(r, "asking")
  /\ tracker[req[r].id] = "over"
  /\ told' = [told EXCEPT ![r] = "notRunning"]
  /\ Refuse(r, "NotFound")
  /\ UNCHANGED <<jobVars, before, asked, streamVars>>

Sealed(j) == log[j].end # "open"

(* wait() serves the request: the child is dead now and this request is on *)
(* record for it, or the child could not be killed.  Faulty: whoever asks  *)
(* last is recorded.  wait() itself asks for neither of the two conditions *)
(* of Recordable: a killer on record and a noticed exit both mean that the *)
(* child was reaped, and tokio refuses to kill a reaped child.             *)
RecordableAlways(j) == TRUE
Recordable(j) == job[j].state = "running" /\ job[j].killed = NoOne

ServeKill(j, r) ==
  /\ r \in asked[j] /\ ~Sealed(j)
  /\ asked' = [asked EXCEPT ![j] = @ \ {r}]
  /\ \/ /\ Recordable(j)
        /\ job' = [job EXCEPT ![j].killed = r]
        /\ UNCHANGED told
     \/ /\ Tell({r}, "failed")
        /\ UNCHANGED job
  /\ UNCHANGED <<jobs, tracker, log, callVars, streamVars>>

(* wait() notices that the child has exited, and answers its killer.       *)
ChildExits(j, how) ==
  /\ tracker[j] = "running" /\ ~Sealed(j)
  /\ job[j].state = "running"
  /\ job' = [job EXCEPT ![j].state = how]
  /\ Tell({job[j].killed}, "ok")
  /\ UNCHANGED <<jobs, tracker, log, asked, callVars, streamVars>>

(* The child writes, before or after it has exited.                        *)
Output(j) ==
  /\ tracker[j] = "running" /\ ~Sealed(j)
  /\ log[j].len < MaxFrames
  /\ log' = [log EXCEPT ![j].len = @ + 1]
  /\ UNCHANGED <<jobs, job, tracker, callVars, killVars, streamVars>>

(* wait() leaves its loop, with EOF once the child has exited or else      *)
(* after an error, and sends the last event of the log.                    *)
Seal(j, end) ==
  /\ tracker[j] = "running" /\ ~Sealed(j)
  /\ end = "EOF" => job[j].state \in Ended
  /\ log' = [log EXCEPT ![j].end = end]
  /\ UNCHANGED <<jobs, job, tracker, callVars, killVars, streamVars>>

(* wait() returns, and the oneshots it still holds are dropped with it.    *)
TrackerReturns(j) ==
  /\ tracker[j] = "running" /\ Sealed(j)
  /\ tracker' = [tracker EXCEPT ![j] = "over"]
  /\ asked' = [asked EXCEPT ![j] = {}]
  /\ Tell({r \in Requests : req[r].id = j}, "dropped")
  /\ UNCHANGED <<jobs, job, log, callVars, streamVars>>

(* kill() gets its answer.                                                 *)
KillReturns(r) ==
  /\ At(r, "waiting")
  /\ told[r] \in {"ok", "failed", "dropped"}
  /\ IF told[r] = "ok" THEN RespondJob(r, job[req[r].id]) ELSE Refuse(r, "Internal")
  /\ UNCHANGED <<jobVars, before, killVars, streamVars>>

(* The one-second timeout.  The request stays with the tracker.            *)
KillTimesOut(r) ==
  /\ At(r, "waiting")
  /\ told[r] = "waiting"
  /\ Tell({r}, "gone")
  /\ Refuse(r, "Internal")
  /\ UNCHANGED <<jobVars, before, asked, streamVars>>

-----------------------------------------------------------------------------
(* logs: the response, and the task that feeds it.                         *)

(* The broadcaster hands out a receiver.                                   *)
Subscribe(r) ==
  /\ At(r, "subscribing")
  /\ fwd' = [fwd EXCEPT ![r] = "receiving"]
  /\ stream' = [stream EXCEPT ![r] = "open"]
  /\ Respond(r, "ok", Unborn)
  /\ UNCHANGED <<jobVars, before, killVars, taken, wire, seen>>

(* It does not within a second.                                            *)
SubscribeFails(r) ==
  /\ At(r, "subscribing")
  /\ Refuse(r, "Internal")
  /\ UNCHANGED <<jobVars, before, killVars, streamVars>>

(* records.recv() yields the next event of the log.  Faulty: also one that *)
(* is not there.                                                           *)
HasFrameOrNot(r) == taken[r] <= log[req[r].id].len
HasFrame(r) == taken[r] < log[req[r].id].len
HasEnd(r, end) == ~HasFrame(r) /\ log[req[r].id].end = end

ForwardFrame(r) ==
  /\ fwd[r] = "receiving"
  /\ HasFrame(r)
  /\ taken' = [taken EXCEPT ![r] = @ + 1]
  /\ fwd' = [fwd EXCEPT ![r] = "sending"]
  /\ UNCHANGED <<jobVars, callVars, killVars, wire, seen, stream>>

(* EOF: the task ends without a word.                                      *)
ForwardEOF(r) ==
  /\ fwd[r] = "receiving"
  /\ HasEnd(r, "EOF")
  /\ fwd' = [fwd EXCEPT ![r] = "ended"]
  /\ UNCHANGED <<jobVars, callVars, killVars, taken, wire, seen, stream>>

(* Error, or the broadcaster's side is gone (None), which may happen at    *)
(* any time as far as this task knows: send a status before ending.        *)
(* Faulty: it ends at once.                                                *)
AfterErrorSilence == "ended"
AfterError == "failing"

ForwardError(r) ==
  /\ fwd[r] = "receiving"
  /\ HasEnd(r, "Err")
  /\ fwd' = [fwd EXCEPT ![r] = AfterError]
  /\ UNCHANGED <<jobVars, callVars, killVars, taken, wire, seen, stream>>

ForwardCut(r) ==
  /\ fwd[r] = "receiving"
  /\ fwd' = [fwd EXCEPT ![r] = AfterError]
  /\ UNCHANGED <<jobVars, callVars, killVars, taken, wire, seen, stream>>

(* tx.send() of a frame or of the final status.                            *)
ForwardSend(r) ==
  /\ stream[r] = "open"
  /\ wire[r] = "empty"
  /\ \/ /\ fwd[r] = "sending"
        /\ wire' = [wire EXCEPT ![r] = "frame"]
        /\ fwd' = [fwd EXCEPT ![r] = "receiving"]
     \/ /\ fwd[r] = "failing"
        /\ wire' = [wire EXCEPT ![r] = "status"]
        /\ fwd' = [fwd EXCEPT ![r] = "ended"]
  /\ UNCHANGED <<jobVars, callVars, killVars, taken, seen, stream>>

(* tx.send() fails: the connection is gone.                                *)
ForwardDropped(r) ==
  /\ stream[r] # "open"
  /\ fwd[r] \in {"sending", "failing"}
  /\ fwd' = [fwd EXCEPT ![r] = "ended"]
  /\ UNCHANGED <<jobVars, callVars, killVars, taken, wire, seen, stream>>

(* The client takes a message of the stream.                               *)
ClientTakes(r) ==
  /\ stream[r] = "open"
  /\ wire[r] # "empty"
  /\ wire' = [wire EXCEPT ![r] = "empty"]
  /\ IF wire[r] = "frame"
     THEN seen' = [seen EXCEPT ![r] = @ + 1] /\ UNCHANGED stream
     ELSE stream' = [stream EXCEPT ![r] = "error"] /\ UNCHANGED seen
  /\ UNCHANGED <<jobVars, callVars, killVars, fwd, taken>>

(* The client sees the stream end well: the sender is gone.                *)
ClientEnds(r) ==
  /\ stream[r] = "open"
  /\ wire[r] = "empty"
  /\ fwd[r] = "ended"
  /\ stream' = [stream EXCEPT ![r] = "ok"]
  /\ UNCHANGED <<jobVars, callVars, killVars, fwd, taken, wire, seen>>

(* The client program: must_ok exits with code 1 on any error status, in   *)
(* place of a response or of the next message of the stream; main() ends   *)
(* well after a response, for logs after the end of the stream.            *)
MustOk(r) == /\ At(r, "answered") /\ answer[r].code = "ok"
             /\ stream[r] \notin {"error", "dropped"}
Succeeds(r) == MustOk(r) /\ (req[r].kind = "logs" => stream[r] = "ok")

-----------------------------------------------------------------------------
(* The connection breaks: a handler is dropped where it waits, and so is   *)
(* the receiver of a stream.  What was started or asked for goes on.       *)
Disconnect(r) ==
  \/ /\ req[r].pc \in {"called", "registering", "found", "subscribing", "asking", "waiting"}
     /\ Goto(r, "gone")
     /\ Tell({r}, "gone")
     /\ UNCHANGED <<jobVars, before, asked, streamVars>>
  \/ /\ stream[r] = "open"
     /\ stream' = [stream EXCEPT ![r] = "dropped"]
     /\ wire' = [wire EXCEPT ![r] = "empty"]
     /\ UNCHANGED <<jobVars, callVars, killVars, fwd, taken, seen>>

Handler(r) == \/ \E j \in JobIds : SpawnChild(r, j)
              \/ SpawnFails(r) \/ Register(r)
              \/ Lookup(r) \/ Check(r)
              \/ AskKill(r) \/ KillTooLate(r) \/ KillReturns(r) \/ KillTimesOut(r)
              \/ Subscribe(r) \/ SubscribeFails(r)

Forwarder(r) == \/ ForwardFrame(r) \/ ForwardEOF(r) \/ ForwardError(r) \/ ForwardCut(r)
                \/ ForwardSend(r) \/ ForwardDropped(r)

Peer(r) == \/ \E chain \in Chains, kind \in Kinds, id \in JobIds \union {Blank, Command} :
                Call(r, chain, kind, id)
           \/ ClientTakes(r) \/ ClientEnds(r) \/ Disconnect(r)

Track(j) == \/ \E r \in asked[j] : ServeKill(j, r)
            \/ \E how \in Ended : ChildExits(j, how)
            \/ Output(j)
            \/ \E end \in {"EOF", "Err"} : Seal(j, end)
            \/ TrackerReturns(j)

Next == \/ \E r \in Requests : Handler(r) \/ Forwarder(r) \/ Peer(r)
        \/ \E j \in JobIds : Track(j)

Spec == Init /\ [][Next]_vars

-----------------------------------------------------------------------------
(* Safety.                                                                 *)

Answered(r, code) == At(r, "answered") /\ answer[r].code = code
IsStranger(r) == /\ req[r].id \in JobIds
                 /\ req[r].user # job[req[r].id].user

(* Whoever does not own a job can neither see, stream nor kill it, and     *)
(* gets the answer to be had for an id that does not exist, whatever the   *)
(* job is doing (coord.rs: "intentionally ambiguous").                     *)
OnlyTheOwnerActs ==
  /\ \A r \in Requests : IsStranger(r) =>
       /\ req[r].pc \in {"called", "found", "answered", "gone"}
       /\ At(r, "answered") => answer[r].code \in {"NotFound", "Unauthenticated"}
       /\ told[r] = "none" /\ stream[r] = "none"
  /\ \A j \in JobIds : job[j].killed # NoOne => req[job[j].killed].user = job[j].user

(* Of two answers about a job, the second to a call made after the first   *)
(* was answered, the second is not older: a killer stays recorded, and an  *)
(* end is final, though one may come from the handler of spawn, one from   *)
(* the tracker's snapshot and one through a kill request's oneshot.        *)
NotOlder(a, b) ==
  \/ a = b
  \/ a.state = "running" /\ (a.killed = NoOne \/ b.killed = a.killed)
AnswersMoveForward ==
  \A q, r \in Requests :
    (/\ q \in before[r]
     /\ Answered(q, "ok") /\ Answered(r, "ok")
     /\ req[q].id = req[r].id
     /\ req[q].kind # "logs" /\ req[r].kind # "logs")
      => NotOlder(answer[q].job, answer[r].job)

(* A call of spawn that has started the child of j and has not stored the  *)
(* tracker: it waits for the lock, or was dropped while it did.            *)
Unregistered(j) ==
  \E r \in Requests : /\ req[r].kind = "spawn"
                       /\ req[r].id = j
                       /\ req[r].pc \in {"registering", "gone"}

(* Once spawn has answered, the owner finds the job for good; kill alone   *)
(* may say NotFound, and only when the job is over.  A job that nobody can *)
(* find ("jobs that are successfully started end up in the jobs field",    *)
(* coord.rs:105) is one whose spawn call waits for the lock or was dropped *)
(* there; no other order of calls, kills and broken connections makes one. *)
SpawnedJobIsFound ==
  /\ \A q, r \in Requests :
       (/\ q \in before[r] /\ req[q].kind = "spawn" /\ Answered(q, "ok")
        /\ req[r].id = req[q].id /\ req[r].user = req[q].user
        /\ Answered(r, "NotFound"))
         => req[r].kind = "kill" /\ tracker[req[r].id] = "over"
  /\ \A j \in JobIds : job[j] # Unborn /\ j \notin jobs => Unregistered(j)

(* A client program that asked for a log and exits with success has        *)
(* written the complete log of a job that ended in order.                  *)
CleanEndMeansComplete ==
  \A r \in Requests :
    req[r].kind = "logs" /\ Succeeds(r) =>
      log[req[r].id] = [len |-> seen[r], end |-> "EOF"]

(* Every job the service tracks keeps the promise of JobContract.tla to    *)
(* those who reach it by RPC: the calls of kill are its killers, wherever  *)
(* they are in their handlers.                                             *)
Contract(j) == INSTANCE JobContract WITH
  Killers <- Requests, EOF <- "EOF", Err <- "Err",
  running <- job[j].state \in {"unborn", "running"},
  killed <- job[j].killed,
  sealed <- IF Sealed(j) THEN log[j].end ELSE NoOne,
  over <- tracker[j] = "over",
  asked <- asked[j],
  call <- [r \in Requests |-> IF req[r].id = j /\ told[r] # "none" THEN told[r] ELSE "idle"]

ImplementsJobContract ==
  /\ \A j \in JobIds : Contract(j)!Init
  /\ [][\A j \in JobIds : [Contract(j)!Next]_(Contract(j)!vars)]_vars

(* What makes these inductive (ServiceProofs.tla).                         *)

(* The job that r is about exists, and belongs to r's caller.              *)
Entitled(r) == /\ req[r].id \in JobIds /\ req[r].user \in Users
               /\ req[r].user = job[req[r].id].user

JobInv(j) ==
  /\ job[j].user = NoOne \/ job[j].state = "unborn" => job[j] = Unborn
  /\ job[j] = Unborn <=> tracker[j] = "none"
  /\ j \in jobs => job[j] # Unborn
  /\ tracker[j] = "over" => Sealed(j)
  /\ Sealed(j) => tracker[j] # "none"
  /\ log[j].end = "EOF" => job[j].state \in Ended

(* A kill request is on record, or to be served, or done with; what its    *)
(* caller hears is what has become of the job.                             *)
Killed(r) == req[r].id \in JobIds /\ job[req[r].id].killed = r

KillInv(r) ==
  /\ At(r, "waiting") => told[r] \in {"waiting", "ok", "failed", "dropped"}
  /\ told[r] = "waiting" => /\ At(r, "waiting")
                            /\ tracker[req[r].id] = "running"
                            /\ Killed(r) \/ r \in asked[req[r].id]
                            /\ Killed(r) => job[req[r].id].state = "running"
  /\ told[r] = "ok" => Killed(r) /\ job[req[r].id].state \in Ended
  /\ told[r] = "notRunning" => tracker[req[r].id] = "over"
  /\ At(r, "answered") /\ req[r].kind = "kill" /\ answer[r].code = "ok" =>
       told[r] = "ok" /\ answer[r].job = job[req[r].id]
  /\ \A j \in JobIds :
       /\ r \in asked[j] => /\ req[r].id = j /\ tracker[j] = "running"
                            /\ told[r] \in {"waiting", "gone"}
                            /\ job[j].killed # r
       /\ job[j].killed = r => /\ req[r].id = j
                               /\ told[r] \in {"waiting", "ok", "gone", "dropped"}
                               /\ told[r] = "dropped" => log[j].end = "Err"

(* Where a handler is says what it has found out.                          *)
CallInv(r) ==
  /\ At(r, "idle") => req[r].id = Blank
  /\ At(r, "called") => /\ req[r].user \in Users
                        /\ req[r].id \in IF req[r].kind = "spawn" THEN {Command} ELSE JobIds
  /\ At(r, "found") => /\ req[r].user \in Users
                       /\ req[r].id \in JobIds
                       /\ req[r].kind # "spawn"
  /\ At(r, "registering") => req[r].kind = "spawn"
  /\ At(r, "subscribing") => req[r].kind = "logs"
  /\ req[r].pc \in {"asking", "waiting"} \/ told[r] # "none" => req[r].kind = "kill"
  /\ \/ req[r].pc \in {"registering", "subscribing", "asking", "waiting", "panicked"}
     \/ told[r] # "none"
     \/ req[r].kind = "spawn" /\ req[r].id \in JobIds
     => Entitled(r)
  /\ told[r] # "none" => req[r].pc \notin {"idle", "called", "found", "registering", "asking"}

(* An answer says what its handler has found out, and stays true.          *)
AnswerInv(r) ==
  At(r, "answered") =>
    /\ answer[r].code # "none"
    /\ answer[r].code = "InvalidArgument" => req[r].id = Blank
    /\ answer[r].code = "NotFound" => req[r].kind # "spawn"
    /\ answer[r].code = "Internal" => Entitled(r) \/ req[r].id = Command
    /\ answer[r].code = "ok" =>
         /\ Entitled(r)
         /\ req[r].kind = "spawn" => req[r].id \in jobs
         /\ req[r].kind # "logs" => NotOlder(answer[r].job, job[req[r].id])

(* A call that came in later: it cannot spawn a job answered for before.   *)
BeforeInv(r) ==
  \A q \in before[r] :
    /\ At(q, "answered")
    /\ req[r].kind = "spawn" /\ answer[q].code = "ok" => req[r].id # req[q].id

(* Frames between the log and the client.                                  *)
ForwardInv(r) ==
  /\ stream[r] = "none" <=> fwd[r] = "none"
  /\ stream[r] = "none" => wire[r] = "empty" /\ taken[r] = 0 /\ seen[r] = 0
  /\ stream[r] # "none" =>
       /\ At(r, "answered") /\ req[r].kind = "logs" /\ Entitled(r)
       /\ taken[r] <= log[req[r].id].len
  /\ stream[r] = "open" =>
       /\ taken[r] = seen[r] + (IF wire[r] = "frame" THEN 1 ELSE 0)
                             + (IF fwd[r] = "sending" THEN 1 ELSE 0)
       /\ wire[r] = "status" => fwd[r] = "ended"
       /\ fwd[r] = "ended" /\ wire[r] # "status" =>
            log[req[r].id] = [len |-> taken[r], end |-> "EOF"]
  /\ stream[r] = "ok" => log[req[r].id] = [len |-> seen[r], end |-> "EOF"]

ServiceInv ==
  /\ \A j \in JobIds : JobInv(j)
  /\ \A r \in Requests : /\ CallInv(r) /\ AnswerInv(r) /\ BeforeInv(r) /\ ForwardInv(r)
                         /\ KillInv(r)
  /\ AnswersMoveForward /\ SpawnedJobIsFound

(* With the types: what every step preserves.                              *)
IndInv == TypeOK /\ ServiceInv

(* README.md:18 "ps: retrieves the job state for a job. The job does not   *)
(* have to be running": a ps call of the owner is not lost to a panic.     *)
PsDoesNotNeedARunningJob ==
  \A r \in Requests : req[r].kind = "ps" => ~At(r, "panicked")
==============================================================================
