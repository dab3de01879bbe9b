---------------------------- MODULE ServiceProofs ----------------------------
(***************************************************************************)
(* Theorems about Service.tla, for any users, calls, ids and log length.   *)
(*                                                                         *)
(* The steps of a handler are Goto and Respond, which other calls do not   *)
(* see; a job, once started, keeps its owner and only moves forward; an    *)
(* answer is final.  From this the invariant follows call by call.         *)
(***************************************************************************)
EXTENDS Service, TLAPS

PCs == {"idle", "called", "registering", "found", "subscribing",
        "asking", "waiting", "answered", "panicked", "gone"}
ReqT == req \in [Requests -> [pc : PCs,
                              user : Users \union {NoOne},
                              kind : Kinds,
                              id : JobIds \union {Blank, Command}]]
AnswerT == answer \in [Requests -> [code : Codes, job : Jobs]]
JobT == job \in [JobIds -> Jobs]
LogT == log \in [JobIds -> [len : 0..MaxFrames, end : {"open", "EOF", "Err"}]]
JobsT == jobs \in SUBSET JobIds /\ tracker \in [JobIds -> {"none", "running", "over"}]
KillT == /\ asked \in [JobIds -> SUBSET Requests]
         /\ told \in [Requests -> {"none", "waiting", "ok", "failed", "dropped", "gone", "notRunning"}]
BeforeT == before \in [Requests -> SUBSET Requests]
ForwardT == /\ fwd \in [Requests -> {"none", "receiving", "sending", "failing", "ended"}]
            /\ taken \in [Requests -> 0..MaxFrames]
ClientT == /\ wire \in [Requests -> {"empty", "frame", "status"}]
           /\ seen \in [Requests -> 0..MaxFrames]
           /\ stream \in [Requests -> {"none", "open", "ok", "error", "dropped"}]

LEMMA Types == TypeOK <=> /\ ReqT /\ AnswerT /\ JobT /\ LogT /\ JobsT /\ KillT /\ BeforeT
                          /\ ForwardT /\ ClientT
  BY DEF TypeOK, PCs, ReqT, AnswerT, JobT, LogT, JobsT, KillT, BeforeT, ForwardT, ClientT

-----------------------------------------------------------------------------
(* Types.                                                                  *)

LEMMA JobValues ==
  /\ Unborn \in Jobs
  /\ \A u \in Users \union {NoOne} : Started(u) \in Jobs
  BY DEF Unborn, Started, Jobs, States

LEMMA GotoType ==
  ASSUME ReqT, AnswerT, NEW r \in Requests, NEW pc \in PCs, Goto(r, pc)
  PROVE  ReqT' /\ AnswerT'
  BY DEF ReqT, AnswerT, Goto

LEMMA RespondType ==
  ASSUME ReqT, AnswerT, NEW r \in Requests, NEW code \in Codes, NEW snapshot \in Jobs,
         Respond(r, code, snapshot)
  PROVE  ReqT' /\ AnswerT'
  BY DEF ReqT, AnswerT, Respond, PCs

LEMMA RespondJobType ==
  ASSUME ReqT, AnswerT, NEW r \in Requests, NEW snapshot \in Jobs, RespondJob(r, snapshot)
  PROVE  ReqT' /\ AnswerT'
  BY GotoType, RespondType DEF RespondJob, PCs, Codes

LEMMA RefuseType ==
  ASSUME ReqT, AnswerT, NEW r \in Requests, NEW code \in Codes, Refuse(r, code)
  PROVE  ReqT' /\ AnswerT'
  BY RespondType, JobValues DEF Refuse

(* What Check does, for each kind of call.                                 *)
LEMMA CheckSteps ==
  ASSUME IndInv, NEW r \in Requests, Check(r)
  PROVE  /\ req[r].id \in JobIds /\ req[r].user \in Users /\ req[r].kind # "spawn"
         /\ \/ ~IsOwner(r) /\ Refuse(r, "NotFound")
            \/ Entitled(r) /\ req[r].kind = "ps" /\ RespondJob(r, job[req[r].id])
            \/ Entitled(r) /\ req[r].kind = "logs" /\ Goto(r, "subscribing")
            \/ Entitled(r) /\ req[r].kind = "kill" /\ Goto(r, "asking")
  <1>1. At(r, "found") /\ CallInv(r)
    BY DEF Check, IndInv, ServiceInv
  <1>2. req[r].id \in JobIds /\ req[r].user \in Users /\ req[r].kind # "spawn"
    BY <1>1 DEF CallInv
  <1>3. req[r].kind \in {"ps", "logs", "kill"}
    BY <1>2, Types DEF IndInv, ReqT, Kinds
  <1>4. IsOwner(r) => Entitled(r)
    BY <1>2 DEF IsOwner, Entitled
  <1>5. CASE ~IsOwner(r)
    BY <1>2, <1>5 DEF Check
  <1>6. CASE IsOwner(r) /\ req[r].kind = "ps"
    BY <1>2, <1>4, <1>6 DEF Check, Snapshot
  <1>7. CASE IsOwner(r) /\ req[r].kind = "logs"
    BY <1>2, <1>4, <1>7 DEF Check
  <1>8. CASE IsOwner(r) /\ req[r].kind = "kill"
    BY <1>2, <1>4, <1>8 DEF Check
  <1> QED
    BY <1>3, <1>5, <1>6, <1>7, <1>8

LEMMA HandlerType ==
  ASSUME IndInv, NEW r \in Requests, Handler(r)
  PROVE  ReqT' /\ AnswerT'
  <1>0. ReqT /\ AnswerT /\ JobT /\ CallInv(r)
    BY Types DEF IndInv, ServiceInv
  <1>j. req[r].user \in Users \union {NoOne} /\ \A j \in JobIds : job[j] \in Jobs
    BY <1>0 DEF ReqT, JobT
  <1>1. ASSUME NEW j \in JobIds, SpawnChild(r, j) PROVE ReqT' /\ AnswerT'
    BY <1>0, <1>1 DEF SpawnChild, ReqT, AnswerT, PCs
  <1>2. CASE SpawnFails(r) \/ KillTooLate(r) \/ KillTimesOut(r) \/ SubscribeFails(r)
    BY <1>0, <1>2, RefuseType DEF SpawnFails, KillTooLate, KillTimesOut, SubscribeFails, Codes
  <1>3. CASE Register(r)
    BY <1>0, <1>3, <1>j, RespondJobType, JobValues DEF Register
  <1>4. CASE Lookup(r)
    BY <1>0, <1>4, RefuseType, GotoType DEF Lookup, Codes, PCs
  <1>5. CASE Check(r)
    <2>1. /\ req[r].id \in JobIds
          /\ \/ Refuse(r, "NotFound") \/ RespondJob(r, job[req[r].id])
             \/ Goto(r, "subscribing") \/ Goto(r, "asking")
      BY <1>5, CheckSteps
    <2> QED
      BY <1>0, <1>j, <2>1, RefuseType, RespondJobType, GotoType DEF Codes, PCs
  <1>6. CASE AskKill(r)
    BY <1>0, <1>6, GotoType DEF AskKill, PCs
  <1>7. CASE KillReturns(r)
    <2>1. req[r].id \in JobIds
      BY <1>0, <1>7 DEF KillReturns, CallInv, Entitled, At
    <2> QED
      BY <1>0, <1>7, <1>j, <2>1, RefuseType, RespondJobType DEF KillReturns, Codes
  <1>8. CASE Subscribe(r)
    BY <1>0, <1>8, RespondType, JobValues DEF Subscribe, Codes
  <1> QED
    BY <1>1, <1>2, <1>3, <1>4, <1>5, <1>6, <1>7, <1>8 DEF Handler

(* What Call does, for each outcome.                                       *)
CallTo(r, pc, user, kind, id) ==
  req' = [req EXCEPT ![r] = [pc |-> pc, user |-> user, kind |-> kind, id |-> id]]

LEMMA CallSteps ==
  ASSUME NEW r \in Requests, NEW chain \in Chains, NEW kind \in Kinds,
         NEW id \in JobIds \union {Blank, Command}, Call(r, chain, kind, id)
  PROVE  /\ At(r, "idle")
         /\ before' = [before EXCEPT ![r] = {q \in Requests : At(q, "answered")}]
         /\ UNCHANGED <<jobs, job, tracker, log, asked, told, fwd, taken, wire, seen, stream>>
         /\ id \in IF kind = "spawn" THEN {Blank, Command} ELSE {Blank} \union JobIds
         /\ \/ /\ CallTo(r, "answered", NoOne, kind, id)
               /\ answer' = [answer EXCEPT ![r].code = "Unauthenticated"]
            \/ \E u \in Users :
                 /\ id = Blank
                 /\ CallTo(r, "answered", u, kind, id)
                 /\ answer' = [answer EXCEPT ![r].code = "InvalidArgument"]
            \/ \E u \in Users :
                 /\ id # Blank
                 /\ CallTo(r, "called", u, kind, id)
                 /\ UNCHANGED answer
  <1>1. OneCertificate(chain) => chain[1] \in Users
    BY DEF OneCertificate, Chains
  <1>2. /\ At(r, "idle")
        /\ before' = [before EXCEPT ![r] = {q \in Requests : At(q, "answered")}]
        /\ UNCHANGED <<jobs, job, tracker, log, asked, told, fwd, taken, wire, seen, stream>>
        /\ id \in IF kind = "spawn" THEN {Blank, Command} ELSE {Blank} \union JobIds
    BY DEF Call, jobVars, killVars, streamVars
  <1>3. CASE ~OneCertificate(chain)
    BY <1>2, <1>3 DEF Call, CallTo
  <1>4. CASE OneCertificate(chain) /\ IsBlank(id)
    <2>1. /\ CallTo(r, "answered", chain[1], kind, id)
          /\ answer' = [answer EXCEPT ![r].code = "InvalidArgument"]
      BY <1>4 DEF Call, CallTo
    <2> QED
      BY <1>1, <1>2, <1>4, <2>1 DEF IsBlank
  <1>5. CASE OneCertificate(chain) /\ ~IsBlank(id)
    <2>1. CallTo(r, "called", chain[1], kind, id) /\ UNCHANGED answer
      BY <1>5 DEF Call, CallTo
    <2> QED
      BY <1>1, <1>2, <1>5, <2>1 DEF IsBlank
  <1> QED
    BY <1>3, <1>4, <1>5

LEMMA PeerType ==
  ASSUME IndInv, NEW r \in Requests, Peer(r)
  PROVE  ReqT' /\ AnswerT' /\ BeforeT'
  <1>0. ReqT /\ AnswerT /\ BeforeT
    BY Types DEF IndInv
  <1>1. ASSUME NEW chain \in Chains, NEW kind \in Kinds, NEW id \in JobIds \union {Blank, Command},
               Call(r, chain, kind, id)
        PROVE  ReqT' /\ AnswerT' /\ BeforeT'
    <2>1. BeforeT'
      BY <1>0, <1>1, CallSteps DEF BeforeT
    <2>2. ASSUME NEW pc \in PCs, NEW u \in Users \union {NoOne}, CallTo(r, pc, u, kind, id)
          PROVE  ReqT'
      BY <1>0, <2>2 DEF CallTo, ReqT
    <2>3. ASSUME NEW code \in Codes, answer' = [answer EXCEPT ![r].code = code]
          PROVE  AnswerT'
      BY <1>0, <2>3 DEF AnswerT
    <2>4. ReqT'
      BY <1>1, <2>2, CallSteps DEF PCs
    <2>5. AnswerT'
      BY <1>0, <1>1, <2>3, CallSteps DEF Codes, AnswerT
    <2> QED
      BY <2>1, <2>4, <2>5
  <1>2. CASE ClientTakes(r) \/ ClientEnds(r)
    BY <1>0, <1>2 DEF ClientTakes, ClientEnds, callVars, ReqT, AnswerT, BeforeT
  <1>3. CASE Disconnect(r)
    <2>1. CASE Goto(r, "gone") /\ UNCHANGED before
      BY <1>0, <2>1, GotoType DEF PCs, BeforeT
    <2>2. CASE UNCHANGED callVars
      BY <1>0, <2>2 DEF callVars, ReqT, AnswerT, BeforeT
    <2> QED
      BY <1>3, <2>1, <2>2 DEF Disconnect
  <1> QED
    BY <1>1, <1>2, <1>3 DEF Peer

LEMMA JobType ==
  ASSUME IndInv, [Next]_vars
  PROVE  JobT' /\ JobsT'
  <1>0. JobT /\ JobsT /\ ReqT /\ \A r \in Requests : CallInv(r)
    BY Types DEF IndInv, ServiceInv
  <1>k. \A j \in JobIds : asked[j] \subseteq Requests
    BY Types DEF IndInv, KillT
  <1>1. ASSUME NEW r \in Requests, NEW j \in JobIds, SpawnChild(r, j)
        PROVE  JobT' /\ JobsT'
    <2>1. Started(req[r].user) \in Jobs
      BY <1>0, JobValues DEF ReqT
    <2> QED
      BY <1>0, <1>1, <2>1 DEF SpawnChild, JobT, JobsT
  <1>2. ASSUME NEW r \in Requests, Register(r)
        PROVE  JobT' /\ JobsT'
    <2>1. req[r].id \in JobIds
      BY <1>0, <1>2 DEF Register, CallInv, Entitled, At
    <2> QED
      BY <1>0, <1>2, <2>1 DEF Register, WithJob, JobT, JobsT
  <1>3. ASSUME NEW j \in JobIds, NEW r \in Requests, ServeKill(j, r)
        PROVE  JobT' /\ JobsT'
    <2>1. CASE UNCHANGED job
      BY <1>0, <1>3, <2>1 DEF ServeKill, JobT, JobsT
    <2>2. CASE job' = [job EXCEPT ![j].killed = r]
      <3>1. JobT'
        BY <1>0, <2>2 DEF JobT, Jobs
      <3> QED
        BY <1>0, <1>3, <3>1 DEF ServeKill, JobsT
    <2> QED
      BY <1>3, <2>1, <2>2 DEF ServeKill
  <1>4. ASSUME NEW j \in JobIds, Track(j)
        PROVE  JobT' /\ JobsT'
    <2>1. ASSUME NEW how \in Ended, ChildExits(j, how)
          PROVE  JobT' /\ JobsT'
      <3>1. JobT'
        BY <1>0, <2>1 DEF ChildExits, JobT, Jobs, States, Ended
      <3> QED
        BY <1>0, <2>1, <3>1 DEF ChildExits, JobsT
    <2>2. CASE TrackerReturns(j)
      BY <1>0, <2>2 DEF TrackerReturns, JobT, JobsT
    <2>3. CASE Output(j) \/ \E end \in {"EOF", "Err"} : Seal(j, end)
      BY <1>0, <2>3 DEF Output, Seal, JobT, JobsT
    <2> QED
      BY <1>k, <1>3, <1>4, <2>1, <2>2, <2>3 DEF Track
  <1>5. ASSUME NEW r \in Requests,
               \/ SpawnFails(r) \/ Lookup(r) \/ Check(r) \/ AskKill(r) \/ KillTooLate(r)
               \/ KillReturns(r) \/ KillTimesOut(r) \/ Subscribe(r) \/ SubscribeFails(r)
        PROVE  JobT' /\ JobsT'
    <2>1. UNCHANGED jobVars
      BY <1>5 DEF SpawnFails, Lookup, Check, AskKill, KillTooLate, KillReturns, KillTimesOut,
                  Subscribe, SubscribeFails
    <2> QED
      BY <1>0, <2>1 DEF jobVars, JobT, JobsT
  <1>6. ASSUME NEW r \in Requests, Forwarder(r) \/ Peer(r)
        PROVE  JobT' /\ JobsT'
    <2>1. UNCHANGED jobVars
      BY <1>6 DEF Forwarder, Peer, ForwardFrame, ForwardEOF, ForwardError, ForwardCut, ForwardSend,
                  ForwardDropped, Call, ClientTakes, ClientEnds, Disconnect
    <2> QED
      BY <1>0, <2>1 DEF jobVars, JobT, JobsT
  <1>7. CASE UNCHANGED vars
    BY <1>0, <1>7 DEF vars, jobVars, JobT, JobsT
  <1> QED
    BY <1>1, <1>2, <1>3, <1>4, <1>5, <1>6, <1>7 DEF Next, Handler

LEMMA LogType ==
  ASSUME TypeOK, [Next]_vars
  PROVE  LogT'
  <1>0. LogT
    BY Types
  <1>1. ASSUME NEW j \in JobIds, Track(j)
        PROVE  LogT'
    <2>1. ASSUME NEW how \in Ended, ChildExits(j, how)
          PROVE  LogT'
      BY <1>0, <2>1 DEF ChildExits, LogT
    <2>2. ASSUME NEW end \in {"EOF", "Err"}, Seal(j, end)
          PROVE  LogT'
      BY <1>0, <2>2 DEF Seal, LogT
    <2>3. CASE Output(j)
      BY <1>0, <2>3, BoundsAssumption DEF Output, LogT
    <2>4. CASE TrackerReturns(j) \/ \E r \in asked[j] : ServeKill(j, r)
      BY <1>0, <2>4 DEF TrackerReturns, ServeKill, LogT
    <2> QED
      BY <1>1, <2>1, <2>2, <2>3, <2>4 DEF Track
  <1>2. ASSUME NEW r \in Requests, Handler(r)
        PROVE  LogT'
    <2>1. UNCHANGED log
      BY <1>2 DEF Handler, SpawnChild, SpawnFails, Register, Lookup, Check, AskKill,
                  KillTooLate, KillReturns, KillTimesOut, Subscribe, SubscribeFails, jobVars
    <2> QED
      BY <1>0, <2>1 DEF LogT
  <1>3. ASSUME NEW r \in Requests, Forwarder(r) \/ Peer(r)
        PROVE  LogT'
    <2>1. UNCHANGED log
      BY <1>3 DEF Forwarder, Peer, ForwardFrame, ForwardEOF, ForwardError, ForwardCut, ForwardSend,
                  ForwardDropped, Call, ClientTakes, ClientEnds, Disconnect, jobVars
    <2> QED
      BY <1>0, <2>1 DEF LogT
  <1>4. CASE UNCHANGED vars
    BY <1>0, <1>4 DEF vars, jobVars, LogT
  <1> QED
    BY <1>1, <1>2, <1>3, <1>4 DEF Next

(* What Tell does to one caller.                                           *)
LEMMA TellOne ==
  ASSUME KillT, NEW R, NEW outcome, Tell(R, outcome), NEW r \in Requests
  PROVE  told'[r] = IF r \in R /\ told[r] = "waiting" THEN outcome ELSE told[r]
  BY DEF Tell

LEMMA TellType ==
  ASSUME KillT, NEW R, NEW outcome \in {"ok", "failed", "dropped", "gone"}, Tell(R, outcome)
  PROVE  told' \in [Requests -> {"none", "waiting", "ok", "failed", "dropped", "gone", "notRunning"}]
  BY DEF Tell, KillT

LEMMA KillType ==
  ASSUME IndInv, [Next]_vars
  PROVE  KillT'
  <1>0. KillT /\ \A r \in Requests : CallInv(r)
    BY Types DEF IndInv, ServiceInv
  <1>1. ASSUME NEW r \in Requests, AskKill(r)
        PROVE  KillT'
    BY <1>0, <1>1 DEF AskKill, KillT
  <1>2. ASSUME NEW r \in Requests, KillTooLate(r) \/ KillTimesOut(r)
        PROVE  KillT'
    BY <1>0, <1>2, TellType DEF KillTooLate, KillTimesOut, KillT
  <1>3. ASSUME NEW j \in JobIds, NEW r \in asked[j], ServeKill(j, r)
        PROVE  KillT'
    BY <1>0, <1>3, TellType DEF ServeKill, KillT
  <1>4. ASSUME NEW j \in JobIds, NEW how \in Ended, ChildExits(j, how)
        PROVE  KillT'
    BY <1>0, <1>4, TellType DEF ChildExits, KillT
  <1>5. ASSUME NEW j \in JobIds, TrackerReturns(j)
        PROVE  KillT'
    BY <1>0, <1>5, TellType DEF TrackerReturns, KillT
  <1>6. ASSUME NEW j \in JobIds, Output(j) \/ \E end \in {"EOF", "Err"} : Seal(j, end)
        PROVE  KillT'
    BY <1>0, <1>6 DEF Output, Seal, killVars, KillT
  <1>7. ASSUME NEW r \in Requests,
               \/ \E j \in JobIds : SpawnChild(r, j)
               \/ Register(r) \/ SpawnFails(r) \/ Lookup(r) \/ Check(r)
               \/ KillReturns(r) \/ Subscribe(r) \/ SubscribeFails(r) \/ Forwarder(r)
               \/ \E chain \in Chains, kind \in Kinds, id \in JobIds \union {Blank, Command} :
                    Call(r, chain, kind, id)
               \/ ClientTakes(r) \/ ClientEnds(r)
        PROVE  KillT'
    <2>1. UNCHANGED killVars
      BY <1>7 DEF SpawnChild, Register, SpawnFails, Lookup, Check, KillReturns, Subscribe,
                  SubscribeFails, Forwarder, ForwardFrame, ForwardEOF, ForwardError, ForwardCut,
                  ForwardSend, ForwardDropped, Call, ClientTakes, ClientEnds
    <2> QED
      BY <1>0, <2>1 DEF killVars, KillT
  <1>8. ASSUME NEW r \in Requests, Disconnect(r)
        PROVE  KillT'
    BY <1>0, <1>8, TellType DEF Disconnect, killVars, KillT
  <1>9. CASE UNCHANGED vars
    BY <1>0, <1>9 DEF vars, killVars, KillT
  <1> QED
    BY <1>1, <1>2, <1>3, <1>4, <1>5, <1>6, <1>7, <1>8, <1>9 DEF Next, Handler, Peer, Track

LEMMA StreamType ==
  ASSUME TypeOK, ServiceInv, [Next]_vars
  PROVE  ForwardT' /\ ClientT'
  <1>0. ForwardT /\ ClientT /\ LogT /\ \A r \in Requests : ForwardInv(r)
    BY Types DEF ServiceInv
  <1>1. ASSUME NEW r \in Requests, ForwardFrame(r)
        PROVE  ForwardT' /\ ClientT'
    <2>1. stream[r] # "none"
      BY <1>0, <1>1 DEF ForwardFrame, ForwardInv
    <2>2. taken[r] < log[req[r].id].len /\ log[req[r].id].len \in 0..MaxFrames
      BY <1>0, <1>1, <2>1 DEF ForwardFrame, HasFrame, ForwardInv, Entitled, LogT
    <2>3. taken[r] + 1 \in 0..MaxFrames
      BY <1>0, <2>2, BoundsAssumption DEF ForwardT
    <2> QED
      BY <1>0, <1>1, <2>3 DEF ForwardFrame, ForwardT, ClientT
  <1>2. ASSUME NEW r \in Requests,
               \/ ForwardEOF(r) \/ ForwardError(r) \/ ForwardCut(r) \/ ForwardSend(r) \/ ForwardDropped(r)
        PROVE  ForwardT' /\ ClientT'
    BY <1>0, <1>2 DEF ForwardEOF, ForwardError, ForwardCut, ForwardSend, ForwardDropped, AfterError,
                      ForwardT, ClientT
  <1>3. ASSUME NEW r \in Requests, ClientTakes(r)
        PROVE  ForwardT' /\ ClientT'
    <2>1. wire[r] = "frame" => seen[r] + 1 \in 0..MaxFrames
      <3> SUFFICES ASSUME wire[r] = "frame" PROVE seen[r] + 1 \in 0..MaxFrames
        OBVIOUS
      <3>1. taken[r] \in 0..MaxFrames /\ seen[r] \in 0..MaxFrames
        BY <1>0 DEF ForwardT, ClientT
      <3>2. taken[r] = seen[r] + (IF wire[r] = "frame" THEN 1 ELSE 0)
                               + (IF fwd[r] = "sending" THEN 1 ELSE 0)
        BY <1>0, <1>3 DEF ClientTakes, ForwardInv
      <3> QED
        BY <3>1, <3>2, BoundsAssumption
    <2> QED
      BY <1>0, <1>3, <2>1 DEF ClientTakes, ForwardT, ClientT
  <1>4. ASSUME NEW r \in Requests, ClientEnds(r) \/ Disconnect(r)
        PROVE  ForwardT' /\ ClientT'
    BY <1>0, <1>4 DEF ClientEnds, Disconnect, ForwardT, ClientT, streamVars
  <1>5. ASSUME NEW r \in Requests, Subscribe(r)
        PROVE  ForwardT' /\ ClientT'
    BY <1>0, <1>5 DEF Subscribe, ForwardT, ClientT
  <1>6. ASSUME NEW r \in Requests,
               \/ \E j \in JobIds : SpawnChild(r, j)
               \/ Register(r) \/ SpawnFails(r) \/ Lookup(r) \/ Check(r) \/ KillTooLate(r) \/ AskKill(r)
               \/ KillReturns(r) \/ KillTimesOut(r) \/ SubscribeFails(r)
               \/ \E chain \in Chains, kind \in Kinds, id \in JobIds \union {Blank, Command} :
                    Call(r, chain, kind, id)
        PROVE  ForwardT' /\ ClientT'
    <2>1. UNCHANGED streamVars
      BY <1>6 DEF SpawnChild, Register, SpawnFails, Lookup, Check, KillTooLate, AskKill, KillReturns,
                  KillTimesOut, SubscribeFails, Call
    <2> QED
      BY <1>0, <2>1 DEF streamVars, ForwardT, ClientT
  <1>7. ASSUME NEW j \in JobIds, Track(j)
        PROVE  ForwardT' /\ ClientT'
    <2>1. UNCHANGED streamVars
      BY <1>7 DEF Track, ServeKill, ChildExits, Output, Seal, TrackerReturns
    <2> QED
      BY <1>0, <2>1 DEF streamVars, ForwardT, ClientT
  <1>8. CASE UNCHANGED vars
    BY <1>0, <1>8 DEF vars, streamVars, ForwardT, ClientT
  <1> QED
    BY <1>1, <1>2, <1>3, <1>4, <1>5, <1>6, <1>7, <1>8 DEF Next, Handler, Forwarder, Peer

LEMMA TypeStep ==
  ASSUME IndInv, [Next]_vars
  PROVE  TypeOK'
  <1>0. ReqT /\ AnswerT /\ BeforeT
    BY Types DEF IndInv
  <1>1. ReqT' /\ AnswerT' /\ BeforeT'
    <2>1. ASSUME NEW r \in Requests, Handler(r)
          PROVE  ReqT' /\ AnswerT' /\ BeforeT'
      <3>1. UNCHANGED before
        BY <2>1 DEF Handler, SpawnChild, SpawnFails, Register, Lookup, Check, AskKill, KillTooLate,
                    KillReturns, KillTimesOut, Subscribe, SubscribeFails
      <3> QED
        BY <1>0, <2>1, <3>1, HandlerType DEF BeforeT
    <2>2. ASSUME NEW r \in Requests, Forwarder(r)
          PROVE  UNCHANGED callVars
      BY <2>2 DEF Forwarder, ForwardFrame, ForwardEOF, ForwardError, ForwardCut, ForwardSend,
                  ForwardDropped
    <2>3. ASSUME NEW j \in JobIds, Track(j)
          PROVE  UNCHANGED callVars
      BY <2>3 DEF Track, ServeKill, ChildExits, Output, Seal, TrackerReturns
    <2>4. UNCHANGED callVars => ReqT' /\ AnswerT' /\ BeforeT'
      BY <1>0 DEF callVars, ReqT, AnswerT, BeforeT
    <2> QED
      BY <2>1, <2>2, <2>3, <2>4, PeerType DEF Next, vars
  <1> QED
    BY <1>1, JobType, LogType, KillType, StreamType DEF IndInv, TypeOK, ReqT, AnswerT, BeforeT,
       JobT, JobsT, LogT, KillT, ForwardT, ClientT, PCs

-----------------------------------------------------------------------------
(* What no step undoes.                                                    *)

LEMMA NotOlderTransitive ==
  \A a, b, c \in Jobs : NotOlder(a, b) /\ NotOlder(b, c) => NotOlder(a, c)
  BY DEF NotOlder, Jobs

(* A job keeps its owner, moves forward, stays in the map, is over for     *)
(* good, and its log no longer changes once it has ended.                  *)
JobsMove ==
  \A j \in JobIds :
    /\ job[j] # Unborn => job'[j].user = job[j].user /\ NotOlder(job[j], job'[j])
    /\ j \in jobs => j \in jobs'
    /\ tracker[j] = "over" => tracker'[j] = "over"
    /\ Sealed(j) => log'[j] = log[j]
    /\ log'[j].len >= log[j].len

LEMMA NothingMoves ==
  ASSUME IndInv, UNCHANGED <<jobs, job, tracker, log>>
  PROVE  JobsMove
  <1>1. \A j \in JobIds : log[j].len \in 0..MaxFrames
    BY Types DEF IndInv, LogT
  <1> QED
    BY <1>1 DEF JobsMove, NotOlder

LEMMA JobsDoMove ==
  ASSUME IndInv, [Next]_vars
  PROVE  JobsMove
  <1>0. /\ JobT /\ JobsT /\ LogT /\ ReqT
        /\ \A r \in Requests : CallInv(r)
        /\ \A j \in JobIds : JobInv(j)
        /\ \A j \in JobIds : log[j].len \in 0..MaxFrames
        /\ \A j \in JobIds : asked[j] \subseteq Requests
    BY Types DEF IndInv, ServiceInv, LogT, KillT
  <1>1. ASSUME NEW r \in Requests, NEW j \in JobIds, SpawnChild(r, j)
        PROVE  JobsMove
    BY <1>0, <1>1 DEF SpawnChild, JobsMove, NotOlder, JobT, JobInv, Unborn, JobsT
  <1>2. ASSUME NEW r \in Requests, Register(r)
        PROVE  JobsMove
    BY <1>0, <1>2 DEF Register, WithJob, JobsMove, NotOlder
  <1>3. ASSUME NEW k \in JobIds, NEW r \in Requests, ServeKill(k, r)
        PROVE  JobsMove
    <2>1. CASE UNCHANGED job
      BY <1>3, <2>1, NothingMoves DEF ServeKill
    <2>2. CASE Recordable(k) /\ job' = [job EXCEPT ![k].killed = r]
      <3>1. \A j \in JobIds : job'[j].user = job[j].user /\ NotOlder(job[j], job'[j])
        BY <1>0, <2>2 DEF Recordable, JobT, Jobs, NotOlder
      <3> QED
        BY <1>0, <1>3, <3>1 DEF ServeKill, JobsMove
    <2> QED
      BY <1>3, <2>1, <2>2 DEF ServeKill
  <1>4. ASSUME NEW j \in JobIds, Track(j)
        PROVE  JobsMove
    <2>1. ASSUME NEW how \in Ended, ChildExits(j, how)
          PROVE  JobsMove
      <3>1. \A k \in JobIds : job'[k].user = job[k].user /\ NotOlder(job[k], job'[k])
        BY <1>0, <2>1 DEF ChildExits, JobT, Jobs, NotOlder
      <3> QED
        BY <1>0, <2>1, <3>1 DEF ChildExits, JobsMove
    <2>2. CASE TrackerReturns(j)
      BY <1>0, <2>2 DEF TrackerReturns, JobsMove, JobsT, NotOlder
    <2>3. CASE Output(j) \/ \E end \in {"EOF", "Err"} : Seal(j, end)
      BY <1>0, <2>3 DEF Output, Seal, Sealed, JobsMove, LogT, NotOlder
    <2> QED
      BY <1>0, <1>3, <1>4, <2>1, <2>2, <2>3 DEF Track
  <1>5. ASSUME NEW r \in Requests,
               \/ SpawnFails(r) \/ Lookup(r) \/ Check(r) \/ AskKill(r) \/ KillTooLate(r)
               \/ KillReturns(r) \/ KillTimesOut(r) \/ Subscribe(r) \/ SubscribeFails(r)
               \/ Forwarder(r) \/ Peer(r)
        PROVE  JobsMove
    <2>1. UNCHANGED jobVars
      BY <1>5 DEF SpawnFails, Lookup, Check, AskKill, KillTooLate, KillReturns, KillTimesOut,
                  Subscribe, SubscribeFails, Forwarder, Peer, ForwardFrame, ForwardEOF, ForwardError,
                  ForwardCut, ForwardSend, ForwardDropped, Call, ClientTakes, ClientEnds, Disconnect
    <2> QED
      BY <2>1, NothingMoves DEF jobVars
  <1>6. CASE UNCHANGED vars
    BY <1>6, NothingMoves DEF vars, jobVars
  <1> QED
    BY <1>1, <1>2, <1>3, <1>4, <1>5, <1>6 DEF Next, Handler

(* Whoever is entitled stays so.                                           *)
LEMMA StaysEntitled ==
  ASSUME IndInv, JobsMove, NEW r \in Requests, Entitled(r),
         req'[r].id = req[r].id, req'[r].user = req[r].user
  PROVE  Entitled(r)'
  <1>1. job[req[r].id] # Unborn
    BY NamesAssumption DEF Entitled, Unborn
  <1> QED
    BY <1>1 DEF Entitled, JobsMove

(* A call that a step does not touch.                                      *)
Untouched(r) == /\ req'[r] = req[r] /\ answer'[r] = answer[r] /\ before'[r] = before[r]
                /\ told'[r] # "none" <=> told[r] # "none"
UntouchedKill(r) == /\ told'[r] = told[r]
                    /\ \A j \in JobIds : r \in asked'[j] <=> r \in asked[j]

LEMMA UntouchedCall ==
  ASSUME IndInv, TypeOK', JobsMove, NEW r \in Requests, Untouched(r)
  PROVE  CallInv(r)' /\ AnswerInv(r)'
  <1>0. CallInv(r) /\ AnswerInv(r)
    BY DEF IndInv, ServiceInv
  <1>1. Entitled(r) => Entitled(r)'
    BY StaysEntitled DEF Untouched
  <1>2. CallInv(r)'
    BY <1>0, <1>1 DEF CallInv, Untouched, At
  <1>3. AnswerInv(r)'
    <2> SUFFICES ASSUME At(r, "answered") PROVE AnswerInv(r)'
      BY DEF AnswerInv, At, Untouched
    <2>1. CASE answer[r].code # "ok"
      BY <1>0, <1>1, <2>1 DEF AnswerInv, Untouched, At
    <2>2. CASE answer[r].code = "ok"
      <3>1. Entitled(r) /\ Entitled(r)' /\ req[r].id \in JobIds
        BY <1>0, <1>1, <2>2 DEF AnswerInv, Entitled
      <3>2. req[r].kind = "spawn" => req[r].id \in jobs'
        BY <1>0, <2>2, <3>1 DEF AnswerInv, JobsMove
      <3>3. req[r].kind # "logs" => NotOlder(answer[r].job, job'[req[r].id])
        <4>1. job[req[r].id] # Unborn
          BY <3>1, NamesAssumption DEF Entitled, Unborn
        <4>2. answer[r].job \in Jobs /\ job[req[r].id] \in Jobs /\ job'[req[r].id] \in Jobs
          BY <3>1 DEF IndInv, TypeOK
        <4> QED
          BY <1>0, <2>2, <3>1, <4>1, <4>2, NotOlderTransitive DEF AnswerInv, JobsMove
      <3> QED
        BY <2>2, <3>1, <3>2, <3>3 DEF AnswerInv, Untouched, At
    <2> QED
      BY <2>1, <2>2
  <1> QED
    BY <1>2, <1>3

LEMMA UntouchedByOthers ==
  ASSUME IndInv, NEW r \in Requests, NEW q \in Requests, q # r,
         Handler(r) \/ Forwarder(r) \/ Peer(r)
  PROVE  Untouched(q) /\ UntouchedKill(q)
  <1>0. ReqT /\ AnswerT /\ BeforeT /\ KillT /\ CallInv(r)
    BY Types DEF IndInv, ServiceInv
  <1>t. ASSUME NEW outcome, Tell({r}, outcome)
        PROVE  told'[q] = told[q]
    BY <1>0, <1>t, TellOne
  <1>1. ASSUME NEW pc, Goto(r, pc)
        PROVE  req'[q] = req[q] /\ answer'[q] = answer[q]
    BY <1>0, <1>1 DEF Goto, ReqT
  <1>2. ASSUME NEW code, NEW snapshot, Respond(r, code, snapshot)
        PROVE  req'[q] = req[q] /\ answer'[q] = answer[q]
    BY <1>0, <1>2 DEF Respond, ReqT, AnswerT
  <1>3. ASSUME NEW j \in JobIds, SpawnChild(r, j)
        PROVE  Untouched(q) /\ UntouchedKill(q)
    BY <1>0, <1>3 DEF SpawnChild, Untouched, UntouchedKill, ReqT, killVars
  <1>4. CASE SpawnFails(r) \/ SubscribeFails(r) \/ Lookup(r)
    BY <1>1, <1>2, <1>4 DEF SpawnFails, SubscribeFails, Lookup, Refuse, Untouched, UntouchedKill, killVars
  <1>5. CASE Register(r) \/ KillReturns(r)
    BY <1>1, <1>2, <1>5 DEF Register, KillReturns, RespondJob, Refuse, Untouched, UntouchedKill, killVars
  <1>6. CASE Check(r)
    BY <1>1, <1>2, <1>6, CheckSteps DEF Check, RespondJob, Refuse, Untouched, UntouchedKill, killVars
  <1>7. CASE AskKill(r)
    <2>1. req[r].id \in JobIds
      BY <1>0, <1>7 DEF AskKill, CallInv, At, Entitled
    <2> QED
      BY <1>0, <1>1, <1>7, <2>1 DEF AskKill, Untouched, UntouchedKill, KillT
  <1>8. CASE Subscribe(r)
    BY <1>2, <1>8 DEF Subscribe, Untouched, UntouchedKill, killVars
  <1>9. CASE Forwarder(r)
    BY <1>9 DEF Forwarder, ForwardFrame, ForwardEOF, ForwardError, ForwardCut, ForwardSend,
                ForwardDropped, callVars, killVars, Untouched, UntouchedKill
  <1>10. ASSUME NEW chain \in Chains, NEW kind \in Kinds, NEW id \in JobIds \union {Blank, Command},
                Call(r, chain, kind, id)
         PROVE  Untouched(q) /\ UntouchedKill(q)
    BY <1>0, <1>10, CallSteps DEF CallTo, Untouched, UntouchedKill, ReqT, AnswerT, BeforeT
  <1>11. CASE ClientTakes(r) \/ ClientEnds(r)
    BY <1>11 DEF ClientTakes, ClientEnds, callVars, killVars, Untouched, UntouchedKill
  <1>12. CASE Disconnect(r)
    BY <1>1, <1>t, <1>12 DEF Disconnect, callVars, killVars, Untouched, UntouchedKill
  <1>13. CASE KillTooLate(r)
    BY <1>0, <1>2, <1>13 DEF KillTooLate, Refuse, Untouched, UntouchedKill, KillT
  <1>14. CASE KillTimesOut(r)
    BY <1>2, <1>t, <1>14 DEF KillTimesOut, Refuse, Untouched, UntouchedKill
  <1> QED
    BY <1>3, <1>4, <1>5, <1>6, <1>7, <1>8, <1>9, <1>10, <1>11, <1>12, <1>13, <1>14 DEF Handler, Peer

LEMMA UntouchedByJobs ==
  ASSUME IndInv, NEW q \in Requests, \/ \E j \in JobIds : Track(j)
                                     \/ UNCHANGED vars
  PROVE  Untouched(q)
  <1>0. KillT
    BY Types DEF IndInv
  <1>1. ASSUME NEW R, NEW outcome \in {"ok", "failed", "dropped"}, Tell(R, outcome), UNCHANGED callVars
        PROVE  Untouched(q)
    BY <1>0, <1>1, TellOne DEF callVars, Untouched
  <1>2. ASSUME NEW j \in JobIds, Track(j)
        PROVE  Untouched(q)
    <2>1. ASSUME NEW r \in asked[j], ServeKill(j, r)
          PROVE  Untouched(q)
      BY <1>1, <2>1 DEF ServeKill, callVars, Untouched
    <2>2. ASSUME NEW how \in Ended, ChildExits(j, how)
          PROVE  Untouched(q)
      BY <1>1, <2>2 DEF ChildExits
    <2>3. CASE TrackerReturns(j)
      BY <1>1, <2>3 DEF TrackerReturns
    <2>4. CASE Output(j) \/ \E end \in {"EOF", "Err"} : Seal(j, end)
      BY <2>4 DEF Output, Seal, callVars, killVars, Untouched
    <2> QED
      BY <1>2, <2>1, <2>2, <2>3, <2>4 DEF Track
  <1>3. CASE UNCHANGED vars
    BY <1>3 DEF vars, callVars, killVars, Untouched
  <1> QED
    BY <1>2, <1>3

-----------------------------------------------------------------------------
(* The steps of a handler keep what is known of its own call.              *)

(* Goto(r, pc), in terms of r alone.                                       *)
LEMMA GotoCall ==
  ASSUME IndInv, NEW r \in Requests, NEW pc \in PCs, Goto(r, pc)
  PROVE  /\ req'[r].pc = pc /\ answer'[r] = answer[r]
         /\ req'[r].id = req[r].id /\ req'[r].user = req[r].user /\ req'[r].kind = req[r].kind
  <1>0. ReqT
    BY Types DEF IndInv
  <1> QED
    BY <1>0 DEF Goto, ReqT

LEMMA RespondCall ==
  ASSUME IndInv, NEW r \in Requests, NEW code, NEW snapshot, Respond(r, code, snapshot)
  PROVE  /\ req'[r].pc = "answered" /\ answer'[r] = [code |-> code, job |-> snapshot]
         /\ req'[r].id = req[r].id /\ req'[r].user = req[r].user /\ req'[r].kind = req[r].kind
  <1>0. ReqT /\ AnswerT
    BY Types DEF IndInv
  <1> QED
    BY <1>0 DEF Respond, ReqT, AnswerT

LEMMA RespondAnswer ==
  ASSUME IndInv, NEW r \in Requests, NEW code, NEW snapshot, Respond(r, code, snapshot)
  PROVE  answer'[r].code = code /\ answer'[r].job = snapshot
  <1>1. answer'[r] = [code |-> code, job |-> snapshot]
    BY RespondCall
  <1> QED
    BY <1>1

(* A refusal is an answer of its own right.                                *)
LEMMA RefuseCall ==
  ASSUME IndInv, JobsMove, NEW r \in Requests, NEW code, Refuse(r, code),
         told'[r] = told[r] \/ (Entitled(r) /\ req[r].kind = "kill"),
         req[r].pc \in {"called", "found", "subscribing", "asking", "waiting"},
         \/ code = "NotFound" /\ req[r].kind # "spawn"
         \/ code = "Internal" /\ (Entitled(r) \/ req[r].id = Command)
  PROVE  CallInv(r)' /\ AnswerInv(r)'
  <1>0. CallInv(r)
    BY DEF IndInv, ServiceInv
  <1>1. /\ req'[r].pc = "answered" /\ answer'[r] = [code |-> code, job |-> Unborn]
        /\ req'[r].id = req[r].id /\ req'[r].user = req[r].user /\ req'[r].kind = req[r].kind
    BY RespondCall DEF Refuse
  <1>2. Entitled(r) => Entitled(r)'
    BY <1>1, StaysEntitled
  <1>3. CallInv(r)'
    BY <1>0, <1>1, <1>2, NamesAssumption DEF CallInv, At
  <1>4. AnswerInv(r)'
    BY <1>1, <1>2 DEF AnswerInv, At
  <1> QED
    BY <1>3, <1>4

(* A step to another place of the handler.                                 *)
LEMMA GotoKeeps ==
  ASSUME IndInv, JobsMove, NEW r \in Requests, NEW pc \in PCs, Goto(r, pc),
         told'[r] # "none" <=> told[r] # "none",
         \/ pc = "found" /\ At(r, "called") /\ req[r].kind # "spawn"
         \/ pc = "subscribing" /\ At(r, "found") /\ Entitled(r) /\ req[r].kind = "logs"
         \/ pc = "asking" /\ At(r, "found") /\ Entitled(r) /\ req[r].kind = "kill"
         \/ pc = "panicked" /\ Entitled(r) /\ req[r].pc \in {"registering", "found", "waiting"}
         \/ pc = "gone"
  PROVE  CallInv(r)' /\ AnswerInv(r)'
  <1>0. CallInv(r)
    BY DEF IndInv, ServiceInv
  <1>1. /\ req'[r].pc = pc
        /\ req'[r].id = req[r].id /\ req'[r].user = req[r].user /\ req'[r].kind = req[r].kind
    BY GotoCall
  <1>2. Entitled(r) => Entitled(r)'
    BY <1>1, StaysEntitled
  <1>3. CallInv(r)'
    BY <1>0, <1>1, <1>2 DEF CallInv, At
  <1>4. AnswerInv(r)'
    BY <1>1 DEF AnswerInv, At
  <1> QED
    BY <1>3, <1>4

(* A response with a job.                                                  *)
LEMMA RespondJobKeeps ==
  ASSUME IndInv, JobsMove, NEW r \in Requests, NEW snapshot, RespondJob(r, snapshot),
         told'[r] # "none" <=> told[r] # "none",
         Entitled(r), req[r].pc \in {"registering", "found", "waiting"},
         req[r].kind = "spawn" => req[r].id \in jobs',
         NotOlder(snapshot, job'[req[r].id])
  PROVE  CallInv(r)' /\ AnswerInv(r)'
  <1>1. CASE Goto(r, "panicked")
    BY <1>1, GotoKeeps DEF PCs
  <1>2. CASE Respond(r, "ok", snapshot)
    <2>0. CallInv(r)
      BY DEF IndInv, ServiceInv
    <2>1. /\ req'[r].pc = "answered" /\ answer'[r] = [code |-> "ok", job |-> snapshot]
          /\ req'[r].id = req[r].id /\ req'[r].user = req[r].user /\ req'[r].kind = req[r].kind
      BY <1>2, RespondCall
    <2>2. Entitled(r)'
      BY <2>1, StaysEntitled
    <2>3. CallInv(r)'
      BY <2>0, <2>1, <2>2 DEF CallInv, At
    <2>4. AnswerInv(r)'
      BY <2>1, <2>2 DEF AnswerInv, At
    <2> QED
      BY <2>3, <2>4
  <1> QED
    BY <1>1, <1>2 DEF RespondJob

(* A step of r keeps what is known of r.                                   *)
LEMMA OwnStep ==
  ASSUME IndInv, TypeOK', JobsMove, NEW r \in Requests,
         Handler(r) \/ Forwarder(r) \/ Peer(r)
  PROVE  CallInv(r)' /\ AnswerInv(r)'
  <1>0. CallInv(r) /\ ReqT /\ AnswerT /\ KillT /\ JobT
    BY Types DEF IndInv, ServiceInv
  <1>1. ASSUME NEW j \in JobIds, SpawnChild(r, j)
        PROVE  CallInv(r)' /\ AnswerInv(r)'
    <2>1. /\ req'[r].pc = "registering" /\ req'[r].id = j /\ req'[r].kind = "spawn"
          /\ req'[r].user = req[r].user /\ job'[j].user = req[r].user
          /\ req[r].user \in Users /\ told'[r] = "none"
      BY <1>0, <1>1 DEF SpawnChild, ReqT, JobT, Started, CallInv, At, killVars
    <2>2. Entitled(r)'
      BY <2>1 DEF Entitled
    <2>3. CallInv(r)'
      BY <2>1, <2>2 DEF CallInv, At
    <2>4. AnswerInv(r)'
      BY <2>1 DEF AnswerInv, At
    <2> QED
      BY <2>3, <2>4
  <1>2. CASE SpawnFails(r)
    <2>1. req[r].id = Command /\ UNCHANGED told
      BY <1>0, <1>2 DEF SpawnFails, CallInv, At, killVars
    <2> QED
      BY <1>2, <2>1, RefuseCall DEF SpawnFails, At
  <1>3. CASE Register(r)
    <2>1. Entitled(r) /\ req[r].kind = "spawn"
      BY <1>0, <1>3 DEF Register, CallInv, At
    <2>2. req[r].id \in jobs' /\ UNCHANGED job
      BY <1>3 DEF Register, WithJob
    <2>3. NotOlder(Started(req[r].user), job[req[r].id])
      <3>1. JobInv(req[r].id) /\ job[req[r].id] \in Jobs /\ job[req[r].id].user \in Users
        BY <1>0, <2>1 DEF IndInv, ServiceInv, Entitled, JobT
      <3> QED
        BY <3>1 DEF NotOlder, Started
    <2> QED
      BY <1>3, <2>1, <2>2, <2>3, RespondJobKeeps DEF Register, At, killVars
  <1>4. CASE Lookup(r)
    <2>1. UNCHANGED told
      BY <1>4 DEF Lookup, killVars
    <2> QED
      BY <1>4, <2>1, RefuseCall, GotoKeeps DEF Lookup, At, PCs
  <1>5. CASE Check(r)
    <2>1. UNCHANGED <<job, told>> /\ At(r, "found")
      BY <1>5 DEF Check, jobVars, killVars
    <2>2. NotOlder(job[req[r].id], job'[req[r].id])
      BY <2>1 DEF NotOlder
    <2> QED
      BY <1>5, <2>1, <2>2, CheckSteps, RefuseCall, GotoKeeps, RespondJobKeeps DEF At, PCs
  <1>6. CASE AskKill(r)
    <2>1. /\ req'[r].pc = "waiting"
          /\ req'[r].id = req[r].id /\ req'[r].user = req[r].user /\ req'[r].kind = req[r].kind
      BY <1>6, GotoCall DEF AskKill, PCs
    <2>2. Entitled(r) /\ req[r].kind = "kill"
      BY <1>0, <1>6 DEF AskKill, CallInv, At
    <2>3. Entitled(r)'
      BY <2>1, <2>2, StaysEntitled
    <2>4. CallInv(r)'
      BY <2>1, <2>2, <2>3 DEF CallInv, At
    <2>5. AnswerInv(r)'
      BY <2>1 DEF AnswerInv, At
    <2> QED
      BY <2>4, <2>5
  <1>7. CASE KillTooLate(r)
    <2>1. Entitled(r) /\ req[r].kind = "kill"
      BY <1>0, <1>7 DEF KillTooLate, CallInv, At
    <2> QED
      BY <1>7, <2>1, RefuseCall DEF KillTooLate, At
  <1>8. CASE KillReturns(r) \/ KillTimesOut(r)
    <2>1. Entitled(r) /\ req[r].kind = "kill" /\ At(r, "waiting") /\ UNCHANGED job
      BY <1>0, <1>8 DEF KillReturns, KillTimesOut, CallInv, At, jobVars
    <2>2. NotOlder(job[req[r].id], job'[req[r].id])
      BY <2>1 DEF NotOlder
    <2>3. CASE KillReturns(r)
      BY <2>1, <2>2, <2>3, RefuseCall, RespondJobKeeps DEF KillReturns, At, killVars
    <2>4. CASE KillTimesOut(r)
      BY <2>1, <2>4, RefuseCall DEF KillTimesOut, At
    <2> QED
      BY <1>8, <2>3, <2>4
  <1>9. CASE Subscribe(r)
    <2>1. Entitled(r) /\ req[r].kind = "logs" /\ UNCHANGED told
      BY <1>0, <1>9 DEF Subscribe, CallInv, At, killVars
    <2>2. /\ req'[r].pc = "answered" /\ answer'[r] = [code |-> "ok", job |-> Unborn]
          /\ req'[r].id = req[r].id /\ req'[r].user = req[r].user /\ req'[r].kind = req[r].kind
      BY <1>9, RespondCall DEF Subscribe
    <2>3. Entitled(r)'
      BY <2>1, <2>2, StaysEntitled
    <2>4. CallInv(r)'
      BY <1>0, <2>1, <2>2, <2>3 DEF CallInv, At
    <2>5. AnswerInv(r)'
      BY <2>1, <2>2, <2>3 DEF AnswerInv, At
    <2> QED
      BY <2>4, <2>5
  <1>10. CASE SubscribeFails(r)
    <2>1. Entitled(r) /\ UNCHANGED told
      BY <1>0, <1>10 DEF SubscribeFails, CallInv, At, killVars
    <2> QED
      BY <1>10, <2>1, RefuseCall DEF SubscribeFails, At
  <1>11. CASE Forwarder(r) \/ ClientTakes(r) \/ ClientEnds(r)
    <2>1. Untouched(r)
      BY <1>11 DEF Forwarder, ForwardFrame, ForwardEOF, ForwardError, ForwardCut, ForwardSend,
                   ForwardDropped, ClientTakes, ClientEnds, callVars, killVars, Untouched
    <2> QED
      BY <2>1, UntouchedCall
  <1>12. ASSUME NEW chain \in Chains, NEW kind \in Kinds, NEW id \in JobIds \union {Blank, Command},
                Call(r, chain, kind, id)
         PROVE  CallInv(r)' /\ AnswerInv(r)'
    <2>1. At(r, "idle") /\ req[r].id = Blank /\ told[r] = "none" /\ UNCHANGED told
      BY <1>0, <1>12, CallSteps DEF CallInv, At
    <2>2. ASSUME NEW u, NEW pc, CallTo(r, pc, u, kind, id)
          PROVE  req'[r] = [pc |-> pc, user |-> u, kind |-> kind, id |-> id]
      BY <1>0, <2>2 DEF CallTo, ReqT
    <2>3. id \in IF kind = "spawn" THEN {Blank, Command} ELSE {Blank} \union JobIds
      BY <1>12, CallSteps
    <2>4. CASE CallTo(r, "answered", NoOne, kind, id) /\ answer' = [answer EXCEPT ![r].code = "Unauthenticated"]
      <3>1. /\ req'[r] = [pc |-> "answered", user |-> NoOne, kind |-> kind, id |-> id]
            /\ answer'[r].code = "Unauthenticated" /\ told'[r] = "none"
        BY <1>0, <2>1, <2>2, <2>4 DEF AnswerT
      <3>2. CallInv(r)'
        BY <2>3, <3>1, NamesAssumption DEF CallInv, At
      <3>3. AnswerInv(r)'
        BY <3>1 DEF AnswerInv, At
      <3> QED
        BY <3>2, <3>3
    <2>5. ASSUME NEW u \in Users, id = Blank, CallTo(r, "answered", u, kind, id),
                 answer' = [answer EXCEPT ![r].code = "InvalidArgument"]
          PROVE  CallInv(r)' /\ AnswerInv(r)'
      <3>1. /\ req'[r] = [pc |-> "answered", user |-> u, kind |-> kind, id |-> id]
            /\ answer'[r].code = "InvalidArgument" /\ told'[r] = "none"
        BY <1>0, <2>1, <2>2, <2>5 DEF AnswerT
      <3>2. CallInv(r)'
        BY <2>5, <3>1, NamesAssumption DEF CallInv, At
      <3>3. AnswerInv(r)'
        BY <2>5, <3>1 DEF AnswerInv, At
      <3> QED
        BY <3>2, <3>3
    <2>6. ASSUME NEW u \in Users, id # Blank, CallTo(r, "called", u, kind, id)
          PROVE  CallInv(r)' /\ AnswerInv(r)'
      <3>1. /\ req'[r] = [pc |-> "called", user |-> u, kind |-> kind, id |-> id]
            /\ told'[r] = "none"
        BY <2>1, <2>2, <2>6
      <3>2. CallInv(r)'
        BY <2>3, <2>6, <3>1, NamesAssumption DEF CallInv, At
      <3>3. AnswerInv(r)'
        BY <3>1 DEF AnswerInv, At
      <3> QED
        BY <3>2, <3>3
    <2> QED
      BY <1>12, <2>4, <2>5, <2>6, CallSteps
  <1>13. CASE Disconnect(r)
    <2>1. CASE Goto(r, "gone") /\ Tell({r}, "gone")
      <3>1. told'[r] # "none" <=> told[r] # "none"
        BY <1>0, <2>1, TellOne
      <3> QED
        BY <2>1, <3>1, GotoKeeps DEF PCs
    <2>2. CASE UNCHANGED <<callVars, killVars>>
      BY <2>2, UntouchedCall DEF callVars, killVars, Untouched
    <2> QED
      BY <1>13, <2>1, <2>2 DEF Disconnect
  <1> QED
    BY <1>1, <1>2, <1>3, <1>4, <1>5, <1>6, <1>7, <1>8, <1>9, <1>10, <1>11, <1>12, <1>13
    DEF Handler, Peer

LEMMA CallsStep ==
  ASSUME IndInv, TypeOK', JobsMove, [Next]_vars, NEW q \in Requests
  PROVE  CallInv(q)' /\ AnswerInv(q)'
  <1>1. ASSUME NEW r \in Requests, Handler(r) \/ Forwarder(r) \/ Peer(r)
        PROVE  CallInv(q)' /\ AnswerInv(q)'
    BY <1>1, OwnStep, UntouchedByOthers, UntouchedCall
  <1>2. CASE (\E j \in JobIds : Track(j)) \/ UNCHANGED vars
    BY <1>2, UntouchedByJobs, UntouchedCall
  <1> QED
    BY <1>1, <1>2 DEF Next

-----------------------------------------------------------------------------
(* Jobs.                                                                   *)

LEMMA JobsStep ==
  ASSUME IndInv, [Next]_vars, NEW j \in JobIds
  PROVE  JobInv(j)'
  <1>0. /\ JobInv(j) /\ JobT /\ JobsT /\ LogT /\ ReqT
        /\ \A r \in Requests : CallInv(r)
    BY Types DEF IndInv, ServiceInv
  <1>1. ASSUME NEW r \in Requests, NEW k \in JobIds, SpawnChild(r, k)
        PROVE  JobInv(j)'
    <2>1. req[r].user \in Users
      BY <1>0, <1>1 DEF SpawnChild, CallInv, At
    <2>2. CASE j = k
      <3>1. /\ job'[j] = Started(req[r].user) /\ tracker'[j] = "running"
            /\ UNCHANGED <<jobs, log>> /\ job[j] = Unborn
        BY <1>0, <1>1, <2>2 DEF SpawnChild, JobT, JobsT
      <3> QED
        BY <1>0, <2>1, <3>1, NamesAssumption DEF JobInv, Started, Unborn, Sealed, Ended
    <2>3. CASE j # k
      <3>1. job'[j] = job[j] /\ tracker'[j] = tracker[j] /\ UNCHANGED <<jobs, log>>
        BY <1>0, <1>1, <2>3 DEF SpawnChild, JobT, JobsT
      <3> QED
        BY <1>0, <3>1 DEF JobInv, Sealed
    <2> QED
      BY <2>2, <2>3
  <1>2. ASSUME NEW r \in Requests, Register(r)
        PROVE  JobInv(j)'
    <2>1. Entitled(r)
      BY <1>0, <1>2 DEF Register, CallInv, At
    <2>2. job[req[r].id] # Unborn
      BY <2>1, NamesAssumption DEF Entitled, Unborn
    <2> QED
      BY <1>0, <1>2, <2>2 DEF Register, WithJob, JobInv, Sealed
  <1>3. ASSUME NEW k \in JobIds, NEW r \in asked[k], ServeKill(k, r)
        PROVE  JobInv(j)'
    <2>1. UNCHANGED <<jobs, tracker, log>>
      BY <1>3 DEF ServeKill
    <2>2. CASE UNCHANGED job
      BY <1>0, <2>1, <2>2 DEF JobInv, Sealed
    <2>3. CASE Recordable(k) /\ job' = [job EXCEPT ![k].killed = r]
      <3>1. CASE j = k
        <4>1. /\ job'[j].user = job[j].user /\ job'[j].state = "running" /\ job[j].state = "running"
              /\ job[j] \in Jobs
          BY <1>0, <2>3, <3>1 DEF JobT, Recordable
        <4> QED
          BY <1>0, <2>1, <4>1 DEF JobInv, Unborn, Sealed, Ended
      <3>2. CASE j # k
        <4>1. job'[j] = job[j]
          BY <1>0, <2>3, <3>2 DEF JobT
        <4> QED
          BY <1>0, <2>1, <4>1 DEF JobInv, Sealed
      <3> QED
        BY <3>1, <3>2
    <2> QED
      BY <1>3, <2>2, <2>3 DEF ServeKill
  <1>4. ASSUME NEW k \in JobIds, NEW how \in Ended, ChildExits(k, how)
        PROVE  JobInv(j)'
    <2>1. UNCHANGED <<jobs, tracker, log>> /\ job[k].state = "running"
      BY <1>4 DEF ChildExits
    <2>2. CASE j = k
      <3>1. /\ job'[j].user = job[j].user /\ job'[j].killed = job[j].killed
            /\ job'[j].state \in Ended /\ job'[j].state # "unborn"
        BY <1>0, <1>4, <2>2 DEF ChildExits, JobT, Jobs, Ended
      <3>2. job[j] # Unborn /\ job'[j] # Unborn
        BY <2>1, <2>2, <3>1 DEF Unborn
      <3> QED
        BY <1>0, <2>1, <3>1, <3>2 DEF JobInv, Sealed
    <2>3. CASE j # k
      <3>1. job'[j] = job[j]
        BY <1>0, <1>4, <2>3 DEF ChildExits, JobT
      <3> QED
        BY <1>0, <2>1, <3>1 DEF JobInv, Sealed
    <2> QED
      BY <2>2, <2>3
  <1>5. ASSUME NEW k \in JobIds, NEW end \in {"EOF", "Err"}, Seal(k, end)
        PROVE  JobInv(j)'
    <2>1. UNCHANGED <<jobs, job, tracker>>
      BY <1>5 DEF Seal
    <2>2. CASE j = k
      <3>1. /\ tracker[j] = "running" /\ log'[j].end = end
            /\ end = "EOF" => job[j].state \in Ended
        BY <1>0, <1>5, <2>2 DEF Seal, LogT
      <3> QED
        BY <1>0, <2>1, <3>1 DEF JobInv, Sealed
    <2>3. CASE j # k
      <3>1. log'[j] = log[j]
        BY <1>0, <1>5, <2>3 DEF Seal, LogT
      <3> QED
        BY <1>0, <2>1, <3>1 DEF JobInv, Sealed
    <2> QED
      BY <2>2, <2>3
  <1>e. ASSUME NEW k \in JobIds, TrackerReturns(k)
        PROVE  JobInv(j)'
    <2>1. UNCHANGED <<jobs, job, log>>
      BY <1>e DEF TrackerReturns
    <2>2. CASE j = k
      BY <1>0, <1>e, <2>1, <2>2 DEF TrackerReturns, JobsT, JobInv, Sealed
    <2>3. CASE j # k
      BY <1>0, <1>e, <2>1, <2>3 DEF TrackerReturns, JobsT, JobInv, Sealed
    <2> QED
      BY <2>2, <2>3
  <1>6. ASSUME NEW k \in JobIds, Output(k)
        PROVE  JobInv(j)'
    <2>1. UNCHANGED <<jobs, job, tracker>> /\ log'[j].end = log[j].end
      BY <1>0, <1>6 DEF Output, LogT
    <2> QED
      BY <1>0, <2>1 DEF JobInv, Sealed
  <1>7. CASE UNCHANGED jobVars
    BY <1>0, <1>7 DEF jobVars, JobInv, Sealed
  <1>8. ASSUME NEW r \in Requests,
               \/ SpawnFails(r) \/ Lookup(r) \/ Check(r) \/ AskKill(r) \/ KillTooLate(r)
               \/ KillReturns(r) \/ KillTimesOut(r) \/ Subscribe(r) \/ SubscribeFails(r)
               \/ Forwarder(r) \/ Peer(r)
        PROVE  UNCHANGED jobVars
    BY <1>8 DEF SpawnFails, Lookup, Check, AskKill, KillTooLate, KillReturns, KillTimesOut,
                Subscribe, SubscribeFails, Forwarder, Peer, ForwardFrame, ForwardEOF, ForwardError,
                ForwardCut, ForwardSend, ForwardDropped, Call, ClientTakes, ClientEnds, Disconnect
  <1>9. UNCHANGED vars => UNCHANGED jobVars
    BY DEF vars
  <1> QED
    BY <1>1, <1>2, <1>3, <1>4, <1>5, <1>e, <1>6, <1>7, <1>8, <1>9 DEF Next, Handler, Track

-----------------------------------------------------------------------------
(* Answers.                                                                *)

(* An answer is final.                                                     *)
LEMMA AnswersStay ==
  ASSUME IndInv, [Next]_vars, NEW q \in Requests, At(q, "answered")
  PROVE  req'[q] = req[q] /\ answer'[q] = answer[q] /\ before'[q] = before[q]
  <1>1. ASSUME Handler(q)
        PROVE  FALSE
    BY <1>1 DEF Handler, SpawnChild, SpawnFails, Register, Lookup, Check, AskKill, KillTooLate,
                KillReturns, KillTimesOut, Subscribe, SubscribeFails, At
  <1>2. ASSUME Forwarder(q) \/ Peer(q)
        PROVE  UNCHANGED callVars
    BY <1>2 DEF Forwarder, ForwardFrame, ForwardEOF, ForwardError, ForwardCut, ForwardSend,
                ForwardDropped, Peer, Call, ClientTakes, ClientEnds, Disconnect, At
  <1>3. ASSUME NEW r \in Requests, Handler(r) \/ Forwarder(r) \/ Peer(r)
        PROVE  req'[q] = req[q] /\ answer'[q] = answer[q] /\ before'[q] = before[q]
    BY <1>1, <1>2, <1>3, UntouchedByOthers DEF callVars, Untouched
  <1>4. CASE (\E j \in JobIds : Track(j)) \/ UNCHANGED vars
    BY <1>4, UntouchedByJobs DEF Untouched
  <1> QED
    BY <1>3, <1>4 DEF Next

(* What a call asks for changes when it comes in, and when spawn puts the  *)
(* id of its job in the place of the command.                              *)
LEMMA SameCall ==
  ASSUME IndInv, [Next]_vars, NEW r \in Requests
  PROVE  \/ \E chain \in Chains, kind \in Kinds, id \in JobIds \union {Blank, Command} :
              Call(r, chain, kind, id)
         \/ \E j \in JobIds : SpawnChild(r, j)
         \/ /\ before'[r] = before[r] /\ req'[r].id = req[r].id
            /\ req'[r].user = req[r].user /\ req'[r].kind = req[r].kind
  <1> DEFINE Same == /\ before'[r] = before[r] /\ req'[r].id = req[r].id
                     /\ req'[r].user = req[r].user /\ req'[r].kind = req[r].kind
  <1>1. ASSUME NEW pc \in PCs, Goto(r, pc), UNCHANGED before
        PROVE  Same
    BY <1>1, GotoCall
  <1>2. ASSUME NEW code, NEW snapshot, Respond(r, code, snapshot), UNCHANGED before
        PROVE  Same
    BY <1>2, RespondCall
  <1>3. CASE SpawnFails(r) \/ KillTooLate(r) \/ KillTimesOut(r) \/ SubscribeFails(r) \/ Lookup(r)
    BY <1>1, <1>2, <1>3 DEF SpawnFails, KillTooLate, KillTimesOut, SubscribeFails, Lookup, Refuse, PCs
  <1>4. CASE Register(r) \/ KillReturns(r)
    BY <1>1, <1>2, <1>4 DEF Register, KillReturns, RespondJob, Refuse, PCs
  <1>5. CASE Check(r)
    <2>1. UNCHANGED before
      BY <1>5 DEF Check
    <2> QED
      BY <1>1, <1>2, <1>5, <2>1, CheckSteps DEF RespondJob, Refuse, PCs
  <1>6. CASE AskKill(r) \/ Subscribe(r)
    BY <1>1, <1>2, <1>6 DEF AskKill, Subscribe, PCs
  <1>7. CASE Forwarder(r) \/ ClientTakes(r) \/ ClientEnds(r)
    BY <1>7 DEF Forwarder, ForwardFrame, ForwardEOF, ForwardError, ForwardCut, ForwardSend,
                ForwardDropped, ClientTakes, ClientEnds, callVars
  <1>8. CASE Disconnect(r)
    BY <1>1, <1>8 DEF Disconnect, callVars, PCs
  <1>9. ASSUME NEW q \in Requests, q # r, Handler(q) \/ Forwarder(q) \/ Peer(q)
        PROVE  Same
    BY <1>9, UntouchedByOthers DEF Untouched
  <1>10. CASE (\E j \in JobIds : Track(j)) \/ UNCHANGED vars
    BY <1>10, UntouchedByJobs DEF Untouched
  <1>11. CASE Handler(r) \/ Peer(r)
    BY <1>3, <1>4, <1>5, <1>6, <1>7, <1>8, <1>11 DEF Handler, Peer
  <1> QED
    BY <1>7, <1>9, <1>10, <1>11 DEF Next

(* What an answer that was not there before is, and what it rests on.      *)
LEMMA NewAnswer ==
  ASSUME IndInv, [Next]_vars, NEW r \in Requests, ~At(r, "answered"), At(r, "answered")'
  PROVE  \/ answer'[r].code \notin {"ok", "NotFound"}
         \/ /\ answer'[r].code = "NotFound" /\ UNCHANGED tracker
            /\ \/ req[r].id \notin jobs
               \/ job[req[r].id].user # req[r].user
               \/ req[r].kind = "kill" /\ tracker[req[r].id] = "over"
         \/ /\ answer'[r].code = "ok"
            /\ req[r].kind \in {"spawn", "logs"} \/ answer'[r].job = job[req[r].id]
  <1>0. CallInv(r) /\ ReqT /\ AnswerT
    BY Types DEF IndInv, ServiceInv
  <1>1. ASSUME NEW pc \in PCs, pc # "answered", Goto(r, pc)
        PROVE  FALSE
    BY <1>1, GotoCall DEF At
  <1>2. ASSUME NEW code, NEW snapshot, Respond(r, code, snapshot)
        PROVE  answer'[r].code = code /\ answer'[r].job = snapshot
    BY <1>2, RespondAnswer
  <1>3. CASE SpawnFails(r) \/ KillTimesOut(r) \/ SubscribeFails(r)
    BY <1>2, <1>3 DEF SpawnFails, KillTimesOut, SubscribeFails, Refuse
  <1>4. CASE KillTooLate(r)
    <2>1. req[r].kind = "kill"
      BY <1>0, <1>4 DEF KillTooLate, CallInv, At
    <2> QED
      BY <1>2, <1>4, <2>1 DEF KillTooLate, Refuse, jobVars
  <1>5. CASE Lookup(r)
    BY <1>1, <1>2, <1>5 DEF Lookup, Refuse, jobVars, PCs
  <1>6. CASE Register(r)
    <2>1. req[r].kind = "spawn"
      BY <1>0, <1>6 DEF Register, CallInv, At
    <2> QED
      BY <1>1, <1>2, <1>6, <2>1 DEF Register, RespondJob, PCs
  <1>7. CASE KillReturns(r)
    BY <1>1, <1>2, <1>7 DEF KillReturns, RespondJob, Refuse, PCs
  <1>8. CASE Check(r)
    <2>1. UNCHANGED tracker
      BY <1>8 DEF Check, jobVars
    <2> QED
      BY <1>1, <1>2, <1>8, <2>1, CheckSteps DEF RespondJob, Refuse, IsOwner, PCs
  <1>9. CASE AskKill(r)
    BY <1>1, <1>9 DEF AskKill, PCs
  <1>10. CASE Subscribe(r)
    <2>1. req[r].kind = "logs"
      BY <1>0, <1>10 DEF Subscribe, CallInv, At
    <2> QED
      BY <1>2, <1>10, <2>1 DEF Subscribe
  <1>11. ASSUME NEW j \in JobIds, SpawnChild(r, j)
         PROVE  FALSE
    BY <1>0, <1>11 DEF SpawnChild, ReqT, At
  <1>12. ASSUME NEW chain \in Chains, NEW kind \in Kinds, NEW id \in JobIds \union {Blank, Command},
                Call(r, chain, kind, id)
         PROVE  answer'[r].code \notin {"ok", "NotFound"}
    <2>1. CASE answer'[r].code \in {"Unauthenticated", "InvalidArgument"}
      BY <2>1
    <2>2. ASSUME NEW u \in Users, CallTo(r, "called", u, kind, id)
          PROVE  FALSE
      BY <1>0, <2>2 DEF CallTo, ReqT, At
    <2>3. ASSUME NEW code, answer' = [answer EXCEPT ![r].code = code]
          PROVE  answer'[r].code = code
      BY <1>0, <2>3 DEF AnswerT
    <2> QED
      BY <1>12, <2>1, <2>2, <2>3, CallSteps
  <1>13. CASE Disconnect(r)
    BY <1>1, <1>13 DEF Disconnect, callVars, At, PCs
  <1>14. CASE Forwarder(r) \/ ClientTakes(r) \/ ClientEnds(r)
    BY <1>14 DEF Forwarder, ForwardFrame, ForwardEOF, ForwardError, ForwardCut, ForwardSend,
                 ForwardDropped, ClientTakes, ClientEnds, callVars, At
  <1>15. ASSUME NEW q \in Requests, q # r, Handler(q) \/ Forwarder(q) \/ Peer(q)
         PROVE  FALSE
    BY <1>15, UntouchedByOthers DEF Untouched, At
  <1>16. CASE (\E j \in JobIds : Track(j)) \/ UNCHANGED vars
    BY <1>16, UntouchedByJobs DEF Untouched, At
  <1>17. CASE Handler(r) \/ Peer(r)
    BY <1>3, <1>4, <1>5, <1>6, <1>7, <1>8, <1>9, <1>10, <1>11, <1>12, <1>13, <1>14, <1>17
    DEF Handler, Peer
  <1> QED
    BY <1>14, <1>15, <1>16, <1>17 DEF Next

(* A call that is answered ok is about a job that exists.                  *)
LEMMA AnsweredOk ==
  ASSUME IndInv, NEW q \in Requests, Answered(q, "ok")
  PROVE  /\ Entitled(q) /\ job[req[q].id] # Unborn
         /\ req[q].kind = "spawn" => req[q].id \in jobs
         /\ req[q].kind # "logs" => NotOlder(answer[q].job, job[req[q].id])
  <1>1. AnswerInv(q)
    BY DEF IndInv, ServiceInv
  <1> QED
    BY <1>1, NamesAssumption DEF AnswerInv, Answered, Entitled, Unborn

LEMMA BeforeStep ==
  ASSUME IndInv, [Next]_vars, NEW r \in Requests
  PROVE  BeforeInv(r)'
  <1>0. BeforeInv(r) /\ ReqT /\ BeforeT
    BY Types DEF IndInv, ServiceInv
  <1>1. ASSUME NEW q \in Requests, At(q, "answered")
        PROVE  /\ At(q, "answered")' /\ req'[q] = req[q] /\ answer'[q] = answer[q]
               /\ answer[q].code = "ok" => req[q].id \in JobIds /\ job[req[q].id] # Unborn
    BY <1>1, AnswersStay, AnsweredOk DEF At, Answered, Entitled
  <1>2. ASSUME NEW chain \in Chains, NEW kind \in Kinds, NEW id \in JobIds \union {Blank, Command},
               Call(r, chain, kind, id)
        PROVE  BeforeInv(r)'
    <2>1. before'[r] = {q \in Requests : At(q, "answered")}
      BY <1>0, <1>2, CallSteps DEF BeforeT
    <2>2. req'[r].kind = kind /\ req'[r].id = id
      BY <1>0, <1>2, CallSteps DEF CallTo, ReqT
    <2>3. kind = "spawn" => id \notin JobIds
      BY <1>2, CallSteps, NamesAssumption
    <2> QED
      BY <1>1, <2>1, <2>2, <2>3 DEF BeforeInv
  <1>3. ASSUME NEW j \in JobIds, SpawnChild(r, j)
        PROVE  BeforeInv(r)'
    <2>1. before'[r] = before[r] /\ req'[r].id = j /\ job[j] = Unborn
      BY <1>0, <1>3 DEF SpawnChild, ReqT
    <2>2. \A q \in before[r] : q \in Requests
      BY <1>0 DEF BeforeT
    <2> QED
      BY <1>0, <1>1, <2>1, <2>2 DEF BeforeInv
  <1>4. CASE /\ before'[r] = before[r] /\ req'[r].id = req[r].id
             /\ req'[r].user = req[r].user /\ req'[r].kind = req[r].kind
    <2>1. \A q \in before[r] : q \in Requests
      BY <1>0 DEF BeforeT
    <2> QED
      BY <1>0, <1>1, <1>4, <2>1 DEF BeforeInv
  <1> QED
    BY <1>2, <1>3, <1>4, SameCall

(* Two answers, the second to a call made after the first: either both     *)
(* were there before the step, or the second is new.                       *)
LEMMA LaterAnswer ==
  ASSUME IndInv, [Next]_vars, NEW q \in Requests, NEW r \in Requests, q \in before'[r],
         At(r, "answered")', answer'[r].code \in {"ok", "NotFound"}
  PROVE  /\ q \in before[r] /\ At(q, "answered")
         /\ req'[q] = req[q] /\ answer'[q] = answer[q]
         /\ req'[r].id = req[r].id /\ req'[r].user = req[r].user /\ req'[r].kind = req[r].kind
         /\ At(r, "answered") => req'[r] = req[r] /\ answer'[r] = answer[r]
  <1>0. ReqT /\ AnswerT /\ BeforeInv(r)
    BY Types DEF IndInv, ServiceInv
  <1>1. ASSUME NEW chain \in Chains, NEW kind \in Kinds, NEW id \in JobIds \union {Blank, Command},
               Call(r, chain, kind, id)
        PROVE  FALSE
    <2>1. ASSUME NEW u \in Users, CallTo(r, "called", u, kind, id)
          PROVE  FALSE
      BY <1>0, <2>1 DEF CallTo, ReqT, At
    <2>2. ASSUME NEW code, answer' = [answer EXCEPT ![r].code = code]
          PROVE  answer'[r].code = code
      BY <1>0, <2>2 DEF AnswerT
    <2> QED
      BY <1>1, <2>1, <2>2, CallSteps
  <1>2. ASSUME NEW j \in JobIds, SpawnChild(r, j)
        PROVE  FALSE
    BY <1>0, <1>2 DEF SpawnChild, ReqT, At
  <1>3. /\ before'[r] = before[r] /\ req'[r].id = req[r].id
        /\ req'[r].user = req[r].user /\ req'[r].kind = req[r].kind
    BY <1>1, <1>2, SameCall
  <1>4. q \in before[r] /\ At(q, "answered")
    BY <1>0, <1>3 DEF BeforeInv
  <1> QED
    BY <1>3, <1>4, AnswersStay

(* Only spawn makes a job, and what it makes it stores or leaves behind.   *)
LEMMA OrphanStep ==
  ASSUME IndInv, [Next]_vars, NEW j \in JobIds, job'[j] # Unborn, j \notin jobs'
  PROVE  Unregistered(j)'
  <1>0. /\ JobT /\ JobsT /\ ReqT /\ JobInv(j)
        /\ job[j] # Unborn /\ j \notin jobs => Unregistered(j)
    BY Types DEF IndInv, ServiceInv, SpawnedJobIsFound
  <1>w. ASSUME NEW p \in Requests, req'[p].kind = "spawn", req'[p].id = j,
               req'[p].pc \in {"registering", "gone"}
        PROVE  Unregistered(j)'
    BY <1>w DEF Unregistered
  <1>k. ASSUME NEW r \in Requests, \A p \in Requests \ {r} : req'[p] = req[p],
               job[j] # Unborn, j \notin jobs,
               req[r].kind = "spawn" /\ req[r].id = j /\ req[r].pc \in {"registering", "gone"}
                 => req'[r] = req[r] \/ req'[r] = [req[r] EXCEPT !.pc = "gone"]
        PROVE  Unregistered(j)'
    <2>1. PICK p \in Requests : /\ req[p].kind = "spawn" /\ req[p].id = j
                                /\ req[p].pc \in {"registering", "gone"}
      BY <1>0, <1>k DEF Unregistered
    <2>2. CASE p # r
      BY <1>k, <1>w, <2>1, <2>2
    <2>3. CASE p = r
      <3>1. req'[p] = req[p] \/ req'[p] = [req[p] EXCEPT !.pc = "gone"]
        BY <1>k, <2>1, <2>3
      <3>2. /\ req'[p].kind = "spawn" /\ req'[p].id = j
            /\ req'[p].pc \in {"registering", "gone"}
        BY <1>0, <2>1, <3>1 DEF ReqT
      <3> QED
        BY <1>w, <3>2
    <2> QED
      BY <2>2, <2>3
  <1>1. ASSUME NEW r \in Requests, NEW i \in JobIds, SpawnChild(r, i)
        PROVE  Unregistered(j)'
    <2>1. /\ req' = [req EXCEPT ![r].pc = "registering", ![r].id = i]
          /\ req[r].kind = "spawn" /\ req[r].pc = "called" /\ UNCHANGED jobs
      BY <1>1 DEF SpawnChild, At
    <2>2. CASE i = j
      <3>1. req'[r].kind = "spawn" /\ req'[r].id = j /\ req'[r].pc = "registering"
        BY <1>0, <2>1, <2>2 DEF ReqT
      <3> QED
        BY <1>w, <3>1
    <2>3. CASE i # j
      <3>1. job'[j] = job[j]
        BY <1>0, <1>1, <2>3 DEF SpawnChild, JobT
      <3>2. \A p \in Requests \ {r} : req'[p] = req[p]
        BY <1>0, <2>1 DEF ReqT
      <3> QED
        BY <1>k, <2>1, <3>1, <3>2
    <2> QED
      BY <2>2, <2>3
  <1>2. ASSUME NEW r \in Requests, Register(r) PROVE Unregistered(j)'
    <2>1. UNCHANGED job /\ j \notin jobs /\ req[r].id # j
      BY <1>2 DEF Register, WithJob
    <2>2. \A p \in Requests \ {r} : req'[p] = req[p]
      BY <1>2, UntouchedByOthers DEF Handler, Untouched
    <2> QED
      BY <1>k, <2>1, <2>2
  <1>3. ASSUME NEW r \in Requests,
               \/ SpawnFails(r) \/ Lookup(r) \/ Check(r) \/ AskKill(r) \/ KillTooLate(r)
               \/ KillReturns(r) \/ KillTimesOut(r) \/ Subscribe(r) \/ SubscribeFails(r)
        PROVE  Unregistered(j)'
    <2>1. UNCHANGED jobVars
      BY <1>3 DEF SpawnFails, Lookup, Check, AskKill, KillTooLate, KillReturns, KillTimesOut,
                  Subscribe, SubscribeFails
    <2>2. req[r].pc \notin {"registering", "gone"}
      BY <1>3 DEF SpawnFails, Lookup, Check, AskKill, KillTooLate, KillReturns, KillTimesOut,
                  Subscribe, SubscribeFails, At
    <2>3. \A p \in Requests \ {r} : req'[p] = req[p]
      BY <1>3, UntouchedByOthers DEF Handler, Untouched
    <2> QED
      BY <1>k, <2>1, <2>2, <2>3 DEF jobVars
  <1>4. ASSUME NEW r \in Requests, Peer(r) PROVE Unregistered(j)'
    <2>1. CASE Disconnect(r)
      BY <1>0, <1>k, <2>1 DEF Disconnect, Goto, jobVars, callVars, ReqT
    <2>2. CASE ClientTakes(r) \/ ClientEnds(r)
      BY <1>k, <2>2 DEF ClientTakes, ClientEnds, jobVars, callVars
    <2>3. ASSUME NEW chain \in Chains, NEW kind \in Kinds, NEW id \in JobIds \union {Blank, Command},
                 Call(r, chain, kind, id)
          PROVE  Unregistered(j)'
      <3>1. UNCHANGED jobVars /\ req[r].pc = "idle"
        BY <2>3 DEF Call, At
      <3>2. \A p \in Requests \ {r} : req'[p] = req[p]
        BY <1>0, <2>3 DEF Call, ReqT
      <3> QED
        BY <1>k, <3>1, <3>2 DEF jobVars
    <2> QED
      BY <1>4, <2>1, <2>2, <2>3 DEF Peer
  <1>5. ASSUME NEW r \in Requests, Forwarder(r) PROVE Unregistered(j)'
    <2>1. UNCHANGED <<jobs, job, req>>
      BY <1>5 DEF Forwarder, ForwardFrame, ForwardEOF, ForwardError, ForwardCut, ForwardSend,
                  ForwardDropped, jobVars, callVars
    <2> QED
      BY <1>k, <2>1
  <1>6. ASSUME NEW i \in JobIds, Track(i) PROVE Unregistered(j)'
    <2>1. UNCHANGED <<jobs, req>>
      BY <1>6 DEF Track, ServeKill, ChildExits, Output, Seal, TrackerReturns, callVars
    <2>2. job[j] # Unborn
      <3>1. UNCHANGED job \/ job[i].state = "running"
        BY <1>6 DEF Track, ServeKill, Recordable, ChildExits, Output, Seal, TrackerReturns
      <3>2. job'[j] = job[j] \/ i = j
        BY <1>0, <1>6 DEF Track, ServeKill, ChildExits, Output, Seal, TrackerReturns, JobT
      <3> QED
        BY <3>1, <3>2 DEF Unborn
    <2>3. Unregistered(j)
      BY <1>0, <2>1, <2>2
    <2> QED
      BY <2>1, <2>3 DEF Unregistered
  <1>7. CASE UNCHANGED vars
    BY <1>0, <1>7 DEF vars, jobVars, callVars, Unregistered
  <1> QED
    BY <1>1, <1>2, <1>3, <1>4, <1>5, <1>6, <1>7 DEF Next, Handler

LEMMA FoundStep ==
  ASSUME IndInv, [Next]_vars, JobsMove
  PROVE  SpawnedJobIsFound'
  <1> SUFFICES ASSUME NEW q \in Requests, NEW r \in Requests, q \in before'[r],
                      req'[q].kind = "spawn", Answered(q, "ok")',
                      req'[r].id = req'[q].id, req'[r].user = req'[q].user, Answered(r, "NotFound")'
               PROVE  req'[r].kind = "kill" /\ tracker'[req'[r].id] = "over"
    BY OrphanStep DEF SpawnedJobIsFound
  <1>1. At(r, "answered")' /\ answer'[r].code = "NotFound"
    BY DEF Answered
  <1>2. /\ q \in before[r] /\ At(q, "answered")
        /\ req'[q] = req[q] /\ answer'[q] = answer[q]
        /\ req'[r].id = req[r].id /\ req'[r].user = req[r].user /\ req'[r].kind = req[r].kind
        /\ At(r, "answered") => req'[r] = req[r] /\ answer'[r] = answer[r]
    BY <1>1, LaterAnswer
  <1>3. Answered(q, "ok") /\ req[q].kind = "spawn" /\ req[r].id = req[q].id /\ req[r].user = req[q].user
    BY <1>2 DEF Answered
  <1>4. Entitled(q) /\ req[q].id \in jobs
    BY <1>3, AnsweredOk
  <1>5. CASE At(r, "answered")
    <2>1. Answered(r, "NotFound")
      BY <1>1, <1>2, <1>5 DEF Answered
    <2>2. req[r].kind = "kill" /\ tracker[req[r].id] = "over"
      BY <1>2, <1>3, <2>1 DEF IndInv, ServiceInv, SpawnedJobIsFound
    <2> QED
      BY <1>2, <1>3, <1>4, <2>2 DEF JobsMove, Entitled
  <1>6. CASE ~At(r, "answered")
    <2>1. UNCHANGED tracker /\ req[r].kind = "kill" /\ tracker[req[r].id] = "over"
      BY <1>1, <1>3, <1>4, <1>6, NewAnswer DEF Entitled
    <2> QED
      BY <1>2, <2>1
  <1> QED
    BY <1>5, <1>6

LEMMA ForwardStep ==
  ASSUME IndInv, [Next]_vars
  PROVE  AnswersMoveForward'
  <1> SUFFICES ASSUME NEW q \in Requests, NEW r \in Requests, q \in before'[r],
                      Answered(q, "ok")', Answered(r, "ok")', req'[q].id = req'[r].id,
                      req'[q].kind # "logs", req'[r].kind # "logs"
               PROVE  NotOlder(answer'[q].job, answer'[r].job)
    BY DEF AnswersMoveForward, NotOlder
  <1>1. At(r, "answered")' /\ answer'[r].code = "ok"
    BY DEF Answered
  <1>2. /\ q \in before[r] /\ At(q, "answered")
        /\ req'[q] = req[q] /\ answer'[q] = answer[q]
        /\ req'[r].id = req[r].id /\ req'[r].user = req[r].user /\ req'[r].kind = req[r].kind
        /\ At(r, "answered") => req'[r] = req[r] /\ answer'[r] = answer[r]
    BY <1>1, LaterAnswer
  <1>3. /\ Answered(q, "ok") /\ req[q].id = req[r].id
        /\ req[q].kind # "logs" /\ req[r].kind # "logs"
    BY <1>2 DEF Answered
  <1>4. CASE At(r, "answered")
    <2>1. Answered(r, "ok")
      BY <1>1, <1>2, <1>4 DEF Answered
    <2> QED
      BY <1>2, <1>3, <1>4, <2>1 DEF IndInv, ServiceInv, AnswersMoveForward
  <1>5. CASE ~At(r, "answered")
    <2>1. req[r].kind # "spawn"
      BY <1>2, <1>3 DEF IndInv, ServiceInv, BeforeInv, Answered
    <2>2. answer'[r].job = job[req[r].id]
      BY <1>1, <1>3, <1>5, <2>1, NewAnswer
    <2>3. NotOlder(answer[q].job, job[req[q].id])
      BY <1>3, AnsweredOk
    <2> QED
      BY <1>2, <1>3, <2>2, <2>3
  <1> QED
    BY <1>4, <1>5

-----------------------------------------------------------------------------
(* Streams.                                                                *)

(* A stream that a step does not touch: its log may only grow, and no      *)
(* longer once it has ended.                                               *)
LEMMA UntouchedStream ==
  ASSUME IndInv, LogT', JobsMove, NEW r \in Requests, Untouched(r),
         fwd'[r] = fwd[r], taken'[r] = taken[r], wire'[r] = wire[r],
         seen'[r] = seen[r], stream'[r] = stream[r]
  PROVE  ForwardInv(r)'
  <1>0. ForwardInv(r) /\ ForwardT /\ ClientT /\ LogT /\ JobsT /\ \A j \in JobIds : JobInv(j)
    BY Types DEF IndInv, ServiceInv
  <1>1. CASE stream[r] = "none"
    BY <1>0, <1>1 DEF ForwardInv
  <1>2. CASE stream[r] # "none"
    <2>1. Entitled(r) /\ req[r].id \in JobIds /\ At(r, "answered") /\ req[r].kind = "logs"
      BY <1>0, <1>2 DEF ForwardInv, Entitled
    <2>2. Entitled(r)'
      BY <2>1, StaysEntitled DEF Untouched
    <2>3. taken[r] <= log'[req[r].id].len
      <3>1. taken[r] \in Nat /\ log[req[r].id].len \in Nat
        BY <1>0, <2>1 DEF ForwardT, LogT
      <3>2. log'[req[r].id].len >= log[req[r].id].len /\ taken[r] <= log[req[r].id].len
        BY <1>0, <1>2, <2>1 DEF ForwardInv, JobsMove
      <3>3. log'[req[r].id].len \in Nat
        BY <2>1 DEF LogT
      <3> QED
        BY <3>1, <3>2, <3>3
    <2>4. \A n : log[req[r].id] = [len |-> n, end |-> "EOF"] => log'[req[r].id] = log[req[r].id]
      BY <2>1 DEF Sealed, JobsMove
    <2> QED
      BY <1>0, <1>2, <2>1, <2>2, <2>3, <2>4 DEF ForwardInv, Untouched, At
  <1> QED
    BY <1>1, <1>2

(* The task and the client, on their own stream.                           *)
LEMMA OwnStreamStep ==
  ASSUME IndInv, NEW r \in Requests, Forwarder(r) \/ ClientTakes(r) \/ ClientEnds(r)
  PROVE  ForwardInv(r)'
  <1>0. ForwardInv(r) /\ ForwardT /\ ClientT /\ LogT
    BY Types DEF IndInv, ServiceInv
  <1>1. /\ UNCHANGED <<job, log, req>> /\ stream[r] # "none"
        /\ fwd'[r] # "none" /\ stream'[r] # "none"
    BY <1>0 DEF Forwarder, ForwardFrame, ForwardEOF, ForwardError, ForwardCut, ForwardSend,
                ForwardDropped, ClientTakes, ClientEnds, jobVars, callVars, ForwardInv,
                ForwardT, ClientT, AfterError
  <1>2. At(r, "answered") /\ req[r].kind = "logs" /\ Entitled(r) /\ req[r].id \in JobIds
    BY <1>0, <1>1 DEF ForwardInv, Entitled
  <1>3. At(r, "answered")' /\ req'[r].kind = "logs" /\ Entitled(r)'
    BY <1>1, <1>2 DEF At, Entitled
  <1>4. /\ taken[r] \in Nat /\ seen[r] \in Nat /\ log[req[r].id].len \in Nat
        /\ log[req[r].id] = [len |-> log[req[r].id].len, end |-> log[req[r].id].end]
    BY <1>0, <1>2 DEF ForwardT, ClientT, LogT
  <1>5. taken[r] <= log[req[r].id].len
    BY <1>0, <1>1 DEF ForwardInv
  <1>6. CASE ForwardFrame(r)
    <2>1. /\ fwd[r] = "receiving" /\ fwd'[r] = "sending" /\ taken'[r] = taken[r] + 1
          /\ taken[r] < log[req[r].id].len
          /\ UNCHANGED <<wire, seen, stream>>
      BY <1>0, <1>6 DEF ForwardFrame, HasFrame, ForwardT
    <2> QED
      BY <1>0, <1>1, <1>3, <1>4, <1>5, <2>1 DEF ForwardInv
  <1>7. CASE ForwardEOF(r)
    <2>1. /\ fwd[r] = "receiving" /\ fwd'[r] = "ended"
          /\ log[req[r].id].end = "EOF" /\ ~(taken[r] < log[req[r].id].len)
          /\ UNCHANGED <<taken, wire, seen, stream>>
      BY <1>0, <1>7 DEF ForwardEOF, HasEnd, HasFrame, ForwardT
    <2>2. log[req[r].id] = [len |-> taken[r], end |-> "EOF"]
      BY <1>4, <1>5, <2>1
    <2> QED
      BY <1>0, <1>1, <1>3, <1>4, <1>5, <2>1, <2>2 DEF ForwardInv
  <1>8. CASE ForwardError(r) \/ ForwardCut(r)
    <2>1. /\ fwd[r] = "receiving" /\ fwd'[r] = "failing"
          /\ UNCHANGED <<taken, wire, seen, stream>>
      BY <1>0, <1>8 DEF ForwardError, ForwardCut, AfterError, ForwardT
    <2> QED
      BY <1>0, <1>1, <1>3, <1>4, <1>5, <2>1 DEF ForwardInv
  <1>9. CASE ForwardSend(r)
    <2>1. /\ stream[r] = "open" /\ wire[r] = "empty"
          /\ \/ fwd[r] = "sending" /\ wire'[r] = "frame" /\ fwd'[r] = "receiving"
             \/ fwd[r] = "failing" /\ wire'[r] = "status" /\ fwd'[r] = "ended"
          /\ UNCHANGED <<taken, seen, stream>>
      BY <1>0, <1>9 DEF ForwardSend, ForwardT, ClientT
    <2> QED
      BY <1>0, <1>1, <1>3, <1>4, <1>5, <2>1 DEF ForwardInv
  <1>10. CASE ForwardDropped(r)
    <2>1. stream[r] # "open" /\ fwd'[r] = "ended" /\ UNCHANGED <<taken, wire, seen, stream>>
      BY <1>0, <1>10 DEF ForwardDropped, ForwardT
    <2> QED
      BY <1>0, <1>1, <1>3, <1>4, <1>5, <2>1 DEF ForwardInv
  <1>11. CASE ClientTakes(r)
    <2>1. /\ stream[r] = "open" /\ wire[r] # "empty" /\ wire'[r] = "empty"
          /\ \/ wire[r] = "frame" /\ seen'[r] = seen[r] + 1 /\ UNCHANGED stream
             \/ wire[r] # "frame" /\ stream'[r] = "error" /\ UNCHANGED seen
          /\ UNCHANGED <<taken, fwd>>
      BY <1>0, <1>11 DEF ClientTakes, ClientT
    <2> QED
      BY <1>0, <1>1, <1>3, <1>4, <1>5, <2>1 DEF ForwardInv
  <1>12. CASE ClientEnds(r)
    <2>1. /\ stream[r] = "open" /\ wire[r] = "empty" /\ fwd[r] = "ended" /\ stream'[r] = "ok"
          /\ UNCHANGED <<taken, fwd, wire, seen>>
      BY <1>0, <1>12 DEF ClientEnds, ClientT
    <2> QED
      BY <1>0, <1>1, <1>3, <1>4, <1>5, <2>1 DEF ForwardInv
  <1> QED
    BY <1>6, <1>7, <1>8, <1>9, <1>10, <1>11, <1>12 DEF Forwarder

LEMMA SubscribeStream ==
  ASSUME IndInv, JobsMove, NEW r \in Requests, Subscribe(r)
  PROVE  ForwardInv(r)'
  <1>0. ForwardInv(r) /\ ForwardT /\ ClientT /\ LogT /\ CallInv(r)
    BY Types DEF IndInv, ServiceInv
  <1>1. At(r, "subscribing") /\ UNCHANGED <<job, log, taken, wire, seen>>
    BY DEF Subscribe, jobVars
  <1>2. Entitled(r) /\ req[r].kind = "logs" /\ req[r].id \in JobIds
    BY <1>0, <1>1 DEF CallInv, At, Entitled
  <1>3. stream[r] = "none" /\ wire[r] = "empty" /\ taken[r] = 0 /\ seen[r] = 0
    BY <1>0, <1>1 DEF ForwardInv, At
  <1>4. /\ req'[r].pc = "answered"
        /\ req'[r].id = req[r].id /\ req'[r].user = req[r].user /\ req'[r].kind = req[r].kind
    BY RespondCall DEF Subscribe
  <1>5. Entitled(r)'
    BY <1>2, <1>4, StaysEntitled
  <1>6. fwd'[r] = "receiving" /\ stream'[r] = "open"
    BY <1>0 DEF Subscribe, ForwardT, ClientT
  <1>7. 0 <= log[req[r].id].len
    BY <1>0, <1>2 DEF LogT
  <1> QED
    BY <1>1, <1>2, <1>3, <1>4, <1>5, <1>6, <1>7 DEF ForwardInv, At

LEMMA StreamStep ==
  ASSUME IndInv, JobsMove, [Next]_vars, NEW r \in Requests
  PROVE  ForwardInv(r)'
  <1>0. ForwardInv(r) /\ ForwardT /\ ClientT /\ CallInv(r)
    BY Types DEF IndInv, ServiceInv
  <1>l. LogT'
    BY LogType DEF IndInv
  <1> DEFINE SameStream == /\ fwd'[r] = fwd[r] /\ taken'[r] = taken[r] /\ wire'[r] = wire[r]
                           /\ seen'[r] = seen[r] /\ stream'[r] = stream[r]
  <1>1. ASSUME Forwarder(r) \/ ClientTakes(r) \/ ClientEnds(r) \/ Subscribe(r)
        PROVE  ForwardInv(r)'
    BY <1>1, OwnStreamStep, SubscribeStream
  (* No other step of a handler is possible once there is a stream.        *)
  <1>2. ASSUME \/ \E j \in JobIds : SpawnChild(r, j)
               \/ SpawnFails(r) \/ Register(r) \/ Lookup(r) \/ Check(r)
               \/ AskKill(r) \/ KillTooLate(r) \/ KillReturns(r) \/ KillTimesOut(r)
               \/ SubscribeFails(r)
               \/ \E chain \in Chains, kind \in Kinds, id \in JobIds \union {Blank, Command} :
                    Call(r, chain, kind, id)
        PROVE  ForwardInv(r)'
    <2>1. ~At(r, "answered") /\ SameStream
      BY <1>2 DEF SpawnChild, SpawnFails, Register, Lookup, Check, AskKill, KillTooLate, KillReturns,
                  KillTimesOut, SubscribeFails, Call, streamVars, At
    <2>2. stream[r] = "none"
      BY <1>0, <2>1 DEF ForwardInv
    <2> QED
      BY <1>0, <2>1, <2>2 DEF ForwardInv
  <1>3. ASSUME Disconnect(r)
        PROVE  ForwardInv(r)'
    <2>1. CASE req[r].pc # "answered" /\ UNCHANGED streamVars
      <3>1. stream[r] = "none" /\ SameStream
        BY <1>0, <2>1 DEF ForwardInv, At, streamVars
      <3> QED
        BY <1>0, <3>1 DEF ForwardInv
    <2>2. CASE /\ stream[r] = "open" /\ stream' = [stream EXCEPT ![r] = "dropped"]
               /\ UNCHANGED <<jobVars, callVars, fwd, taken, seen>>
      <3>1. stream[r] = "open" /\ stream'[r] = "dropped" /\ UNCHANGED <<job, log, req, fwd, taken, seen>>
        BY <1>0, <2>2 DEF ClientT, jobVars, callVars
      <3>2. At(r, "answered") /\ req[r].kind = "logs" /\ Entitled(r)
        BY <1>0, <3>1 DEF ForwardInv
      <3>3. At(r, "answered")' /\ req'[r].kind = "logs" /\ Entitled(r)'
        BY <3>1, <3>2 DEF At, Entitled
      <3> QED
        BY <1>0, <3>1, <3>3 DEF ForwardInv
    <2> QED
      BY <1>3, <2>1, <2>2 DEF Disconnect
  <1>4. ASSUME NEW q \in Requests, q # r, Handler(q) \/ Forwarder(q) \/ Peer(q)
        PROVE  ForwardInv(r)'
    <2>1. Untouched(r)
      BY <1>4, UntouchedByOthers
    <2>2. CASE UNCHANGED streamVars
      BY <1>l, <2>1, <2>2, UntouchedStream DEF streamVars
    <2>3. CASE Forwarder(q) \/ ClientTakes(q) \/ ClientEnds(q) \/ Subscribe(q) \/ Disconnect(q)
      <3>1. SameStream
        BY <1>0, <1>4, <2>3 DEF Forwarder, ForwardFrame, ForwardEOF, ForwardError, ForwardCut, ForwardSend,
           ForwardDropped, ClientTakes, ClientEnds, Subscribe, Disconnect, streamVars, ForwardT, ClientT
      <3> QED
        BY <1>l, <2>1, <3>1, UntouchedStream
    <2>4. ASSUME \/ \E j \in JobIds : SpawnChild(q, j)
                 \/ SpawnFails(q) \/ Register(q) \/ Lookup(q) \/ Check(q)
                 \/ AskKill(q) \/ KillTooLate(q) \/ KillReturns(q) \/ KillTimesOut(q)
                 \/ SubscribeFails(q)
                 \/ \E chain \in Chains, kind \in Kinds, id \in JobIds \union {Blank, Command} :
                      Call(q, chain, kind, id)
          PROVE  UNCHANGED streamVars
      BY <2>4 DEF SpawnChild, SpawnFails, Register, Lookup, Check, AskKill, KillTooLate, KillReturns,
                  KillTimesOut, SubscribeFails, Call
    <2> QED
      BY <1>4, <2>2, <2>3, <2>4 DEF Handler, Peer
  <1>5. ASSUME (\E j \in JobIds : Track(j)) \/ UNCHANGED vars
        PROVE  ForwardInv(r)'
    <2>1. Untouched(r)
      BY <1>5, UntouchedByJobs
    <2>2. UNCHANGED streamVars
      BY <1>5 DEF Track, ServeKill, ChildExits, Output, Seal, TrackerReturns, vars
    <2> QED
      BY <1>l, <2>1, <2>2, UntouchedStream DEF streamVars
  <1>6. Handler(r) \/ Peer(r) => ForwardInv(r)'
    BY <1>1, <1>2, <1>3 DEF Handler, Peer
  <1> QED
    BY <1>1, <1>4, <1>5, <1>6 DEF Next

-----------------------------------------------------------------------------
(* Kill requests.                                                          *)

(* A kill request is its caller's, about a job that exists.                *)
LEMMA KillerIsEntitled ==
  ASSUME IndInv, NEW r \in Requests, told[r] # "none"
  PROVE  /\ Entitled(r) /\ req[r].id \in JobIds /\ job[req[r].id] # Unborn
         /\ req[r].kind = "kill"
  <1>1. CallInv(r)
    BY DEF IndInv, ServiceInv
  <1> QED
    BY <1>1, NamesAssumption DEF CallInv, Entitled, Unborn

(* What a handler, a forwarding task or a client does to jobs.             *)
SameJobs == /\ log' = log
            /\ \A j \in JobIds :
                 /\ job[j] # Unborn => job'[j] = job[j] /\ tracker'[j] = tracker[j]
                 /\ job[j] = Unborn => /\ job'[j].killed = NoOne
                                       /\ job'[j].state \in {"unborn", "running"}
                                       /\ tracker'[j] # "over"

LEMMA CallsLeaveJobs ==
  ASSUME IndInv, NEW r \in Requests, Handler(r) \/ Forwarder(r) \/ Peer(r)
  PROVE  SameJobs
  <1>0. JobT /\ JobsT /\ \A j \in JobIds : JobInv(j)
    BY Types DEF IndInv, ServiceInv
  <1>1. UNCHANGED <<job, tracker, log>> => SameJobs
    BY <1>0 DEF SameJobs, JobInv, Unborn
  <1>2. ASSUME NEW j \in JobIds, SpawnChild(r, j)
        PROVE  SameJobs
    <2>1. job' = [job EXCEPT ![j] = Started(req[r].user)] /\ UNCHANGED log /\ job[j] = Unborn
      BY <1>2 DEF SpawnChild
    <2>2. \A k \in JobIds : k # j => job'[k] = job[k] /\ tracker'[k] = tracker[k]
      BY <1>0, <1>2 DEF SpawnChild, JobT, JobsT
    <2>3. job'[j].killed = NoOne /\ job'[j].state = "running" /\ tracker'[j] # "over"
      BY <1>0, <1>2, <2>1 DEF SpawnChild, JobT, JobsT, Started
    <2>4. \A k \in JobIds : job[k] = Unborn /\ k # j =>
             job'[k].killed = NoOne /\ job'[k].state = "unborn" /\ tracker'[k] # "over"
      BY <1>0, <2>2 DEF JobInv, Unborn
    <2> QED
      BY <2>1, <2>2, <2>3, <2>4 DEF SameJobs
  <1>3. CASE ~\E j \in JobIds : SpawnChild(r, j)
    <2>1. UNCHANGED <<job, tracker, log>>
      BY <1>3 DEF Handler, SpawnFails, Register, Lookup, Check, AskKill, KillTooLate, KillReturns,
                  KillTimesOut, Subscribe, SubscribeFails, Forwarder, ForwardFrame, ForwardEOF,
                  ForwardError, ForwardCut, ForwardSend, ForwardDropped, Peer, Call, ClientTakes,
                  ClientEnds, Disconnect, jobVars
    <2> QED
      BY <1>1, <2>1
  <1> QED
    BY <1>2, <1>3

(* A kill call that a step does not touch, and neither does it its job.    *)
LEMMA UntouchedKills ==
  ASSUME IndInv, NEW q \in Requests, Untouched(q), UntouchedKill(q), SameJobs
  PROVE  KillInv(q)'
  <1>0. KillInv(q) /\ AnswerInv(q)
    BY DEF IndInv, ServiceInv
  <1>1. \A j \in JobIds : job'[j].killed = q => job[j].killed = q
    BY NamesAssumption DEF SameJobs
  <1>2. CASE told[q] = "none"
    <2>1. told'[q] = "none" /\ ~At(q, "waiting")'
      BY <1>0, <1>2 DEF KillInv, UntouchedKill, Untouched, At
    <2>2. ~(At(q, "answered") /\ req[q].kind = "kill" /\ answer[q].code = "ok")'
      BY <1>0, <1>2 DEF KillInv, Untouched, At
    <2>3. \A j \in JobIds : q \notin asked'[j] /\ job'[j].killed # q
      BY <1>0, <1>1, <1>2 DEF KillInv, UntouchedKill
    <2> QED
      BY <2>1, <2>2, <2>3 DEF KillInv
  <1>3. CASE told[q] # "none"
    <2>1. req[q].id \in JobIds /\ job[req[q].id] # Unborn
      BY <1>3, KillerIsEntitled
    <2>2. job'[req[q].id] = job[req[q].id] /\ tracker'[req[q].id] = tracker[req[q].id]
      BY <2>1 DEF SameJobs
    <2>3. Killed(q)' <=> Killed(q)
      BY <2>1, <2>2 DEF Killed, Untouched
    <2>4. ASSUME NEW j \in JobIds
          PROVE  /\ (q \in asked[j])' => /\ req[q].id = j /\ tracker'[j] = "running"
                                         /\ told[q] \in {"waiting", "gone"} /\ job'[j].killed # q
                 /\ job'[j].killed = q => /\ req[q].id = j
                                          /\ told[q] \in {"waiting", "ok", "gone", "dropped"}
                                          /\ told[q] = "dropped" => log[j].end = "Err"
      BY <1>0, <1>1, <2>2 DEF KillInv, UntouchedKill
    <2> QED
      BY <1>0, <2>1, <2>2, <2>3, <2>4 DEF KillInv, UntouchedKill, Untouched, At, SameJobs
  <1> QED
    BY <1>2, <1>3

(* A call that has asked for no kill yet, and still does not.              *)
LEMMA NoKillYet ==
  ASSUME IndInv, NEW r \in Requests, told[r] = "none", UntouchedKill(r), SameJobs,
         ~At(r, "waiting")',
         At(r, "answered")' => req'[r].kind # "kill" \/ answer'[r].code # "ok"
  PROVE  KillInv(r)'
  <1>0. KillInv(r)
    BY DEF IndInv, ServiceInv
  <1>1. \A j \in JobIds : job'[j].killed # r
    BY <1>0, NamesAssumption DEF SameJobs, KillInv
  <1>2. \A j \in JobIds : r \notin asked'[j]
    BY <1>0 DEF KillInv, UntouchedKill
  <1> QED
    BY <1>1, <1>2 DEF KillInv, UntouchedKill

LEMMA OwnKillStep ==
  ASSUME IndInv, NEW r \in Requests, Handler(r) \/ Forwarder(r) \/ Peer(r)
  PROVE  KillInv(r)'
  <1>0. CallInv(r) /\ KillInv(r) /\ ReqT /\ AnswerT /\ KillT /\ JobT
    BY Types DEF IndInv, ServiceInv
  <1>s. SameJobs
    BY CallsLeaveJobs
  <1>1. ASSUME NEW j \in JobIds, SpawnChild(r, j)
        PROVE  KillInv(r)'
    <2>1. told[r] = "none" /\ UntouchedKill(r)
      BY <1>0, <1>1 DEF SpawnChild, CallInv, At, UntouchedKill, killVars
    <2>2. req'[r].pc = "registering"
      BY <1>0, <1>1 DEF SpawnChild, ReqT
    <2> QED
      BY <1>s, <2>1, <2>2, NoKillYet DEF At
  <1>2. ASSUME NEW code, code # "ok", Refuse(r, code), UNCHANGED killVars, told[r] = "none"
        PROVE  KillInv(r)'
    <2>1. req'[r].pc = "answered" /\ answer'[r].code = code
      BY <1>2, RespondCall, RespondAnswer DEF Refuse
    <2> QED
      BY <1>s, <1>2, <2>1, NoKillYet DEF At, UntouchedKill, killVars
  <1>3. ASSUME NEW pc \in PCs, pc \notin {"waiting", "answered"}, Goto(r, pc), UNCHANGED killVars,
               told[r] = "none"
        PROVE  KillInv(r)'
    <2>1. req'[r].pc = pc
      BY <1>3, GotoCall
    <2> QED
      BY <1>s, <1>3, <2>1, NoKillYet DEF At, UntouchedKill, killVars
  <1>4. ASSUME NEW snapshot, Respond(r, "ok", snapshot), UNCHANGED killVars, told[r] = "none",
               req[r].kind # "kill"
        PROVE  KillInv(r)'
    <2>1. req'[r].pc = "answered" /\ req'[r].kind = req[r].kind
      BY <1>4, RespondCall
    <2> QED
      BY <1>s, <1>4, <2>1, NoKillYet DEF At, UntouchedKill, killVars
  <1>5. CASE SpawnFails(r) \/ SubscribeFails(r)
    <2>1. told[r] = "none" /\ Refuse(r, "Internal") /\ UNCHANGED killVars
      BY <1>0, <1>5 DEF SpawnFails, SubscribeFails, CallInv, At
    <2> QED
      BY <1>2, <2>1
  <1>6. CASE Register(r)
    <2>1. /\ told[r] = "none" /\ req[r].kind # "kill" /\ UNCHANGED killVars
          /\ RespondJob(r, Started(req[r].user))
      BY <1>0, <1>6 DEF Register, CallInv, At
    <2> QED
      BY <1>3, <1>4, <2>1 DEF RespondJob, PCs
  <1>7. CASE Lookup(r)
    <2>1. told[r] = "none" /\ UNCHANGED killVars
      BY <1>0, <1>7 DEF Lookup, CallInv, At
    <2> QED
      BY <1>2, <1>3, <1>7, <2>1 DEF Lookup, PCs
  <1>8. CASE Check(r)
    <2>1. told[r] = "none" /\ UNCHANGED killVars
      BY <1>0, <1>8 DEF Check, CallInv, At
    <2> QED
      BY <1>2, <1>3, <1>4, <1>8, <2>1, CheckSteps DEF RespondJob, PCs
  <1>9. CASE Subscribe(r)
    <2>1. /\ told[r] = "none" /\ req[r].kind # "kill" /\ UNCHANGED killVars
          /\ Respond(r, "ok", Unborn)
      BY <1>0, <1>9 DEF Subscribe, CallInv, At
    <2> QED
      BY <1>4, <2>1
  <1>10. ASSUME NEW chain \in Chains, NEW kind \in Kinds, NEW id \in JobIds \union {Blank, Command},
                Call(r, chain, kind, id)
         PROVE  KillInv(r)'
    <2>1. At(r, "idle") /\ ~At(r, "answered") /\ UNCHANGED <<asked, told>>
      BY <1>10, CallSteps DEF At
    <2>2. told[r] = "none"
      BY <1>0, <2>1 DEF CallInv, At
    <2>3. req'[r].pc \in {"called", "answered"}
      BY <1>0, <1>10, CallSteps DEF CallTo, ReqT
    <2>4. req'[r].pc = "answered" => answer'[r].code # "ok"
      <3>1. ASSUME NEW u \in Users, CallTo(r, "called", u, kind, id)
            PROVE  req'[r].pc # "answered"
        BY <1>0, <3>1 DEF CallTo, ReqT
      <3>2. ASSUME NEW code, answer' = [answer EXCEPT ![r].code = code]
            PROVE  answer'[r].code = code
        BY <1>0, <3>2 DEF AnswerT
      <3> QED
        BY <1>10, <3>1, <3>2, CallSteps
    <2> QED
      BY <1>s, <2>1, <2>2, <2>3, <2>4, NoKillYet DEF At, UntouchedKill
  <1>11. CASE Forwarder(r) \/ ClientTakes(r) \/ ClientEnds(r) \/ (Disconnect(r) /\ UNCHANGED callVars)
    <2>1. UNCHANGED callVars
      BY <1>11 DEF Forwarder, ForwardFrame, ForwardEOF, ForwardError, ForwardCut, ForwardSend,
                   ForwardDropped, ClientTakes, ClientEnds
    <2>2. CASE UNCHANGED killVars
      BY <1>s, <2>1, <2>2, UntouchedKills DEF callVars, killVars, Untouched, UntouchedKill
    <2>3. CASE Goto(r, "gone") /\ req[r].pc # "gone"
      BY <2>1, <2>3, GotoCall DEF callVars, PCs
    <2> QED
      BY <1>11, <2>2, <2>3 DEF Forwarder, ForwardFrame, ForwardEOF, ForwardError, ForwardCut,
         ForwardSend, ForwardDropped, ClientTakes, ClientEnds, Disconnect
  (* The calls of kill itself.                                             *)
  <1>12. CASE AskKill(r)
    <2>1. told[r] = "none" /\ Entitled(r) /\ req[r].id \in JobIds
      BY <1>0, <1>12 DEF AskKill, CallInv, At, Entitled
    <2>2. /\ req'[r].pc = "waiting" /\ req'[r].id = req[r].id
          /\ told'[r] = "waiting" /\ r \in asked'[req[r].id]
          /\ \A j \in JobIds : j # req[r].id => asked'[j] = asked[j]
          /\ UNCHANGED <<job, tracker, log>> /\ tracker[req[r].id] = "running"
      BY <1>0, <1>12, <2>1, GotoCall DEF AskKill, KillT, jobVars, PCs
    <2>3. \A j \in JobIds : job[j].killed # r /\ r \notin asked[j]
      BY <1>0, <2>1 DEF KillInv
    <2> QED
      BY <2>1, <2>2, <2>3 DEF KillInv, Killed, At
  <1>13. CASE KillTooLate(r)
    <2>1. told[r] = "none" /\ Entitled(r) /\ req[r].id \in JobIds
      BY <1>0, <1>13 DEF KillTooLate, CallInv, At, Entitled
    <2>2. /\ req'[r].pc = "answered" /\ req'[r].id = req[r].id /\ answer'[r].code = "NotFound"
          /\ told'[r] = "notRunning"
          /\ UNCHANGED <<asked, job, tracker, log>> /\ tracker[req[r].id] = "over"
      <3>1. Respond(r, "NotFound", Unborn)
        BY <1>13 DEF KillTooLate, Refuse
      <3>2. req'[r].pc = "answered" /\ req'[r].id = req[r].id
        BY <3>1, RespondCall
      <3>3. answer'[r].code = "NotFound"
        BY <3>1, RespondAnswer
      <3> QED
        BY <1>0, <1>13, <3>2, <3>3 DEF KillTooLate, KillT, jobVars
    <2>3. \A j \in JobIds : job[j].killed # r /\ r \notin asked[j]
      BY <1>0, <2>1 DEF KillInv
    <2> QED
      BY <2>1, <2>2, <2>3 DEF KillInv, At
  <1>14. CASE KillReturns(r)
    <2>1. /\ At(r, "waiting") /\ told[r] \in {"ok", "failed", "dropped"}
          /\ UNCHANGED <<asked, told, job, tracker, log>>
      BY <1>14 DEF KillReturns, killVars, jobVars
    <2>2. /\ req'[r].id = req[r].id
          /\ \/ req'[r].pc = "panicked"
             \/ req'[r].pc = "answered" /\ answer'[r].code # "ok"
             \/ req'[r].pc = "answered" /\ told[r] = "ok" /\ answer'[r].job = job[req[r].id]
      <3>1. ASSUME NEW snapshot, Respond(r, "ok", snapshot)
            PROVE  req'[r].pc = "answered" /\ answer'[r].job = snapshot /\ req'[r].id = req[r].id
        BY <3>1, RespondCall, RespondAnswer
      <3>2. ASSUME Refuse(r, "Internal")
            PROVE  req'[r].pc = "answered" /\ answer'[r].code # "ok" /\ req'[r].id = req[r].id
        <4>1. Respond(r, "Internal", Unborn)
          BY <3>2 DEF Refuse
        <4>2. answer'[r].code = "Internal"
          BY <4>1, RespondAnswer
        <4> QED
          BY <4>1, <4>2, RespondCall
      <3>3. CASE told[r] = "ok"
        BY <1>14, <3>1, <3>3, GotoCall DEF KillReturns, RespondJob, PCs
      <3>4. CASE told[r] # "ok"
        BY <1>14, <3>2, <3>4 DEF KillReturns
      <3> QED
        BY <3>3, <3>4
    <2> QED
      BY <1>0, <2>1, <2>2 DEF KillInv, Killed, At
  <1>15. CASE KillTimesOut(r)
    <2>1. /\ told[r] = "waiting" /\ told'[r] = "gone" /\ UNCHANGED <<asked, job, tracker, log>>
      BY <1>0, <1>15, TellOne DEF KillTimesOut, jobVars
    <2>2. req'[r].pc = "answered" /\ req'[r].id = req[r].id /\ answer'[r].code # "ok"
      <3>1. Respond(r, "Internal", Unborn)
        BY <1>15 DEF KillTimesOut, Refuse
      <3>2. answer'[r].code = "Internal"
        BY <3>1, RespondAnswer
      <3> QED
        BY <3>1, <3>2, RespondCall
    <2> QED
      BY <1>0, <2>1, <2>2 DEF KillInv, At
  <1>16. CASE Goto(r, "gone") /\ Tell({r}, "gone") /\ UNCHANGED <<jobVars, asked>>
    <2>1. req'[r].pc = "gone" /\ req'[r].id = req[r].id
      BY <1>16, GotoCall DEF PCs
    <2>2. told'[r] = IF told[r] = "waiting" THEN "gone" ELSE told[r]
      BY <1>0, <1>16, TellOne
    <2>3. UNCHANGED <<asked, job, tracker, log>>
      BY <1>16 DEF jobVars
    <2> QED
      BY <1>0, <2>1, <2>2, <2>3 DEF KillInv, Killed, At
  <1>17. Disconnect(r) => KillInv(r)'
    BY <1>11, <1>16 DEF Disconnect
  <1> QED
    BY <1>1, <1>5, <1>6, <1>7, <1>8, <1>9, <1>10, <1>11, <1>12, <1>13, <1>14, <1>15, <1>17
    DEF Handler, Peer

(* What the tracker of a job does to the kill requests.                    *)
LEMMA TrackerKillStep ==
  ASSUME IndInv, NEW j \in JobIds, Track(j), NEW q \in Requests
  PROVE  KillInv(q)'
  <1>0. KillInv(q) /\ CallInv(q) /\ JobT /\ JobsT /\ LogT /\ KillT /\ JobInv(j)
    BY Types DEF IndInv, ServiceInv
  <1>q. told[q] # "none" => req[q].id \in JobIds
    BY KillerIsEntitled
  <1>1. ASSUME NEW r \in asked[j], ServeKill(j, r)
        PROVE  KillInv(q)'
    <2>1. /\ UNCHANGED <<tracker, log, req, answer>>
          /\ \A k \in JobIds : asked'[k] = IF k = j THEN asked[k] \ {r} ELSE asked[k]
      BY <1>0, <1>1 DEF ServeKill, callVars, KillT
    <2>2. r \in Requests /\ KillInv(r)
      BY <1>0 DEF KillT, IndInv, ServiceInv
    <2>3. req[r].id = j /\ told[r] \in {"waiting", "gone"} /\ job[j].killed # r
      BY <2>2 DEF KillInv
    <2>4. CASE Recordable(j) /\ job' = [job EXCEPT ![j].killed = r] /\ UNCHANGED told
      <3>1. /\ job[j].killed = NoOne /\ job[j].state = "running"
            /\ job'[j].killed = r /\ job'[j].state = "running"
            /\ \A k \in JobIds : k # j => job'[k] = job[k]
        BY <1>0, <2>4 DEF Recordable, JobT, Jobs
      <3>2. told'[q] = told[q]
        BY <2>4
      <3>3. CASE q = r
        BY <1>0, <2>1, <2>3, <3>1, <3>2, <3>3 DEF KillInv, Killed, At, Ended
      <3>4. CASE q # r
        <4>1. req[q].id = j => ~Killed(q)
          BY <3>1, NamesAssumption DEF Killed
        <4>2. req[q].id = j => told[q] # "ok"
          BY <1>0, <4>1 DEF KillInv
        <4>3. Killed(q)' <=> Killed(q)
          BY <2>1, <3>1, <3>4, NamesAssumption DEF Killed
        <4> QED
          BY <1>0, <1>q, <2>1, <3>1, <3>2, <3>4, <4>1, <4>2, <4>3, NamesAssumption DEF KillInv, At
      <3> QED
        BY <3>3, <3>4
    <2>5. CASE Tell({r}, "failed") /\ UNCHANGED job
      <3>1. told'[q] = IF q = r /\ told[q] = "waiting" THEN "failed" ELSE told[q]
        BY <1>0, <2>5, TellOne
      <3>2. ~Killed(r) /\ (Killed(q)' <=> Killed(q))
        BY <2>1, <2>3, <2>5 DEF Killed
      <3>3. CASE q = r
        BY <1>0, <2>1, <2>3, <2>5, <3>1, <3>2, <3>3 DEF KillInv, At
      <3>4. CASE q # r
        BY <1>0, <1>q, <2>1, <2>5, <3>1, <3>2, <3>4 DEF KillInv, At
      <3> QED
        BY <3>3, <3>4
    <2> QED
      BY <1>1, <2>4, <2>5 DEF ServeKill
  <1>2. ASSUME NEW how \in Ended, ChildExits(j, how)
        PROVE  KillInv(q)'
    <2>1. /\ UNCHANGED <<tracker, log, asked, req, answer>> /\ job[j].state = "running"
          /\ \A k \in JobIds : k # j => job'[k] = job[k]
          /\ job'[j].state = how /\ job'[j].killed = job[j].killed
      BY <1>0, <1>2 DEF ChildExits, callVars, JobT, Jobs
    <2>2. told'[q] = IF q = job[j].killed /\ told[q] = "waiting" THEN "ok" ELSE told[q]
      BY <1>0, <1>2, TellOne DEF ChildExits
    <2>3. Killed(q)' <=> Killed(q)
      BY <2>1 DEF Killed
    <2>4. job[j].killed = q => req[q].id = j
      BY <1>0 DEF KillInv
    <2>5. told[q] = "ok" => req[q].id # j
      BY <1>0, <2>1 DEF KillInv, Ended
    <2>6. told[q] = "waiting" => told'[q] = "waiting" \/ (told'[q] = "ok" /\ req[q].id = j /\ Killed(q))
      BY <2>2, <2>4 DEF Killed
    <2>7. told'[q] = "waiting" => ~(Killed(q) /\ req[q].id = j)
      BY <2>2 DEF Killed
    <2> QED
      BY <1>0, <1>q, <2>1, <2>2, <2>3, <2>4, <2>5, <2>6, <2>7 DEF KillInv, At
  <1>3. CASE Output(j) \/ \E end \in {"EOF", "Err"} : Seal(j, end)
    <2>1. /\ UNCHANGED <<job, tracker, asked, told, req, answer>>
          /\ \A k \in JobIds : log[k].end = "Err" => log'[k].end = "Err"
      BY <1>0, <1>3 DEF Output, Seal, Sealed, callVars, killVars, LogT
    <2> QED
      BY <1>0, <2>1 DEF KillInv, Killed, At
  <1>4. CASE TrackerReturns(j)
    <2>1. /\ UNCHANGED <<job, log, req, answer>> /\ Sealed(j)
          /\ tracker'[j] = "over" /\ asked'[j] = {}
          /\ \A k \in JobIds : k # j => tracker'[k] = tracker[k] /\ asked'[k] = asked[k]
      BY <1>0, <1>4 DEF TrackerReturns, callVars, JobsT, KillT
    <2>2. told'[q] = IF req[q].id = j /\ told[q] = "waiting" THEN "dropped" ELSE told[q]
      BY <1>0, <1>4, TellOne DEF TrackerReturns
    <2>3. log[j].end = "EOF" \/ log[j].end = "Err"
      BY <1>0, <2>1 DEF Sealed, LogT
    <2>4. told[q] = "waiting" /\ job[j].killed = q => log[j].end = "Err"
      <3>1. told[q] = "waiting" /\ job[j].killed = q => job[j].state = "running"
        BY <1>0 DEF KillInv, Killed
      <3> QED
        BY <1>0, <2>3, <3>1 DEF JobInv, Ended
    <2> QED
      BY <1>0, <1>q, <2>1, <2>2, <2>4 DEF KillInv, Killed, At
  <1> QED
    BY <1>1, <1>2, <1>3, <1>4 DEF Track

LEMMA KillStep ==
  ASSUME IndInv, [Next]_vars, NEW q \in Requests
  PROVE  KillInv(q)'
  <1>1. ASSUME NEW r \in Requests, Handler(r) \/ Forwarder(r) \/ Peer(r)
        PROVE  KillInv(q)'
    <2>1. CASE r = q
      BY <1>1, <2>1, OwnKillStep
    <2>2. CASE r # q
      BY <1>1, <2>2, UntouchedByOthers, CallsLeaveJobs, UntouchedKills
    <2> QED
      BY <2>1, <2>2
  <1>2. CASE UNCHANGED vars
    <2>1. KillInv(q)
      BY DEF IndInv, ServiceInv
    <2> QED
      BY <1>2, <2>1 DEF vars, jobVars, callVars, killVars, KillInv, Killed, At
  <1> QED
    BY <1>1, <1>2, TrackerKillStep DEF Next

-----------------------------------------------------------------------------
(* Each job keeps the promise of JobContract.tla.                          *)

(* The caller of r, as the contract of j sees it.                          *)
CallOf(j, r) == IF req[r].id = j /\ told[r] # "none" THEN told[r] ELSE "idle"

LEMMA ContractInit ==
  ASSUME Init, NEW j \in JobIds
  PROVE  Contract(j)!Init
  BY DEF Init, Unborn, Sealed, Contract!Init

(* What the contract does not see.                                         *)
LEMMA ContractStutters ==
  ASSUME NEW j \in JobIds,
         job'[j].state \in {"unborn", "running"} <=> job[j].state \in {"unborn", "running"},
         job'[j].killed = job[j].killed, log'[j].end = log[j].end,
         tracker'[j] = "over" <=> tracker[j] = "over",
         asked'[j] = asked[j],
         \A r \in Requests : CallOf(j, r)' = CallOf(j, r)
  PROVE  UNCHANGED Contract(j)!vars
  BY DEF Contract!vars, Sealed, CallOf

(* A request that no kill is about, or that stays what it is.              *)
LEMMA SameCaller ==
  ASSUME NEW j \in JobIds, NEW r \in Requests, told'[r] = told[r],
         told[r] # "none" => req'[r].id = req[r].id
  PROVE  CallOf(j, r)' = CallOf(j, r)
  BY DEF CallOf

(* Handlers, forwarding tasks and clients.                                 *)
LEMMA ContractOfCalls ==
  ASSUME IndInv, NEW r \in Requests, Handler(r) \/ Forwarder(r) \/ Peer(r), NEW j \in JobIds
  PROVE  [Contract(j)!Next]_(Contract(j)!vars)
  <1>0. /\ CallInv(r) /\ KillInv(r) /\ ReqT /\ KillT /\ JobInv(j)
        /\ log[j].end \in {"open", "EOF", "Err"}
    BY Types DEF IndInv, ServiceInv, LogT
  <1>1. /\ job'[j].state \in {"unborn", "running"} <=> job[j].state \in {"unborn", "running"}
        /\ job'[j].killed = job[j].killed /\ log'[j].end = log[j].end
        /\ tracker'[j] = "over" <=> tracker[j] = "over"
    <2>1. SameJobs
      BY CallsLeaveJobs
    <2>2. job[j] = Unborn => tracker[j] = "none" /\ job[j].killed = NoOne /\ job[j].state = "unborn"
      BY <1>0 DEF JobInv, Unborn
    <2> QED
      BY <2>1, <2>2 DEF SameJobs
  <1>2. \A q \in Requests : q # r => CallOf(j, q)' = CallOf(j, q)
    BY UntouchedByOthers, SameCaller DEF Untouched, UntouchedKill
  <1>3. ASSUME asked'[j] = asked[j], CallOf(j, r)' = CallOf(j, r)
        PROVE  UNCHANGED Contract(j)!vars
    BY <1>1, <1>2, <1>3, ContractStutters
  <1> DEFINE call == [q \in Requests |-> CallOf(j, q)]
  <1>4. ASSUME NEW outcome, CallOf(j, r)' = outcome
        PROVE  call' = [call EXCEPT ![r] = outcome]
    BY <1>2, <1>4
  <1>5. CASE AskKill(r)
    <2>1. req[r].id \in JobIds /\ told[r] = "none" /\ tracker[req[r].id] = "running"
      BY <1>0, <1>5 DEF AskKill, CallInv, At, Entitled
    <2>2. /\ told'[r] = "waiting" /\ req'[r].id = req[r].id
          /\ asked' = [asked EXCEPT ![req[r].id] = @ \union {r}]
      BY <1>0, <1>5, GotoCall DEF AskKill, KillT, PCs
    <2>3. CASE req[r].id = j
      <3>1. CallOf(j, r) = "idle" /\ CallOf(j, r)' = "waiting" /\ asked'[j] = asked[j] \union {r}
        BY <1>0, <2>1, <2>2, <2>3 DEF CallOf, KillT
      <3>2. Contract(j)!Ask(r)
        BY <1>1, <1>4, <2>1, <2>3, <3>1 DEF Contract!Ask, Sealed, CallOf
      <3> QED
        BY <3>2 DEF Contract!Next
    <2>4. CASE req[r].id # j
      BY <1>0, <1>3, <2>1, <2>2, <2>4 DEF CallOf, KillT
    <2> QED
      BY <2>3, <2>4
  <1>6. CASE KillTooLate(r)
    <2>1. req[r].id \in JobIds /\ told[r] = "none" /\ tracker[req[r].id] = "over"
      BY <1>0, <1>6 DEF KillTooLate, CallInv, At, Entitled
    <2>2. told'[r] = "notRunning" /\ UNCHANGED asked /\ req'[r].id = req[r].id
      BY <1>0, <1>6, RespondCall DEF KillTooLate, Refuse, KillT
    <2>3. CASE req[r].id = j
      <3>1. CallOf(j, r) = "idle" /\ CallOf(j, r)' = "notRunning"
        BY <2>1, <2>2, <2>3 DEF CallOf
      <3>2. Contract(j)!TooLate(r)
        BY <1>1, <1>4, <2>1, <2>2, <2>3, <3>1 DEF Contract!TooLate, Sealed, CallOf
      <3> QED
        BY <3>2 DEF Contract!Next
    <2>4. CASE req[r].id # j
      BY <1>3, <2>2, <2>4 DEF CallOf
    <2> QED
      BY <2>3, <2>4
  <1>7. CASE KillTimesOut(r) \/ (Goto(r, "gone") /\ Tell({r}, "gone") /\ UNCHANGED asked)
    <2>1. /\ told'[r] = IF told[r] = "waiting" THEN "gone" ELSE told[r]
          /\ UNCHANGED asked
      BY <1>0, <1>7, TellOne DEF KillTimesOut
    <2>2. req'[r].id = req[r].id
      BY <1>7, GotoCall, RespondCall DEF KillTimesOut, Refuse, PCs
    <2>3. CASE req[r].id = j /\ told[r] = "waiting"
      <3>1. CallOf(j, r) = "waiting" /\ CallOf(j, r)' = "gone"
        BY <2>1, <2>2, <2>3 DEF CallOf
      <3>2. Contract(j)!GiveUp(r)
        BY <1>1, <1>4, <2>1, <3>1 DEF Contract!GiveUp, Sealed, CallOf
      <3> QED
        BY <3>2 DEF Contract!Next
    <2>4. CASE req[r].id # j \/ told[r] # "waiting"
      BY <1>3, <2>1, <2>2, <2>4 DEF CallOf
    <2> QED
      BY <2>3, <2>4
  <1>8. CASE UNCHANGED killVars
    <2>1. told[r] # "none" => req'[r].id = req[r].id
      <3>1. [Next]_vars
        BY DEF Next
      <3>2. ASSUME told[r] # "none", NEW chain \in Chains, NEW kind \in Kinds,
                   NEW id \in JobIds \union {Blank, Command}, Call(r, chain, kind, id)
            PROVE  FALSE
        BY <1>0, <3>2, CallSteps DEF CallInv, At
      <3>3. ASSUME told[r] # "none", NEW k \in JobIds, SpawnChild(r, k)
            PROVE  FALSE
        BY <1>0, <3>3 DEF SpawnChild, CallInv, At
      <3> QED
        BY <3>1, <3>2, <3>3, SameCall
    <2> QED
      BY <1>3, <1>8, <2>1, SameCaller DEF killVars
  <1>9. CASE ~AskKill(r) /\ ~KillTooLate(r) /\ ~KillTimesOut(r) /\ ~Disconnect(r)
    <2>1. UNCHANGED killVars
      BY <1>9 DEF Handler, SpawnChild, SpawnFails, Register, Lookup, Check, KillReturns, Subscribe,
                  SubscribeFails, Forwarder, ForwardFrame, ForwardEOF, ForwardError, ForwardCut,
                  ForwardSend, ForwardDropped, Peer, Call, ClientTakes, ClientEnds
    <2> QED
      BY <1>8, <2>1
  <1>10. Disconnect(r) => [Contract(j)!Next]_(Contract(j)!vars)
    BY <1>7, <1>8 DEF Disconnect
  <1> QED
    BY <1>5, <1>6, <1>7, <1>9, <1>10

(* The tracker of a job.                                                   *)
LEMMA ContractOfTracker ==
  ASSUME IndInv, NEW k \in JobIds, Track(k), NEW j \in JobIds
  PROVE  [Contract(j)!Next]_(Contract(j)!vars)
  <1>0. /\ JobT /\ JobsT /\ LogT /\ KillT /\ JobInv(j) /\ UNCHANGED req
        /\ \A r \in Requests : KillInv(r)
    BY Types DEF IndInv, ServiceInv, Track, ServeKill, ChildExits, Output, Seal, TrackerReturns,
                 callVars
  <1>1. ASSUME NEW r \in asked[k], ServeKill(k, r)
        PROVE  [Contract(j)!Next]_(Contract(j)!vars)
    <2>1. /\ r \in Requests /\ req[r].id = k /\ ~Sealed(k) /\ UNCHANGED <<log, tracker>>
          /\ asked' = [asked EXCEPT ![k] = @ \ {r}]
      BY <1>0, <1>1 DEF ServeKill, KillT, KillInv
    <2>2. CASE Recordable(k) /\ job' = [job EXCEPT ![k].killed = r] /\ UNCHANGED told
      <3>1. \A q \in Requests : CallOf(j, q)' = CallOf(j, q)
        BY <1>0, <2>2 DEF CallOf
      <3>2. CASE j = k
        <4>1. /\ job[j].state = "running" /\ job[j].killed = NoOne
              /\ job'[j].killed = r /\ job'[j].state = job[j].state
              /\ asked'[j] = asked[j] \ {r}
          BY <1>0, <2>1, <2>2, <3>2 DEF Recordable, JobT, Jobs, KillT
        <4>2. Contract(j)!Record(r)
          BY <1>1, <2>1, <3>1, <3>2, <4>1 DEF Contract!Record, Sealed, CallOf
        <4> QED
          BY <2>1, <4>2 DEF Contract!Next
      <3>3. CASE j # k
        <4>1. job'[j] = job[j] /\ asked'[j] = asked[j]
          BY <1>0, <2>1, <2>2, <3>3 DEF JobT, KillT
        <4> QED
          BY <2>1, <3>1, <4>1, ContractStutters
      <3> QED
        BY <3>2, <3>3
    <2>3. CASE Tell({r}, "failed") /\ UNCHANGED job
      <3>1. \A q \in Requests : told'[q] = IF q = r /\ told[q] = "waiting"
                                           THEN "failed" ELSE told[q]
        BY <1>0, <2>3, TellOne
      <3>2. CASE j = k
        <4>1. asked'[j] = asked[j] \ {r}
          BY <1>0, <2>1, <3>2 DEF KillT
        <4>2. \A q \in Requests : CallOf(j, q)' = IF q \in {r} /\ CallOf(j, q) = "waiting"
                                                  THEN "failed" ELSE CallOf(j, q)
          BY <1>0, <2>1, <3>1, <3>2 DEF CallOf
        <4>3. Contract(j)!Refuse(r)
          BY <1>1, <2>1, <2>3, <3>2, <4>1, <4>2 DEF Contract!Refuse, Contract!Tell, Sealed, CallOf
        <4> QED
          BY <2>1, <4>3 DEF Contract!Next
      <3>3. CASE j # k
        <4>1. asked'[j] = asked[j] /\ \A q \in Requests : CallOf(j, q)' = CallOf(j, q)
          BY <1>0, <2>1, <3>1, <3>3 DEF KillT, CallOf
        <4> QED
          BY <2>1, <2>3, <4>1, ContractStutters
      <3> QED
        BY <3>2, <3>3
    <2> QED
      BY <1>1, <2>2, <2>3 DEF ServeKill
  <1>2. ASSUME NEW how \in Ended, ChildExits(k, how)
        PROVE  [Contract(j)!Next]_(Contract(j)!vars)
    <2>1. /\ job[k].state = "running" /\ ~Sealed(k) /\ UNCHANGED <<log, tracker, asked>>
          /\ job' = [job EXCEPT ![k].state = how] /\ Tell({job[k].killed}, "ok")
      BY <1>2 DEF ChildExits
    <2>2. \A q \in Requests : told'[q] = IF q = job[k].killed /\ told[q] = "waiting"
                                         THEN "ok" ELSE told[q]
      BY <1>0, <2>1, TellOne
    <2>3. \A q \in Requests : q = job[k].killed => req[q].id = k
      BY <1>0 DEF KillInv
    <2>4. CASE j = k
      <3>1. job'[j].killed = job[j].killed /\ job'[j].state \in Ended
        BY <1>0, <2>1, <2>4 DEF JobT, Jobs
      <3>2. \A q \in Requests : CallOf(j, q)' = IF q \in {job[j].killed} /\ CallOf(j, q) = "waiting"
                                                THEN "ok" ELSE CallOf(j, q)
        BY <1>0, <2>2, <2>3, <2>4 DEF CallOf
      <3>3. Contract(j)!Settle
        BY <2>1, <2>4, <3>1, <3>2 DEF Contract!Settle, Contract!Tell, Sealed, CallOf, Ended
      <3> QED
        BY <3>3 DEF Contract!Next
    <2>5. CASE j # k
      <3>1. job'[j] = job[j] /\ \A q \in Requests : CallOf(j, q)' = CallOf(j, q)
        BY <1>0, <2>1, <2>2, <2>3, <2>5 DEF JobT, CallOf
      <3> QED
        BY <2>1, <3>1, ContractStutters
    <2> QED
      BY <2>4, <2>5
  <1>3. CASE Output(k)
    <2>1. UNCHANGED <<job, tracker, asked, told>> /\ log'[j].end = log[j].end
      BY <1>0, <1>3 DEF Output, killVars, LogT
    <2>2. \A q \in Requests : CallOf(j, q)' = CallOf(j, q)
      BY <1>0, <2>1 DEF CallOf
    <2> QED
      BY <2>1, <2>2, ContractStutters
  <1>4. ASSUME NEW end \in {"EOF", "Err"}, Seal(k, end)
        PROVE  [Contract(j)!Next]_(Contract(j)!vars)
    <2>1. /\ UNCHANGED <<job, tracker, asked, told>> /\ ~Sealed(k)
          /\ log' = [log EXCEPT ![k].end = end]
      BY <1>4 DEF Seal, killVars
    <2>2. \A q \in Requests : CallOf(j, q)' = CallOf(j, q)
      BY <1>0, <2>1 DEF CallOf
    <2>3. CASE j = k
      <3>1. log'[j].end = end /\ (end = "EOF" => job[j].state \in Ended)
        BY <1>0, <1>4, <2>3 DEF Seal, LogT
      <3>2. Contract(j)!Seal(end)
        BY <2>1, <2>2, <2>3, <3>1 DEF Contract!Seal, Sealed, CallOf, Ended
      <3> QED
        BY <3>2 DEF Contract!Next
    <2>4. CASE j # k
      <3>1. log'[j].end = log[j].end
        BY <1>0, <2>1, <2>4 DEF LogT
      <3> QED
        BY <2>1, <2>2, <3>1, ContractStutters
    <2> QED
      BY <2>3, <2>4
  <1>5. CASE TrackerReturns(k)
    <2>1. /\ UNCHANGED <<job, log>> /\ tracker[k] = "running" /\ Sealed(k)
          /\ tracker' = [tracker EXCEPT ![k] = "over"]
          /\ asked' = [asked EXCEPT ![k] = {}]
      BY <1>5 DEF TrackerReturns
    <2>2. \A q \in Requests : told'[q] = IF req[q].id = k /\ told[q] = "waiting"
                                         THEN "dropped" ELSE told[q]
      BY <1>0, <1>5, TellOne DEF TrackerReturns
    <2>3. CASE j = k
      <3>1. tracker'[j] = "over" /\ asked'[j] = {}
        BY <1>0, <2>1, <2>3 DEF JobsT, KillT
      <3>2. \A q \in Requests : CallOf(j, q)' = IF q \in Requests /\ CallOf(j, q) = "waiting"
                                                THEN "dropped" ELSE CallOf(j, q)
        BY <1>0, <2>2, <2>3 DEF CallOf
      <3>3. log[j].end # NoOne
        BY <1>0, <2>1, <2>3, NamesAssumption DEF Sealed, LogT
      <3>4. Contract(j)!End
        BY <2>1, <2>3, <3>1, <3>2, <3>3 DEF Contract!End, Contract!Tell, Sealed, CallOf
      <3> QED
        BY <3>4 DEF Contract!Next
    <2>4. CASE j # k
      <3>1. /\ tracker'[j] = tracker[j] /\ asked'[j] = asked[j]
            /\ \A q \in Requests : CallOf(j, q)' = CallOf(j, q)
        BY <1>0, <2>1, <2>2, <2>4 DEF JobsT, KillT, CallOf
      <3> QED
        BY <2>1, <3>1, ContractStutters
    <2> QED
      BY <2>3, <2>4
  <1> QED
    BY <1>1, <1>2, <1>3, <1>4, <1>5 DEF Track

LEMMA ContractStep ==
  ASSUME IndInv, [Next]_vars, NEW j \in JobIds
  PROVE  [Contract(j)!Next]_(Contract(j)!vars)
  <1>1. CASE UNCHANGED vars
    <2>1. UNCHANGED <<job, tracker, log, req, asked, told>>
      BY <1>1 DEF vars, jobVars, callVars, killVars
    <2> QED
      BY <2>1, ContractStutters DEF CallOf
  <1> QED
    BY <1>1, ContractOfCalls, ContractOfTracker DEF Next

-----------------------------------------------------------------------------
(* The theorems.                                                           *)

LEMMA InitInv == Init => IndInv
  <1> SUFFICES ASSUME Init PROVE IndInv
    OBVIOUS
  <1>1. TypeOK
    BY BoundsAssumption, NamesAssumption DEF Init, TypeOK, Jobs, Unborn, States, Kinds, Codes
  <1>2. ASSUME NEW j \in JobIds PROVE JobInv(j)
    BY DEF Init, JobInv, Unborn, Sealed
  <1>3. ASSUME NEW r \in Requests PROVE CallInv(r) /\ AnswerInv(r) /\ BeforeInv(r) /\ ForwardInv(r)
    BY NamesAssumption DEF Init, CallInv, AnswerInv, BeforeInv, ForwardInv, At
  <1>4. AnswersMoveForward /\ SpawnedJobIsFound
    BY DEF Init, AnswersMoveForward, SpawnedJobIsFound
  <1>5. ASSUME NEW r \in Requests PROVE KillInv(r)
    BY NamesAssumption DEF Init, KillInv, At, Unborn
  <1> QED
    BY <1>1, <1>2, <1>3, <1>4, <1>5 DEF IndInv, ServiceInv

LEMMA NextInv == IndInv /\ [Next]_vars => IndInv'
  <1> SUFFICES ASSUME IndInv, [Next]_vars PROVE IndInv'
    OBVIOUS
  <1>1. TypeOK' /\ JobsMove
    BY TypeStep, JobsDoMove
  <1>2. ASSUME NEW r \in Requests
        PROVE  CallInv(r)' /\ AnswerInv(r)' /\ BeforeInv(r)' /\ ForwardInv(r)'
    BY <1>1, CallsStep, BeforeStep, StreamStep
  <1>k. ASSUME NEW r \in Requests PROVE KillInv(r)'
    BY KillStep
  <1>3. SpawnedJobIsFound' /\ AnswersMoveForward'
    BY <1>1, FoundStep, ForwardStep
  <1> QED
    BY <1>1, <1>2, <1>3, <1>k, JobsStep DEF IndInv, ServiceInv

(* The state of jobs, calls, kill requests and streams stays consistent,   *)
(* whatever the handlers of grpc.rs and the trackers do, in any order.     *)
THEOREM ServiceInvariant == Spec => []IndInv
  <1>1. Init => IndInv
    BY InitInv
  <1>2. IndInv /\ [Next]_vars => IndInv'
    BY NextInv
  <1> QED
    BY <1>1, <1>2, PTL DEF Spec

(* A caller that does not own a job learns and changes nothing about it    *)
(* through get_tracker and the three calls that start with it.             *)
THEOREM OnlyOwnersAct == Spec => []OnlyTheOwnerActs
  <1>1. IndInv => OnlyTheOwnerActs
    <2> SUFFICES ASSUME IndInv PROVE OnlyTheOwnerActs
      OBVIOUS
    <2>1. ASSUME NEW j \in JobIds, job[j].killed # NoOne
          PROVE  req[job[j].killed].user = job[j].user
      <3>1. job[j].killed \in Requests
        BY <2>1, Types DEF IndInv, JobT, Jobs
      <3>2. req[job[j].killed].id = j /\ told[job[j].killed] # "none"
        BY <3>1 DEF IndInv, ServiceInv, KillInv
      <3> QED
        BY <3>1, <3>2, KillerIsEntitled DEF Entitled
    <2>2. ASSUME NEW r \in Requests, IsStranger(r)
          PROVE  /\ req[r].pc \in {"called", "found", "answered", "gone"}
                 /\ At(r, "answered") => answer[r].code \in {"NotFound", "Unauthenticated"}
                 /\ told[r] = "none" /\ stream[r] = "none"
      <3>1. CallInv(r) /\ AnswerInv(r) /\ ForwardInv(r) /\ ReqT /\ AnswerT /\ ~Entitled(r)
        BY <2>2, Types DEF IndInv, ServiceInv, IsStranger, Entitled
      <3>2. req[r].id \in JobIds
        BY <2>2 DEF IsStranger
      <3>3. req[r].pc \in {"called", "found", "answered", "gone"} /\ told[r] = "none"
        <4>1. req[r].pc \in PCs
          BY <3>1 DEF ReqT
        <4>2. req[r].pc # "idle"
          BY <3>1, <3>2, NamesAssumption DEF CallInv, At
        <4> QED
          BY <3>1, <4>1, <4>2 DEF CallInv, PCs
      <3>4. stream[r] = "none"
        BY <3>1 DEF ForwardInv
      <3>5. At(r, "answered") => answer[r].code \in {"NotFound", "Unauthenticated"}
        <4>1. answer[r].code \in Codes
          BY <3>1 DEF AnswerT
        <4> QED
          BY <3>1, <3>2, <4>1, NamesAssumption DEF AnswerInv, Codes
      <3> QED
        BY <3>3, <3>4, <3>5
    <2> QED
      BY <2>1, <2>2 DEF OnlyTheOwnerActs
  <1> QED
    BY <1>1, ServiceInvariant, PTL

(* What spawn, ps and kill answer about a job never goes back, whichever   *)
(* of the three asks next.                                                 *)
THEOREM AnswersOnlyMoveForward == Spec => []AnswersMoveForward
  <1>1. IndInv => AnswersMoveForward
    BY DEF IndInv, ServiceInv
  <1> QED
    BY <1>1, ServiceInvariant, PTL

(* A job whose spawn call has been answered is found by its owner for      *)
(* good, and a job that is out of reach was started by a spawn call that   *)
(* waits to store it or was dropped before it could.                       *)
THEOREM SpawnedIsFound == Spec => []SpawnedJobIsFound
  <1>1. IndInv => SpawnedJobIsFound
    BY DEF IndInv, ServiceInv
  <1> QED
    BY <1>1, ServiceInvariant, PTL

(* A client program that ends well after logs has the whole log: neither   *)
(* the forwarding task of grpc.rs nor must_ok turns a cut into an end.     *)
THEOREM CleanEndIsComplete == Spec => []CleanEndMeansComplete
  <1>1. IndInv => CleanEndMeansComplete
    BY DEF IndInv, ServiceInv, ForwardInv, CleanEndMeansComplete, Succeeds
  <1> QED
    BY <1>1, ServiceInvariant, PTL
(* What a caller is told about a kill, and what the tracker of the job has *)
(* done for it, agree for every job at any time: the promise of            *)
(* JobContract.tla reaches through kill() and the handler of the RPC.      *)
THEOREM ServiceKeepsContract == Spec => ImplementsJobContract
  <1>1. Init => \A j \in JobIds : Contract(j)!Init
    BY ContractInit
  <1>2. IndInv /\ [Next]_vars => [\A j \in JobIds : [Contract(j)!Next]_(Contract(j)!vars)]_vars
    BY ContractStep
  <1> QED
    BY <1>1, <1>2, ServiceInvariant, PTL DEF Spec, ImplementsJobContract
(* A kill call that is answered ok is the one on record for its job, which *)
(* has ended, and the answer is the job as it stays; so of all kill calls  *)
(* for a job at most one is answered ok.                                   *)
KillAnswersAreTrue ==
  \A q, r \in Requests :
    (/\ Answered(q, "ok") /\ req[q].kind = "kill"
     /\ Answered(r, "ok") /\ req[r].kind = "kill")
      => /\ answer[r].job = job[req[r].id]
         /\ answer[r].job.killed = r /\ answer[r].job.state \in Ended
         /\ req[q].id = req[r].id => q = r

THEOREM KillAnswersHold == Spec => []KillAnswersAreTrue
  <1>1. IndInv => KillAnswersAreTrue
    <2> SUFFICES ASSUME IndInv, NEW q \in Requests, NEW r \in Requests,
                        Answered(q, "ok"), req[q].kind = "kill",
                        Answered(r, "ok"), req[r].kind = "kill"
                 PROVE  /\ answer[r].job = job[req[r].id]
                        /\ answer[r].job.killed = r /\ answer[r].job.state \in Ended
                        /\ req[q].id = req[r].id => q = r
      BY DEF KillAnswersAreTrue
    <2>1. KillInv(q) /\ KillInv(r)
      BY DEF IndInv, ServiceInv
    <2> QED
      BY <2>1 DEF KillInv, Killed, Answered
  <1> QED
    BY <1>1, ServiceInvariant, PTL
==============================================================================
