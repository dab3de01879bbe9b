------------------------- MODULE JobContractProofs -------------------------
(***************************************************************************)
(* What follows from JobContract.tla for the callers of kill() and ps, and *)
(* so for everything that implements it: Tracker.tla (TrackerProofs.tla),  *)
(* the composed JobPipeline.tla and every job of Service.tla.              *)
(***************************************************************************)
EXTENDS JobContract, TLAPS

(* Nobody, a caller and the end of a log are different things.             *)
Distinct == NoOne \notin Killers \union {EOF, Err}

(* A caller that still waits can still be answered.                        *)
WaitersAreHeld ==
  \A k \in Killers : call[k] = "waiting" =>
    /\ ~over
    /\ k \in asked \/ (killed = k /\ running)

(* A request is in one place, and on record for a call that asked.         *)
RequestsAreCalls ==
  /\ killed = NoOne \/ killed \in Killers \ asked
  /\ \A k \in Killers :
       /\ k \in asked => call[k] \in {"waiting", "gone"}
       /\ killed = k => call[k] \in {"waiting", "ok", "gone", "dropped"}

(* The answers of kill() are true, and stay true.                          *)
AnswersAreTrue ==
  \A k \in Killers :
    /\ call[k] = "ok" => ~running /\ killed = k
    /\ call[k] = "notRunning" => over
    /\ call[k] = "dropped" => over /\ (killed = k => sealed # EOF)

(* The log ends before the job is over, with EOF only after the child.     *)
EndsInOrder ==
  /\ over => sealed # NoOne /\ asked = {}
  /\ sealed = EOF => ~running

Held == WaitersAreHeld /\ RequestsAreCalls /\ AnswersAreTrue /\ EndsInOrder
CallType == call \in [Killers -> {"idle", "waiting", "ok", "failed", "dropped", "gone", "notRunning"}]
Inv == CallType /\ asked \in SUBSET Killers /\ Held

(* What Tell does to one caller.                                           *)
LEMMA TellOne ==
  ASSUME NEW K, NEW outcome, Tell(K, outcome), NEW k \in Killers
  PROVE  call'[k] = IF k \in K /\ call[k] = "waiting" THEN outcome ELSE call[k]
  BY DEF Tell

LEMMA ContractInit ==
  ASSUME Distinct, Init
  PROVE  Inv
  BY DEF Distinct, Init, Inv, CallType, Held, WaitersAreHeld, RequestsAreCalls,
         AnswersAreTrue, EndsInOrder

(* What becomes of the calls in a step of one of them.                     *)
LEMMA CallerStep ==
  ASSUME Distinct, Inv, NEW k \in Killers, Ask(k) \/ TooLate(k) \/ GiveUp(k)
  PROVE  Inv'
  <1> USE DEF Inv, CallType
  <1>1. /\ UNCHANGED <<running, killed, sealed, over>>
        /\ asked' = asked \/ (asked' = asked \union {k} /\ call'[k] = "waiting" /\ ~over)
        /\ \A q \in Killers : q # k => call'[q] = call[q]
        /\ call[k] \in {"idle", "waiting"}
        /\ call[k] = "waiting" => call'[k] = "gone"
        /\ call'[k] = "waiting" => k \in asked' /\ ~over
        /\ call'[k] = "notRunning" => over
        /\ call'[k] \in {"waiting", "gone", "notRunning"}
    BY DEF Ask, TooLate, GiveUp
  <1>2. CallType' /\ asked' \in SUBSET Killers
    BY DEF Ask, TooLate, GiveUp
  <1>3. call[k] = "idle" => k \notin asked /\ killed # k
    BY DEF Held, RequestsAreCalls
  <1>4. WaitersAreHeld'
    BY <1>1 DEF Held, WaitersAreHeld
  <1>5. RequestsAreCalls'
    <2>1. k \in asked' => call'[k] \in {"waiting", "gone"}
      BY <1>1, <1>3
    <2>2. killed = NoOne \/ killed \in Killers \ asked'
      BY <1>1, <1>3 DEF Held, RequestsAreCalls, Ask, TooLate, GiveUp
    <2> QED
      BY <1>1, <1>3, <2>1, <2>2 DEF Held, RequestsAreCalls
  <1>6. AnswersAreTrue' /\ EndsInOrder'
    BY <1>1 DEF Held, AnswersAreTrue, EndsInOrder
  <1> QED
    BY <1>2, <1>4, <1>5, <1>6 DEF Held

LEMMA JobStep ==
  ASSUME Distinct, Inv, [Next]_vars,
         ~\E k \in Killers : Ask(k) \/ TooLate(k) \/ GiveUp(k)
  PROVE  Inv'
  <1> USE DEF Inv, CallType, Held, WaitersAreHeld, RequestsAreCalls, AnswersAreTrue, EndsInOrder
  <1>1. ASSUME NEW k \in Killers, Record(k) PROVE Inv'
    BY <1>1 DEF Distinct, Record
  <1>2. ASSUME NEW k \in Killers, Refuse(k) PROVE Inv'
    <2>1. \A q \in Killers : call'[q] = IF q = k /\ call[q] = "waiting" THEN "failed" ELSE call[q]
      BY <1>2, TellOne DEF Refuse
    <2>2. CallType'
      BY <1>2 DEF Refuse, Tell
    <2> QED
      BY <1>2, <2>1, <2>2 DEF Distinct, Refuse
  <1>3. CASE Settle
    <2>1. \A q \in Killers : call'[q] = IF q = killed /\ call[q] = "waiting" THEN "ok" ELSE call[q]
      BY <1>3, TellOne DEF Settle
    <2>2. CallType'
      BY <1>3 DEF Settle, Tell
    <2> QED
      BY <1>3, <2>1, <2>2 DEF Distinct, Settle
  <1>4. ASSUME NEW end \in {EOF, Err}, Seal(end) PROVE Inv'
    BY <1>4 DEF Distinct, Seal
  <1>5. CASE End
    <2>1. \A q \in Killers : call'[q] = IF call[q] = "waiting" THEN "dropped" ELSE call[q]
      BY <1>5, TellOne DEF End
    <2>2. CallType'
      BY <1>5 DEF End, Tell
    <2> QED
      BY <1>5, <2>1, <2>2 DEF Distinct, End
  <1>6. CASE UNCHANGED vars
    BY <1>6 DEF vars
  <1> QED
    BY <1>1, <1>2, <1>3, <1>4, <1>5, <1>6 DEF Next

(* Who is told ok has killed the job, which has ended; nobody waits for a  *)
(* job that is over, and whoever waits can still be answered; EOF follows  *)
(* the end of the child.                                                   *)
THEOREM ContractInvariant ==
  ASSUME Distinct
  PROVE  Spec => []Inv
  <1>1. Init => Inv
    BY ContractInit
  <1>2. Inv /\ [Next]_vars => Inv'
    BY CallerStep, JobStep
  <1> QED
    BY <1>1, <1>2, PTL DEF Spec

(* At most one caller of kill() is told that it has killed the job.        *)
OneKiller == \A k, q \in Killers : call[k] = "ok" /\ call[q] = "ok" => k = q

THEOREM OneCallerKills ==
  ASSUME Distinct
  PROVE  Spec => []OneKiller
  <1>1. Inv => OneKiller
    BY DEF Inv, Held, AnswersAreTrue, OneKiller
  <1> QED
    BY <1>1, ContractInvariant, PTL

(* A job that is shown as ended does not run again, a killer on record is  *)
(* not replaced, and the end of a log and of a job are final.              *)
EndsAreFinal ==
  [][/\ ~running => ~running' /\ killed' = killed
     /\ killed # NoOne => killed' = killed
     /\ sealed # NoOne => sealed' = sealed
     /\ over => over']_vars

THEOREM JobOnlyEnds ==
  ASSUME Distinct
  PROVE  Spec => EndsAreFinal
  <1> DEFINE Final == /\ ~running => ~running' /\ killed' = killed
                      /\ killed # NoOne => killed' = killed
                      /\ sealed # NoOne => sealed' = sealed
                      /\ over => over'
  <1>1. Next => Final
    <2>1. ASSUME NEW k \in Killers, Ask(k) \/ TooLate(k) \/ GiveUp(k) \/ Record(k) \/ Refuse(k)
          PROVE  Final
      BY <2>1 DEF Ask, TooLate, GiveUp, Record, Refuse
    <2>2. ASSUME NEW end \in {EOF, Err}, Seal(end) PROVE Final
      BY <2>2 DEF Seal
    <2>3. CASE Settle \/ End
      BY <2>3 DEF Settle, End
    <2> QED
      BY <2>1, <2>2, <2>3 DEF Next
  <1> QED
    BY <1>1, PTL DEF Spec, EndsAreFinal
==============================================================================
