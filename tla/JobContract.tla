------------------------------ MODULE JobContract ------------------------------
(***************************************************************************)
(* What a job promises to those who look at it from outside, with no       *)
(* select loop, no channels and no child process in sight: ps shows a      *)
(* snapshot, kill() asks for the death of the child and is answered, and   *)
(* the log is sealed at some time.                                         *)
(*                                                                         *)
(* Tracker.tla is the code that is meant to keep this promise.             *)
(***************************************************************************)
CONSTANTS
  Killers,    \* calls of kill()
  NoOne,      \* nobody has killed the job
  EOF, Err    \* the ends a log can have

VARIABLES
  running,    \* JobState::Running in the snapshot
  killed,     \* the call recorded in the snapshot as the killer
  sealed,     \* the end of the log, or NoOne before it is written
  over,       \* no more kill requests are taken
  asked,      \* requests taken and neither recorded nor refused
  call        \* call[k]: what the caller knows

vars == <<running, killed, sealed, over, asked, call>>

Init ==
  /\ running = TRUE /\ killed = NoOne
  /\ sealed = NoOne /\ over = FALSE
  /\ asked = {}
  /\ call = [k \in Killers |-> "idle"]

(* Everybody in K who still waits gets this answer.                        *)
Tell(K, outcome) == call' = [k \in Killers |-> IF k \in K /\ call[k] = "waiting"
                                               THEN outcome ELSE call[k]]

Ask(k) ==
  /\ call[k] = "idle" /\ ~over
  /\ call' = [call EXCEPT ![k] = "waiting"]
  /\ asked' = asked \union {k}
  /\ UNCHANGED <<running, killed, sealed, over>>

TooLate(k) ==
  /\ call[k] = "idle" /\ over
  /\ call' = [call EXCEPT ![k] = "notRunning"]
  /\ UNCHANGED <<running, killed, sealed, over, asked>>

(* Whoever gives up takes nothing back.                                    *)
GiveUp(k) ==
  /\ call[k] \in {"idle", "waiting"}
  /\ call' = [call EXCEPT ![k] = "gone"]
  /\ UNCHANGED <<running, killed, sealed, over, asked>>

(* A request has its effect once, on a job shown as running, and on no     *)
(* second request's account.                                               *)
Record(k) ==
  /\ k \in asked /\ running /\ killed = NoOne /\ sealed = NoOne
  /\ killed' = k
  /\ asked' = asked \ {k}
  /\ UNCHANGED <<running, sealed, over, call>>

Refuse(k) ==
  /\ k \in asked /\ sealed = NoOne
  /\ asked' = asked \ {k}
  /\ Tell({k}, "failed")
  /\ UNCHANGED <<running, killed, sealed, over>>

(* The end of the child shows, and with it the killer gets its answer.     *)
Settle ==
  /\ running /\ sealed = NoOne
  /\ running' = FALSE
  /\ Tell({killed}, "ok")
  /\ UNCHANGED <<killed, sealed, over, asked>>

(* EOF only after the end of the child.                                    *)
Seal(end) ==
  /\ sealed = NoOne
  /\ end = EOF => ~running
  /\ sealed' = end
  /\ UNCHANGED <<running, killed, over, asked, call>>

(* Nobody is left waiting.                                                 *)
End ==
  /\ sealed # NoOne /\ ~over
  /\ over' = TRUE
  /\ asked' = {}
  /\ Tell(Killers, "dropped")
  /\ UNCHANGED <<running, killed, sealed>>

Next == \/ \E k \in Killers : Ask(k) \/ TooLate(k) \/ GiveUp(k) \/ Record(k) \/ Refuse(k)
        \/ Settle \/ End
        \/ \E end \in {EOF, Err} : Seal(end)

Spec == Init /\ [][Next]_vars
==============================================================================
