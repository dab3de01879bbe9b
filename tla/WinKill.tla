------------------------------- MODULE WinKill -------------------------------
(***************************************************************************)
(* KillChild and WaitChild of src/proc/spawn/win.rs as JobTracker::wait    *)
(* awaits them: the kill future, the thread that terminates the process    *)
(* and reports through a channel without a buffer, the threads that wait   *)
(* for the process, and everything that wakes the one task they share.     *)
(***************************************************************************)
EXTENDS Naturals

CONSTANTS
  Streams,    \* stdout and stderr
  MaxWaits    \* bound: polls of the wait branch, each of which starts a thread

VARIABLES
  proc,        \* the child process
  at,          \* the task: in its select, awaiting kill(), or done
  awake,       \* the task is scheduled to poll
  requested,   \* a kill request has arrived
  killer,      \* the thread of KillChild
  waits,       \* threads of WaitChild that wait with the task's waker
  armed,       \* the streams whose channel holds the task's waker
  job          \* the state of the job snapshot

vars == <<proc, at, awake, requested, killer, waits, armed, job>>

TypeOK == /\ proc \in {"running", "dead"}
          /\ at \in {"select", "killing", "done"}
          /\ awake \in BOOLEAN /\ requested \in BOOLEAN
          /\ killer \in {"none", "terminating", "sending", "waking", "done"}
          /\ waits \in 0..MaxWaits
          /\ armed \in SUBSET Streams
          /\ job \in {"running", "exited"}

Init == /\ proc = "running" /\ at = "select" /\ awake = TRUE /\ requested = FALSE
        /\ killer = "none" /\ waits = 0 /\ armed = {} /\ job = "running"

(* The child ends by itself.                                               *)
Exit == /\ proc = "running"
        /\ proc' = "dead"
        /\ UNCHANGED <<at, awake, requested, killer, waits, armed, job>>

(* A kill request wakes the task, whose waker its channel holds.           *)
Request == /\ ~requested
           /\ requested' = TRUE
           /\ awake' = TRUE
           /\ UNCHANGED <<proc, at, killer, waits, armed, job>>

-----------------------------------------------------------------------------
(* The task.                                                               *)

(* The branches of select! are polled in random order.  A round that finds *)
(* nothing leaves a waker in every channel, and starts a thread that waits *)
(* for the process.                                                        *)
PollNothing ==
  /\ at = "select" /\ awake
  /\ proc = "running" /\ ~requested
  /\ waits < MaxWaits
  /\ waits' = waits + 1
  /\ armed' = Streams
  /\ awake' = FALSE
  /\ UNCHANGED <<proc, at, requested, killer, job>>

(* The kill request is served.  The branches polled before it have left    *)
(* their wakers; the first poll of KillChild starts its thread.            *)
StartKill ==
  /\ at = "select" /\ awake
  /\ requested /\ killer = "none"
  /\ \E polled \in SUBSET Streams, waiting \in {0, 1} :
       /\ waiting = 1 => proc = "running" /\ waits < MaxWaits
       /\ armed' = armed \union polled
       /\ waits' = waits + waiting
  /\ at' = "killing"
  /\ killer' = "terminating"
  /\ awake' = FALSE
  /\ UNCHANGED <<proc, requested, job>>

(* A later poll of KillChild: try_recv succeeds only while the thread is   *)
(* blocked in its send.                                                    *)
PollKill ==
  /\ at = "killing" /\ awake
  /\ IF killer = "sending"
     THEN at' = "select" /\ killer' = "waking" /\ UNCHANGED awake
     ELSE awake' = FALSE /\ UNCHANGED <<at, killer>>
  /\ UNCHANGED <<proc, requested, waits, armed, job>>

(* WaitChild is ready: the bookkeeping of an exited child.                 *)
PollWait ==
  /\ at = "select" /\ awake
  /\ proc = "dead"
  /\ at' = "done"
  /\ job' = "exited"
  /\ UNCHANGED <<proc, awake, requested, killer, waits, armed>>

-----------------------------------------------------------------------------
(* The threads, and the other wakers of the task.                          *)

Terminate == /\ killer = "terminating"
             /\ proc' = "dead"
             /\ killer' = "sending"
             /\ UNCHANGED <<at, awake, requested, waits, armed, job>>

(* send() has returned: the thread wakes the task, and ends.               *)
KillerWakes == /\ killer = "waking"
               /\ awake' = TRUE
               /\ killer' = "done"
               /\ UNCHANGED <<proc, at, requested, waits, armed, job>>

WaiterWakes == /\ waits > 0
               /\ proc = "dead"
               /\ waits' = waits - 1
               /\ awake' = TRUE
               /\ UNCHANGED <<proc, at, requested, killer, armed, job>>

(* Output, or its end: a channel uses the waker it holds once.             *)
StreamWakes(s) == /\ s \in armed
                  /\ armed' = armed \ {s}
                  /\ awake' = TRUE
                  /\ UNCHANGED <<proc, at, requested, killer, waits, job>>

Next == \/ Exit \/ Request
        \/ PollNothing \/ StartKill \/ PollKill \/ PollWait
        \/ Terminate \/ KillerWakes \/ WaiterWakes
        \/ \E s \in Streams : StreamWakes(s)

(* Threads run, and so does the task when it is awake; the streams of a    *)
(* dead process end.                                                       *)
Spec == /\ Init /\ [][Next]_vars
        /\ WF_vars(PollKill) /\ WF_vars(PollWait) /\ WF_vars(PollNothing)
        /\ WF_vars(Terminate) /\ WF_vars(KillerWakes) /\ WF_vars(WaiterWakes)
        /\ \A s \in Streams : WF_vars(proc = "dead" /\ StreamWakes(s))

(* src/proc/coord.rs:245 "when the child process exits, the appropriate    *)
(* bookkeeping will be done".                                              *)
BookkeepingIsDone == proc = "dead" ~> job = "exited"
==============================================================================
