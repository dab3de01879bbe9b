------------------------------ MODULE LogStream ------------------------------
(***************************************************************************)
(* What the log API of the job runner promises, with no tasks and no       *)
(* channels in sight: the output of a job is one append-only log that is   *)
(* sealed by a terminal event, and every caller of logs() is given one     *)
(* reader of it, while it still waits for one, and observes the log from   *)
(* its beginning, one event at a time, in order.                           *)
(*                                                                         *)
(* Broadcaster.tla is the code that is meant to keep this promise.         *)
(***************************************************************************)
EXTENDS Naturals, Sequences

CONSTANTS
  Clients,    \* callers of Coordinator::logs
  Frames,     \* what FrameEvent::Frame can carry
  Terminals   \* the terminal variants, FrameEvent::EOF and FrameEvent::Error

VARIABLES
  log,     \* every event of the job so far
  seen,    \* seen[c]: the events client c has received
  call,    \* call[c]: where the logs() call of c is
  served   \* the clients for which a reader of the log was made

vars == <<log, seen, call, served>>

Init == /\ log = <<>>
        /\ seen = [c \in Clients |-> <<>>]
        /\ call = [c \in Clients |-> "idle"]
        /\ served = {}

Sealed == \E i \in DOMAIN log : log[i] \in Terminals

(* The job produces one more event; nothing follows a terminal one.        *)
Publish == /\ ~Sealed
           /\ \E e \in Frames \union Terminals : log' = Append(log, e)
           /\ UNCHANGED <<seen, call, served>>

Ask(c) == /\ call[c] = "idle"
          /\ call' = [call EXCEPT ![c] = "waiting"]
          /\ UNCHANGED <<log, seen, served>>

(* A reader is made for a caller that waits, once; nothing is made for one *)
(* that gave up.                                                           *)
Serve(c) == /\ call[c] = "waiting"
            /\ c \notin served
            /\ served' = served \union {c}
            /\ UNCHANGED <<log, seen, call>>

Open(c) == /\ call[c] = "waiting"
           /\ c \in served
           /\ call' = [call EXCEPT ![c] = "reading"]
           /\ UNCHANGED <<log, seen, served>>

(* Client c receives the first event of the log it has not seen, and is    *)
(* done when that is the last one.                                         *)
Observe(c) ==
  /\ call[c] = "reading"
  /\ Len(seen[c]) < Len(log)
  /\ LET e == log[Len(seen[c]) + 1] IN
       /\ seen' = [seen EXCEPT ![c] = Append(@, e)]
       /\ call' = IF e \in Terminals THEN [call EXCEPT ![c] = "done"] ELSE call
  /\ UNCHANGED <<log, served>>

(* The caller loses patience or its connection.                            *)
GiveUp(c) == /\ call[c] \in {"waiting", "reading"}
             /\ call' = [call EXCEPT ![c] = "gone"]
             /\ UNCHANGED <<log, seen, served>>

(* The stream breaks off under a client that has not seen everything.      *)
Cut(c) == /\ call[c] = "reading"
          /\ Len(seen[c]) < Len(log)
          /\ call' = [call EXCEPT ![c] = "cut"]
          /\ UNCHANGED <<log, seen, served>>

Next == \/ Publish
        \/ \E c \in Clients : \/ Ask(c) \/ Serve(c) \/ Open(c)
                              \/ Observe(c) \/ GiveUp(c) \/ Cut(c)

Spec == Init /\ [][Next]_vars
==============================================================================
