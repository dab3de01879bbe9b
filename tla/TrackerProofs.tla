---------------------------- MODULE TrackerProofs ----------------------------
(***************************************************************************)
(* What TLAPS proves about Tracker.tla, for every set of streams and of    *)
(* kill() callers, every amount of output, every capacity, and with or     *)
(* without faults: TrackerInv is inductive, and what it says of the log,   *)
(* of kill() and of the job snapshot.                                      *)
(***************************************************************************)
EXTENDS Tracker, QueueLemmas, SequenceTheorems, TLAPS

-----------------------------------------------------------------------------
(* Type correctness.                                                       *)

LEMMA TypeInit == Init => TypeOK
  <1> SUFFICES ASSUME Init PROVE TypeOK
    OBVIOUS
  <1>1. /\ ch \in [Streams -> Seq(Chunks \union {Err})]
        /\ \A s \in Streams : Len(ch[s]) <= StreamCap + 1
        /\ kill_rx \in Seq(Killers) /\ Len(kill_rx) <= KillCap
        /\ source \in Seq(Chunks \union Terminals) /\ Len(source) <= SourceCap
        /\ frames \in Seq(Chunks \union Terminals)
    BY BoundsAssumption DEF Init, Spawned
  <1>2. job \in Jobs /\ reply \in [Killers -> Jobs]
    BY DEF Init, Spawned, Jobs, Started
  <1>3. /\ written \in [Streams -> 0..MaxChunks] /\ read \in [Streams -> 0..MaxChunks]
        /\ \A s \in Streams : read[s] <= written[s]
    BY BoundsAssumption DEF Init, Spawned
  <1>4. kcall \in [Killers -> {"idle", "sending", "waiting", "gone",
                               "ok", "failed", "dropped", "notRunning"}]
    BY DEF Init, Spawned
  <1> QED
    BY <1>1, <1>2, <1>3, <1>4 DEF Init, Spawned, TypeOK

(* One step of wait(), of a consume_output task, of a caller or of the     *)
(* operating system.                                                       *)
LEMMA TypeStep ==
  ASSUME TypeOK, [Next]_vars
  PROVE  TypeOK'
  <1> USE BoundsAssumption, NamesAssumption DEF TypeOK
  <1>1. ASSUME NEW s \in Streams, Write(s) PROVE TypeOK'
    <2>1. /\ written' \in [Streams -> 0..MaxChunks]
          /\ \A r \in Streams : read[r] <= written'[r]
      BY <1>1 DEF Write
    <2> QED
      BY <1>1, <2>1 DEF Write, pumpVars, loopVars, killVars, streamVars
  <1>2. ASSUME NEW s \in Streams, CloseStream(s) PROVE TypeOK'
    BY <1>2 DEF CloseStream, pumpVars, loopVars, killVars, streamVars
  <1>3. ASSUME NEW how \in {"exit", "signal"}, Exit(how) PROVE TypeOK'
    BY <1>3 DEF Exit, pumpVars, loopVars, killVars, streamVars
  <1>4. ASSUME NEW s \in Streams, PumpRead(s) PROVE TypeOK'
    <2>1. /\ NextChunk(s) \in Chunks
          /\ Append(ch[s], NextChunk(s)) \in Seq(Chunks \union {Err})
          /\ Len(Append(ch[s], NextChunk(s))) <= StreamCap + 1
      BY <1>4 DEF PumpRead, NextChunk, Chunks
    <2>2. /\ ch' \in [Streams -> Seq(Chunks \union {Err})]
          /\ \A r \in Streams : Len(ch'[r]) <= StreamCap + 1
      BY <1>4, <2>1 DEF PumpRead
    <2>3. /\ read' \in [Streams -> 0..MaxChunks]
          /\ \A r \in Streams : read'[r] <= written[r]
      BY <1>4 DEF PumpRead
    <2> QED
      BY <1>4, <2>2, <2>3 DEF PumpRead, osVars, loopVars, killVars, streamVars
  <1>5. ASSUME NEW s \in Streams, PumpEOF(s) PROVE TypeOK'
    BY <1>5 DEF PumpEOF, osVars, loopVars, killVars, streamVars
  <1>6. ASSUME NEW s \in Streams, PumpError(s) PROVE TypeOK'
    <2>1. /\ Append(ch[s], Err) \in Seq(Chunks \union {Err})
          /\ Len(Append(ch[s], Err)) <= StreamCap + 1
      BY <1>6 DEF PumpError
    <2> QED
      BY <1>6, <2>1 DEF PumpError, osVars, loopVars, killVars, streamVars
  <1>7. ASSUME NEW s \in Streams, PumpStops(s) PROVE TypeOK'
    BY <1>7 DEF PumpStops, osVars, loopVars, killVars, streamVars
  <1>8. ASSUME NEW s \in Streams, SelectFrame(s) PROVE TypeOK'
    <2>1. /\ Head(ch[s]) \in Chunks \union {Err}
          /\ Tail(ch[s]) \in Seq(Chunks \union {Err})
          /\ Len(Tail(ch[s])) <= StreamCap + 1
      BY <1>8, HeadTail DEF SelectFrame
    <2>2. ch' \in [Streams -> Seq(Chunks \union {Err})]
      BY <1>8, <2>1 DEF SelectFrame
    <2>3. \A r \in Streams : Len(ch'[r]) <= StreamCap + 1
      BY <1>8, <2>1 DEF SelectFrame
    <2> QED
      BY <1>8, <2>1, <2>2, <2>3 DEF SelectFrame, osVars, killVars, streamVars
  <1>9. CASE Send
    BY <1>9 DEF Send, osVars, pumpVars, killVars
  <1>10. ASSUME NEW s \in Streams, SelectClosed(s) PROVE TypeOK'
    BY <1>10 DEF SelectClosed, LoopTop, osVars, pumpVars, killVars, streamVars
  <1>11. CASE SelectKill
    <2>1. /\ Head(kill_rx) \in Killers
          /\ Tail(kill_rx) \in Seq(Killers)
          /\ Len(Tail(kill_rx)) <= KillCap
      BY <1>11, HeadTail DEF SelectKill
    <2> QED
      BY <1>11, <2>1 DEF SelectKill, Answered, pumpVars, streamVars
  <1>12. CASE KillDone
    BY <1>12 DEF KillDone, Retained, Jobs, pumpVars, streamVars
  <1>13. CASE KillFails
    BY <1>13 DEF KillFails, Answered, osVars, pumpVars, streamVars
  <1>14. CASE SelectWait
    BY <1>14 DEF SelectWait, Settled, Answered, LoopTop, Jobs, pumpVars, streamVars
  <1>15. CASE WaitFails
    BY <1>15 DEF WaitFails, osVars, pumpVars, killVars, streamVars
  <1>16. CASE EndSend
    <2>1. source' \in Seq(Chunks \union Terminals) /\ Len(source') <= SourceCap
      <3>1. PICK e \in Chunks \union Terminals : source' = source \o <<e>>
        BY <1>16 DEF EndSend, LastEvents, Terminals
      <3> QED
        BY <1>16, <3>1 DEF EndSend
    <2> QED
      BY <1>16, <2>1 DEF EndSend, osVars, pumpVars, killVars
  <1>17. CASE Return
    BY <1>17 DEF Return, Answered, pumpVars, streamVars
  <1>18. ASSUME NEW k \in Killers, Kill(k) PROVE TypeOK'
    <2>1. CASE KillSend(k)
      BY <2>1 DEF KillSend, KillRoom, osVars, pumpVars, loopVars, streamVars
    <2>2. CASE KillStart(k)
      BY <2>2 DEF KillStart, osVars, pumpVars, loopVars, streamVars
    <2>3. CASE KillNotRunning(k)
      BY <2>3 DEF KillNotRunning, osVars, pumpVars, loopVars, streamVars
    <2>4. CASE KillGivesUp(k)
      BY <2>4 DEF KillGivesUp, osVars, pumpVars, loopVars, streamVars
    <2> QED
      BY <1>18, <2>1, <2>2, <2>3, <2>4 DEF Kill
  <1>19. CASE TakeFrame
    BY <1>19, HeadTail DEF TakeFrame, osVars, pumpVars, loopVars, killVars
  <1>20. CASE UNCHANGED vars
    BY <1>20 DEF vars, osVars, pumpVars, loopVars, killVars, streamVars
  <1> QED
    BY <1>1, <1>2, <1>3, <1>4, <1>5, <1>6, <1>7, <1>8, <1>9, <1>10, <1>11, <1>12, <1>13,
       <1>14, <1>15, <1>16, <1>17, <1>18, <1>19, <1>20 DEF Next, OS, Pump, Wait

-----------------------------------------------------------------------------
(* TrackerInv of Tracker.tla is inductive; each of its parts is a lemma    *)
(* about one step.                                                         *)

(* The steps in which wait() and the callers of kill() have no part.       *)
Outside == \/ \E s \in Streams : Write(s) \/ CloseStream(s) \/ Pump(s)
           \/ TakeFrame

LEMMA OutsideKeepsControl ==
  ASSUME Outside \/ UNCHANGED vars
  PROVE  UNCHANGED <<proc, status, signalled, loopVars, killVars, job>>
  BY DEF Outside, Write, CloseStream, Pump, PumpRead, PumpEOF, PumpError, PumpStops,
         TakeFrame, vars, osVars, pumpVars, loopVars, killVars

(* The child is reaped once, by kill() or by the wait branch.              *)
LEMMA ChildStep ==
  ASSUME TypeOK, ChildInv, [Next]_vars
  PROVE  ChildInv'
  <1> USE DEF ChildInv
  <1>1. CASE Outside \/ UNCHANGED vars
    BY <1>1, OutsideKeepsControl DEF loopVars, killVars
  <1>2. ASSUME NEW how \in {"exit", "signal"}, Exit(how) PROVE ChildInv'
    BY <1>2 DEF Exit, loopVars, killVars
  <1>3. ASSUME NEW s \in Streams, SelectFrame(s) \/ SelectClosed(s) PROVE ChildInv'
    BY <1>3 DEF SelectFrame, SelectClosed, LoopTop, osVars, killVars
  <1>4. CASE Send \/ EndSend
    BY <1>4 DEF Send, EndSend, osVars, killVars
  <1>5. CASE SelectKill
    BY <1>5 DEF SelectKill, CanKill
  <1>6. CASE KillDone
    <2>1. job'.state = job.state
      BY <1>6 DEF KillDone, TypeOK, Jobs
    <2> QED
      BY <1>6, <2>1 DEF KillDone
  <1>7. CASE KillFails
    BY <1>7 DEF KillFails, osVars
  <1>8. CASE SelectWait
    <2>1. job'.state = "exited"
      BY <1>8 DEF SelectWait, Settled, TypeOK, Jobs
    <2> QED
      BY <1>8, <2>1 DEF SelectWait, LoopTop
  <1>9. CASE WaitFails
    BY <1>9 DEF WaitFails, osVars, killVars
  <1>10. CASE Return
    BY <1>10 DEF Return
  <1>11. ASSUME NEW k \in Killers, Kill(k) PROVE ChildInv'
    BY <1>11 DEF Kill, KillStart, KillSend, KillNotRunning, KillGivesUp, osVars, loopVars
  <1> QED
    BY <1>1, <1>2, <1>3, <1>4, <1>5, <1>6, <1>7, <1>8, <1>9, <1>10, <1>11
       DEF Next, OS, Wait, Outside

(* The loop is left when the child and both streams are done, or by an     *)
(* error.                                                                  *)
LEMMA LoopStep ==
  ASSUME TypeOK, LoopInv, [Next]_vars
  PROVE  LoopInv'
  <1> USE DEF LoopInv, Looping
  <1>1. CASE Outside \/ UNCHANGED vars
    BY <1>1, OutsideKeepsControl DEF loopVars
  <1>2. ASSUME NEW how \in {"exit", "signal"}, Exit(how) PROVE LoopInv'
    BY <1>2 DEF Exit, loopVars
  <1>3. ASSUME NEW s \in Streams, SelectFrame(s) PROVE LoopInv'
    BY <1>3 DEF SelectFrame
  <1>4. ASSUME NEW s \in Streams, SelectClosed(s) PROVE LoopInv'
    BY <1>4 DEF SelectClosed, LoopTop
  <1>5. CASE Send \/ EndSend \/ Return
    BY <1>5 DEF Send, EndSend, Return
  <1>6. CASE SelectKill \/ KillDone \/ KillFails
    BY <1>6 DEF SelectKill, KillDone, KillFails
  <1>7. CASE SelectWait
    BY <1>7 DEF SelectWait, LoopTop
  <1>8. CASE WaitFails
    BY <1>8 DEF WaitFails
  <1>9. ASSUME NEW k \in Killers, Kill(k) PROVE LoopInv'
    BY <1>9 DEF Kill, KillStart, KillSend, KillNotRunning, KillGivesUp, loopVars
  <1> QED
    BY <1>1, <1>2, <1>3, <1>4, <1>5, <1>6, <1>7, <1>8, <1>9 DEF Next, OS, Wait, Outside

(* A request moves from its caller to the channel, from there to wait(),   *)
(* and is retained or answered, once.                                      *)
LEMMA RequestStep ==
  ASSUME TypeOK, ChildInv, LoopInv, RequestInv, [Next]_vars
  PROVE  RequestInv'
  <1> USE DEF RequestInv
  <1>k. ASSUME UNCHANGED <<kill_rx, kcall, kill_reqs, job>>,
               pc' = "killing" => pc = "killing" /\ UNCHANGED hand,
               loop_err => loop_err'
        PROVE  RequestInv'
    BY <1>k
  <1>h. kill_rx # <<>> =>
          /\ DOMAIN kill_rx = 1..Len(kill_rx) /\ Len(kill_rx) \in Nat \ {0}
          /\ Head(kill_rx) = kill_rx[1]
          /\ Head(kill_rx) \in Killers
          /\ \A i \in DOMAIN Tail(kill_rx) : /\ i + 1 \in DOMAIN kill_rx
                                             /\ Tail(kill_rx)[i] = kill_rx[i + 1]
                                             /\ i + 1 # 1
                                             /\ i \in Nat
    BY HeadTail DEF TypeOK
  <1>1. CASE Outside \/ UNCHANGED vars
    BY <1>1, <1>k, OutsideKeepsControl DEF loopVars, killVars
  <1>2. ASSUME NEW how \in {"exit", "signal"}, Exit(how) PROVE RequestInv'
    BY <1>2, <1>k DEF Exit, loopVars, killVars
  <1>3. ASSUME NEW s \in Streams, SelectFrame(s) \/ SelectClosed(s) PROVE RequestInv'
    BY <1>3, <1>k DEF SelectFrame, SelectClosed, LoopTop, killVars
  <1>4. CASE Send \/ EndSend \/ WaitFails
    BY <1>4, <1>k DEF Send, EndSend, WaitFails, killVars
  <1>5. CASE SelectKill
    <2> DEFINE h == Head(kill_rx)
    <2>1. /\ kill_rx # <<>> /\ kill_rx' = Tail(kill_rx)
          /\ UNCHANGED <<kill_reqs, job, loop_err>>
      BY <1>5 DEF SelectKill
    <2>2. h \in Killers /\ kcall[h] \in {"waiting", "gone"} /\ h # job.killed
      BY <2>1, <1>h
    <2>3. \A i \in DOMAIN kill_rx' : /\ kill_rx'[i] # h
                                     /\ kill_rx'[i] \in Killers
                                     /\ kcall[kill_rx'[i]] \in {"waiting", "gone"}
                                     /\ kill_rx'[i] # job.killed
      <3> SUFFICES ASSUME NEW i \in DOMAIN kill_rx'
                   PROVE  /\ kill_rx'[i] # h
                          /\ kill_rx'[i] \in Killers
                          /\ kcall[kill_rx'[i]] \in {"waiting", "gone"}
                          /\ kill_rx'[i] # job.killed
        OBVIOUS
      <3> DEFINE j == i + 1
      <3>1. /\ j \in DOMAIN kill_rx /\ kill_rx'[i] = kill_rx[j] /\ j # 1
            /\ 1 \in DOMAIN kill_rx /\ h = kill_rx[1]
        BY <2>1, <1>h
      <3>2. kill_rx[j] \in Killers
        BY <3>1 DEF TypeOK
      <3> HIDE DEF j, h
      <3> QED
        BY <3>1, <3>2
    <2>4. \A i, j \in DOMAIN kill_rx' : kill_rx'[i] = kill_rx'[j] => i = j
      <3> SUFFICES ASSUME NEW i \in DOMAIN kill_rx', NEW j \in DOMAIN kill_rx',
                          kill_rx'[i] = kill_rx'[j]
                   PROVE  i = j
        OBVIOUS
      <3>1. i + 1 = j + 1 /\ i \in Nat /\ j \in Nat
        BY <2>1, <1>h
      <3> QED
        BY <3>1
    <2>5. CASE kcall' = Answered({h}, "failed") /\ UNCHANGED <<pc, hand>>
      <3>1. pc # "killing"
        BY <1>5 DEF SelectKill
      <3>2. \A k \in Killers : k # h => kcall'[k] = kcall[k]
        BY <2>5 DEF Answered
      <3>3. h \notin kill_reqs
        BY <2>2
      <3>4. \A k \in kill_reqs : k \in Killers /\ k # h
        BY <3>3 DEF TypeOK
      <3> HIDE DEF h
      <3>5. \A k \in kill_reqs : kcall'[k] \in {"waiting", "gone"} /\ job'.killed = k
        BY <2>1, <3>2, <3>4
      <3>6. \A k \in Killers : job.killed = k => kcall'[k] = kcall[k]
        BY <2>2, <3>2
      <3>7. \A k \in Killers : job'.killed = k =>
              \/ k \in kill_reqs'
              \/ kcall'[k] \in {"ok", "gone"}
              \/ kcall'[k] = "dropped" /\ loop_err'
        BY <2>1, <3>6
      <3>8. \A i \in DOMAIN kill_rx' : kcall'[kill_rx'[i]] \in {"waiting", "gone"}
        BY <2>3, <3>2
      <3> QED
        BY <2>1, <2>3, <2>4, <2>5, <3>1, <3>5, <3>7, <3>8
    <2>6. CASE pc' = "killing" /\ hand' = h /\ UNCHANGED kcall
      <3> HIDE DEF h
      <3> QED
        BY <2>1, <2>2, <2>3, <2>4, <2>6
    <2> QED
      BY <1>5, <2>5, <2>6 DEF SelectKill
  <1>6. CASE KillDone
    <2>1. /\ pc = "killing" /\ proc # "reaped" /\ hand \in Killers
          /\ job' = [job EXCEPT !.killed = hand]
          /\ kill_reqs' = kill_reqs \union {hand}
          /\ pc' = "select"
          /\ UNCHANGED <<kill_rx, kcall, loop_err>>
      BY <1>6 DEF KillDone, Retained, ChildInv, TypeOK
    <2>2. job'.killed = hand /\ kill_reqs' = {hand}
      BY <2>1 DEF TypeOK, Jobs, ChildInv
    <2> QED
      BY <2>1, <2>2
  <1>7. CASE KillFails
    <2>1. /\ pc = "killing" /\ hand \in Killers
          /\ kcall' = Answered({hand}, "failed")
          /\ pc' = "select"
          /\ UNCHANGED <<kill_rx, kill_reqs, job, loop_err>>
      BY <1>7 DEF KillFails, TypeOK
    <2>2. kill_reqs = {} /\ job.killed = NoOne
      BY <2>1 DEF ChildInv
    <2>3. \A k \in Killers : k # hand => kcall'[k] = kcall[k]
      BY <2>1 DEF Answered
    <2>4. \A i \in DOMAIN kill_rx : kill_rx[i] \in Killers
      BY DEF TypeOK
    <2> QED
      BY <2>1, <2>2, <2>3, <2>4, NamesAssumption
  <1>8. CASE SelectWait
    <2>1. /\ kcall' = Answered(kill_reqs, "ok")
          /\ kill_reqs' = {}
          /\ pc' # "killing"
          /\ UNCHANGED <<kill_rx, loop_err>>
      BY <1>8 DEF SelectWait, LoopTop
    <2>2. job'.killed = job.killed
      BY <1>8 DEF SelectWait, Settled, TypeOK, Jobs
    <2>3. /\ \A k \in Killers : k \notin kill_reqs => kcall'[k] = kcall[k]
          /\ \A k \in kill_reqs : kcall'[k] \in {"ok", "gone"}
      BY <2>1 DEF Answered, TypeOK
    <2>4. \A i \in DOMAIN kill_rx : kill_rx[i] \in Killers /\ kill_rx[i] \notin kill_reqs
      BY DEF TypeOK
    <2> QED
      BY <2>1, <2>2, <2>3, <2>4
  <1>9. CASE Return
    <2> DEFINE K == kill_reqs \union {kill_rx[i] : i \in DOMAIN kill_rx}
    <2>1. /\ kcall' = Answered(K, "dropped")
          /\ kill_rx' = <<>> /\ kill_reqs' = {} /\ pc' = "done"
          /\ UNCHANGED <<job, loop_err>>
          /\ ~Looping
      BY <1>9 DEF Return, Looping
    <2>2. \A k \in kill_reqs : loop_err
      BY <2>1 DEF ChildInv, LoopInv
    <2>3. \A k \in Killers :
            kcall'[k] = IF k \in K /\ kcall[k] = "waiting" THEN "dropped" ELSE kcall[k]
      BY <2>1 DEF Answered
    <2>4. ASSUME NEW k \in Killers, job.killed = k
          PROVE  kcall'[k] \in {"ok", "gone"} \/ (kcall'[k] = "dropped" /\ loop_err)
      <3>1. k \in K => k \in kill_reqs
        BY <2>4
      <3>2. \/ k \in kill_reqs /\ kcall[k] \in {"waiting", "gone"}
            \/ kcall[k] \in {"ok", "gone"}
            \/ kcall[k] = "dropped" /\ loop_err
        BY <2>4
      <3> HIDE DEF K
      <3>3. k \in kill_reqs => k \in K
        BY DEF K
      <3>4. CASE k \in kill_reqs
        <4>1. loop_err /\ k \in K
          BY <2>2, <3>3, <3>4
        <4>2. kcall'[k] = IF kcall[k] = "waiting" THEN "dropped" ELSE kcall[k]
          BY <2>3, <4>1
        <4>3. kcall[k] \in {"waiting", "gone"}
          BY <3>4
        <4> QED
          BY <4>1, <4>2, <4>3
      <3>5. CASE k \notin kill_reqs
        <4>1. kcall'[k] = kcall[k]
          BY <2>3, <3>1, <3>5
        <4>2. CASE kcall[k] \in {"ok", "gone"}
          BY <4>1, <4>2
        <4>3. CASE kcall[k] = "dropped" /\ loop_err
          BY <4>1, <4>3
        <4> QED
          BY <3>2, <3>5, <4>2, <4>3
      <3> QED
        BY <3>4, <3>5
    <2> QED
      BY <2>1, <2>4
  <1>10. ASSUME NEW k \in Killers, Kill(k) PROVE RequestInv'
    <2>1. UNCHANGED <<loopVars, job, kill_reqs>>
      BY <1>10 DEF Kill, KillStart, KillSend, KillNotRunning, KillGivesUp
    <2>2. CASE KillSend(k)
      <3>1. /\ kcall[k] = "sending" /\ kcall' = [kcall EXCEPT ![k] = "waiting"]
            /\ kill_rx' = Append(kill_rx, k)
        BY <2>2 DEF KillSend
      <3>2. /\ DOMAIN kill_rx' = DOMAIN kill_rx \union {Len(kill_rx) + 1}
            /\ \A i \in DOMAIN kill_rx : /\ kill_rx'[i] = kill_rx[i] /\ kill_rx[i] # k
                                         /\ kill_rx[i] \in Killers
            /\ kill_rx'[Len(kill_rx) + 1] = k
        <4>1. kill_rx \in Seq(Killers)
          BY DEF TypeOK
        <4>2. /\ Len(kill_rx) \in Nat
              /\ DOMAIN kill_rx = 1..Len(kill_rx)
              /\ DOMAIN kill_rx' = 1..(Len(kill_rx) + 1)
              /\ \A i \in DOMAIN kill_rx : kill_rx'[i] = kill_rx[i]
              /\ kill_rx'[Len(kill_rx) + 1] = k
          BY <3>1, <4>1
        <4>3. \A i \in DOMAIN kill_rx : kill_rx[i] # k /\ kill_rx[i] \in Killers
          BY <3>1, <4>1
        <4> QED
          BY <4>2, <4>3
      <3>3. k \notin kill_reqs /\ job.killed # k /\ ~(pc = "killing" /\ hand = k)
        BY <3>1
      <3> DEFINE l == Len(kill_rx) + 1
      <3> HIDE DEF l
      <3>4. /\ DOMAIN kill_rx' = DOMAIN kill_rx \union {l}
            /\ kill_rx'[l] = k
        BY <3>2 DEF l
      <3>5. \A j \in Killers : kcall'[j] = IF j = k THEN "waiting" ELSE kcall[j]
        BY <3>1 DEF TypeOK
      <3>6. kill_reqs \subseteq Killers /\ (pc = "killing" => hand \in Killers)
        BY DEF TypeOK
      <3> QED
        BY <2>1, <3>2, <3>3, <3>4, <3>5, <3>6 DEF loopVars
    <2>3. ASSUME UNCHANGED kill_rx,
                 \A j \in Killers : kcall'[j] = kcall[j] \/ kcall'[j] = "gone"
                                    \/ (j = k /\ kcall[j] \in {"idle", "sending"})
          PROVE  RequestInv'
      <3>1. \A i \in DOMAIN kill_rx : kill_rx[i] \in Killers
        BY DEF TypeOK
      <3>2. kill_reqs \subseteq Killers /\ (pc = "killing" => hand \in Killers)
        BY DEF TypeOK
      <3> QED
        BY <2>1, <2>3, <3>1, <3>2 DEF loopVars
    <2>4. CASE KillStart(k) \/ KillNotRunning(k) \/ KillGivesUp(k)
      <3>1. UNCHANGED kill_rx
        BY <2>4 DEF KillStart, KillNotRunning, KillGivesUp
      <3>2. \A j \in Killers : kcall'[j] = kcall[j] \/ kcall'[j] = "gone"
                               \/ (j = k /\ kcall[j] \in {"idle", "sending"})
        <4>0. DOMAIN kcall = Killers
          BY DEF TypeOK
        <4>1. CASE KillStart(k)
          BY <4>0, <4>1 DEF KillStart
        <4>2. CASE KillNotRunning(k)
          BY <4>0, <4>2 DEF KillNotRunning
        <4>3. CASE KillGivesUp(k)
          BY <4>0, <4>3 DEF KillGivesUp
        <4> QED
          BY <2>4, <4>1, <4>2, <4>3
      <3> QED
        BY <2>3, <3>1, <3>2
    <2> QED
      BY <1>10, <2>2, <2>4 DEF Kill
  <1> QED
    BY <1>1, <1>2, <1>3, <1>4, <1>5, <1>6, <1>7, <1>8, <1>9, <1>10
       DEF Next, OS, Wait, Outside

(* What wait() and a caller do to the requests on their way.               *)
LEMMA SelectKillAsks ==
  ASSUME TypeOK, RequestInv, SelectKill
  PROVE  /\ Head(kill_rx) \in Killers /\ Head(kill_rx) \in Asked
         /\ pc' = "killing" => Asked' = Asked
         /\ pc' # "killing" => Asked' = Asked \ {Head(kill_rx)}
  <1> DEFINE h == Head(kill_rx)
  <1>1. /\ kill_rx # <<>> /\ kill_rx' = Tail(kill_rx) /\ pc = "select"
        /\ kill_rx \in Seq(Killers)
    BY DEF SelectKill, TypeOK
  <1>2. /\ h \in Killers /\ h = kill_rx[1]
        /\ DOMAIN kill_rx = 1..Len(kill_rx) /\ Len(kill_rx) \in Nat \ {0}
        /\ DOMAIN kill_rx' = 1..(Len(kill_rx) - 1)
        /\ \A i \in 1..(Len(kill_rx) - 1) : kill_rx'[i] = kill_rx[i + 1]
    BY <1>1, HeadTail
  <1>3. \A i, j \in DOMAIN kill_rx : kill_rx[i] = kill_rx[j] => i = j
    BY DEF RequestInv
  <1>4. Asked = Queued /\ h \in Queued
    BY <1>1, <1>2 DEF Asked, Queued
  <1>5. Queued' = Queued \ {h}
    <2>1. ASSUME NEW k \in Queued' PROVE k \in Queued \ {h}
      <3>1. PICK i \in 1..(Len(kill_rx) - 1) : k = kill_rx[i + 1]
        BY <1>2, <2>1 DEF Queued
      <3>2. i + 1 \in DOMAIN kill_rx /\ 1 \in DOMAIN kill_rx /\ i + 1 # 1
        BY <1>2
      <3>3. kill_rx[i + 1] # h
        BY <1>2, <1>3, <3>2
      <3> QED
        BY <3>1, <3>2, <3>3 DEF Queued
    <2>2. ASSUME NEW k \in Queued, k # h PROVE k \in Queued'
      <3>1. PICK i \in 1..Len(kill_rx) : k = kill_rx[i]
        BY <1>2 DEF Queued
      <3>2. i # 1
        BY <1>2, <2>2, <3>1
      <3>3. i - 1 \in 1..(Len(kill_rx) - 1) /\ (i - 1) + 1 = i
        BY <1>2, <3>2
      <3>4. kill_rx'[i - 1] = k
        BY <1>2, <3>1, <3>3
      <3> QED
        BY <1>2, <3>3, <3>4 DEF Queued
    <2> QED
      BY <2>1, <2>2
  <1>6. pc' = "killing" => hand' = h
    BY <1>1 DEF SelectKill
  <1> HIDE DEF h
  <1>7. /\ h \in Killers /\ h \in Asked
        /\ pc' = "killing" => Asked' = Asked
        /\ pc' # "killing" => Asked' = Asked \ {h}
    BY <1>2, <1>4, <1>5, <1>6 DEF Asked
  <1> QED
    BY <1>7 DEF h

LEMMA KillSendAsks ==
  ASSUME TypeOK, NEW k \in Killers, KillSend(k)
  PROVE  Asked' = Asked \union {k}
  <1>1. kill_rx \in Seq(Killers) /\ kill_rx' = Append(kill_rx, k) /\ UNCHANGED <<pc, hand>>
    BY DEF KillSend, TypeOK, loopVars
  <1>2. /\ DOMAIN kill_rx = 1..Len(kill_rx) /\ Len(kill_rx) \in Nat
        /\ DOMAIN kill_rx' = 1..(Len(kill_rx) + 1)
        /\ \A i \in 1..Len(kill_rx) : kill_rx'[i] = kill_rx[i]
        /\ kill_rx'[Len(kill_rx) + 1] = k
    BY <1>1, AppendAt
  <1>3. Queued' = Queued \union {k}
    BY <1>2 DEF Queued
  <1> QED
    BY <1>1, <1>3 DEF Asked

LEMMA KillEndsAsk ==
  ASSUME TypeOK, RequestInv, KillDone \/ KillFails
  PROVE  hand \in Killers /\ hand \in Asked /\ Asked' = Asked \ {hand}
  <1>1. pc = "killing" /\ pc' = "select" /\ hand \in Killers /\ UNCHANGED kill_rx
    BY DEF KillDone, KillFails, TypeOK
  <1>2. hand \notin Queued
    BY <1>1 DEF RequestInv, Queued
  <1> QED
    BY <1>1, <1>2 DEF Asked, Queued

LEMMA ReturnAsks ==
  ASSUME Return
  PROVE  Asked' = {}
  BY DEF Return, Asked, Queued

(* All other steps leave the requests where they are.                      *)
LEMMA OthersAskNothing ==
  ASSUME [Next]_vars, ~SelectKill, ~KillDone, ~KillFails, ~Return,
         \A k \in Killers : ~KillSend(k)
  PROVE  Asked' = Asked
  <1>1. UNCHANGED kill_rx /\ (pc = "killing" <=> pc' = "killing")
        /\ (pc = "killing" => UNCHANGED hand)
    <2>1. CASE Outside \/ UNCHANGED vars
      BY <2>1, OutsideKeepsControl DEF loopVars, killVars
    <2>2. CASE \E how \in {"exit", "signal"} : Exit(how)
      BY <2>2 DEF Exit, loopVars, killVars
    <2>3. CASE \E s \in Streams : SelectFrame(s) \/ SelectClosed(s)
      BY <2>3 DEF SelectFrame, SelectClosed, LoopTop, killVars
    <2>4. CASE Send \/ EndSend \/ WaitFails \/ SelectWait
      BY <2>4 DEF Send, EndSend, WaitFails, SelectWait, LoopTop, killVars
    <2>5. CASE \E k \in Killers : KillStart(k) \/ KillNotRunning(k) \/ KillGivesUp(k)
      BY <2>5 DEF KillStart, KillNotRunning, KillGivesUp, loopVars
    <2> QED
      BY <2>1, <2>2, <2>3, <2>4, <2>5 DEF Next, OS, Wait, Outside, Kill
  <1> QED
    BY <1>1 DEF Asked, Queued

(* Whoever waits has a request that somebody still has to answer.          *)
LEMMA WaitStep ==
  ASSUME TypeOK, ChildInv, RequestInv, WaitInv, [Next]_vars
  PROVE  WaitInv'
  <1>0. DOMAIN kcall = Killers /\ kill_reqs \subseteq Killers
    BY DEF TypeOK
  <1> DEFINE Waiting == {k \in Killers : kcall[k] = "waiting"}
  <1>w. Waiting \subseteq Asked \union kill_reqs
    BY DEF WaitInv
  <1>s. ASSUME Waiting' \subseteq Asked' \union kill_reqs',
               pc' = "done" => kill_rx' = <<>> /\ kill_reqs' = {}
        PROVE  WaitInv'
    BY <1>s DEF WaitInv
  <1>1. CASE SelectKill
    <2>1. pc' # "done" /\ UNCHANGED kill_reqs
      BY <1>1 DEF SelectKill
    <2>2. CASE pc' = "killing" /\ UNCHANGED kcall
      BY <1>1, <1>w, <1>s, <2>1, <2>2, SelectKillAsks
    <2>3. CASE pc' # "killing" /\ kcall' = Answered({Head(kill_rx)}, "failed")
      <3>1. Waiting' = Waiting \ {Head(kill_rx)}
        BY <2>3 DEF Answered
      <3>2. Asked' = Asked \ {Head(kill_rx)}
        BY <1>1, <2>3, SelectKillAsks
      <3> QED
        BY <1>w, <1>s, <2>1, <3>1, <3>2
    <2>4. pc = "select"
      BY <1>1 DEF SelectKill
    <2> QED
      BY <1>1, <2>2, <2>3, <2>4 DEF SelectKill
  <1>2. CASE KillDone
    <2>1. pc' # "done" /\ UNCHANGED kcall /\ kill_reqs' = kill_reqs \union {hand}
      BY <1>2 DEF KillDone, Retained
    <2> QED
      BY <1>2, <1>w, <1>s, <2>1, KillEndsAsk
  <1>3. CASE KillFails
    <2>1. pc' # "done" /\ kcall' = Answered({hand}, "failed") /\ UNCHANGED kill_reqs
      BY <1>3 DEF KillFails
    <2>2. Waiting' = Waiting \ {hand}
      BY <2>1 DEF Answered
    <2> QED
      BY <1>3, <1>w, <1>s, <2>1, <2>2, KillEndsAsk
  <1>4. CASE Return
    <2>1. /\ kill_rx' = <<>> /\ kill_reqs' = {}
          /\ kcall' = Answered(kill_reqs \union Queued, "dropped")
          /\ Asked = Queued
      BY <1>4 DEF Return, Queued, Asked
    <2>2. Waiting' = Waiting \ (kill_reqs \union Queued)
      BY <2>1 DEF Answered
    <2> QED
      BY <1>w, <1>s, <2>1, <2>2
  <1>5. ASSUME NEW k \in Killers, KillSend(k)
        PROVE  WaitInv'
    <2>1. UNCHANGED <<kill_reqs, pc>> /\ pc # "done" /\ kcall' = [kcall EXCEPT ![k] = "waiting"]
      BY <1>5 DEF KillSend, Alive, loopVars
    <2>2. Waiting' = Waiting \union {k}
      BY <1>0, <2>1
    <2> QED
      BY <1>5, <1>w, <1>s, <2>1, <2>2, KillSendAsks
  <1>6. CASE SelectWait
    <2>1. pc' # "done" /\ kcall' = Answered(kill_reqs, "ok") /\ kill_reqs' = {}
      BY <1>6 DEF SelectWait, LoopTop
    <2>2. Waiting' = Waiting \ kill_reqs
      BY <2>1 DEF Answered
    <2>3. Asked' = Asked
      BY <1>6 DEF SelectWait, LoopTop, Asked, Queued
    <2> QED
      BY <1>w, <1>s, <2>1, <2>2, <2>3
  <1>7. ASSUME ~SelectKill, ~KillDone, ~KillFails, ~Return, ~SelectWait,
               \A k \in Killers : ~KillSend(k)
        PROVE  WaitInv'
    <2>1. Asked' = Asked
      BY <1>7, OthersAskNothing
    <2>2. /\ UNCHANGED <<kill_rx, kill_reqs>> /\ (pc' = "done" => pc = "done")
          /\ \A k \in Killers : kcall'[k] = "waiting" => kcall[k] = "waiting"
      <3>1. CASE Outside \/ UNCHANGED vars
        BY <3>1, OutsideKeepsControl DEF loopVars, killVars
      <3>2. CASE \E how \in {"exit", "signal"} : Exit(how)
        BY <3>2 DEF Exit, loopVars, killVars
      <3>3. CASE \E s \in Streams : SelectFrame(s) \/ SelectClosed(s)
        BY <3>3 DEF SelectFrame, SelectClosed, LoopTop, killVars
      <3>4. CASE Send \/ EndSend \/ WaitFails
        BY <3>4 DEF Send, EndSend, WaitFails, killVars
      <3>5. CASE \E k \in Killers : KillStart(k) \/ KillNotRunning(k) \/ KillGivesUp(k)
        BY <1>0, <3>5 DEF KillStart, KillNotRunning, KillGivesUp, loopVars
      <3> QED
        BY <1>7, <3>1, <3>2, <3>3, <3>4, <3>5 DEF Next, OS, Wait, Outside, Kill
    <2> QED
      BY <1>w, <1>s, <2>1, <2>2 DEF WaitInv
  <1> QED
    BY <1>1, <1>2, <1>3, <1>4, <1>5, <1>6, <1>7

(* An answer is the settled job, which does not change any more.           *)
LEMMA AnswerStep ==
  ASSUME TypeOK, ChildInv, RequestInv, KillOkMeansDead, [Next]_vars
  PROVE  KillOkMeansDead'
  <1> USE DEF KillOkMeansDead
  <1>1. CASE Outside \/ UNCHANGED vars
    BY <1>1, OutsideKeepsControl DEF killVars
  <1>2. ASSUME NEW how \in {"exit", "signal"}, Exit(how) PROVE KillOkMeansDead'
    BY <1>2 DEF Exit, killVars
  <1>3. ASSUME NEW s \in Streams, SelectFrame(s) \/ SelectClosed(s) PROVE KillOkMeansDead'
    BY <1>3 DEF SelectFrame, SelectClosed, osVars, killVars
  <1>4. CASE Send \/ EndSend \/ WaitFails
    BY <1>4 DEF Send, EndSend, WaitFails, osVars, killVars
  <1>5. CASE SelectKill
    BY <1>5 DEF SelectKill, Answered, TypeOK
  <1>6. CASE KillDone
    BY <1>6 DEF KillDone, ChildInv
  <1>7. CASE KillFails
    BY <1>7 DEF KillFails, Answered, osVars, TypeOK
  <1>8. CASE SelectWait
    <2>1. job.state # "exited"
      BY <1>8 DEF SelectWait, ChildInv
    <2>2. job'.state = "exited" /\ job'.killed = job.killed /\ proc' = "reaped"
      BY <1>8 DEF SelectWait, Settled, TypeOK, Jobs
    <2>3. \A k \in Killers : kcall'[k] = "ok" => k \in kill_reqs
      BY <1>8, <2>1 DEF SelectWait, Answered
    <2>4. \A k \in kill_reqs : k \in Killers /\ job.killed = k
      BY DEF RequestInv, TypeOK
    <2>5. \A k \in kill_reqs : reply'[k] = job'
      BY <1>8, <2>4 DEF SelectWait
    <2> QED
      BY <2>2, <2>3, <2>4, <2>5
  <1>9. CASE Return
    BY <1>9 DEF Return, Answered, TypeOK
  <1>10. ASSUME NEW k \in Killers, Kill(k) PROVE KillOkMeansDead'
    BY <1>10 DEF Kill, KillStart, KillSend, KillNotRunning, KillGivesUp, osVars, TypeOK
  <1> QED
    BY <1>1, <1>2, <1>3, <1>4, <1>5, <1>6, <1>7, <1>8, <1>9, <1>10
       DEF Next, OS, Wait, Outside

(* Only Send and EndSend add to the log, and EndSend adds the last event.  *)
LEMMA EmittedType == TypeOK => Emitted \in Seq(Chunks \union Terminals)
  BY DEF TypeOK, Emitted

LEMMA SendEmits ==
  ASSUME TypeOK, Send
  PROVE  Emitted' = Append(Emitted, hand) /\ hand \in Chunks
  BY AppendToLast DEF TypeOK, Send, Emitted

LEMMA EndSendEmits ==
  ASSUME TypeOK, EndSend
  PROVE  Emitted' = Append(Emitted, IF loop_err THEN Err ELSE EOF)
  <1> DEFINE e == IF loop_err THEN Err ELSE EOF
  <1>1. source' = Append(source, e) /\ frames' = frames
    BY DEF TypeOK, EndSend, LastEvents
  <1>2. e \in Chunks \union Terminals
    BY DEF Terminals
  <1> HIDE DEF e
  <1>3. Emitted' = Append(Emitted, e)
    BY <1>1, <1>2, AppendToLast DEF TypeOK, Emitted
  <1> QED
    BY <1>3 DEF e

LEMMA TakeFrameEmits ==
  ASSUME TypeOK, TakeFrame
  PROVE  Emitted' = Emitted
  BY MoveHead DEF TypeOK, TakeFrame, Emitted

(* The other steps leave the log alone.                                    *)
LEMMA OthersEmitNothing ==
  ASSUME TypeOK, [Next]_vars, ~Send, ~EndSend
  PROVE  Emitted' = Emitted
  <1>1. CASE TakeFrame
    BY <1>1, TakeFrameEmits
  <1>2. CASE ~TakeFrame
    <2>1. UNCHANGED streamVars
      BY <1>2 DEF Next, OS, Pump, Wait, Kill, Write, CloseStream, Exit, PumpRead, PumpEOF,
                  PumpError, PumpStops, SelectFrame, SelectClosed, SelectKill, KillDone,
                  KillFails, SelectWait, WaitFails, Return, KillStart, KillSend,
                  KillNotRunning, KillGivesUp, vars
    <2> QED
      BY <2>1 DEF streamVars, Emitted
  <1> QED
    BY <1>1, <1>2

(* The terminal event is sent on the way out of the loop, and only there.  *)
LEMMA TerminalStep ==
  ASSUME TypeOK, TerminalInv, [Next]_vars
  PROVE  TerminalInv'
  <1> USE DEF TerminalInv
  <1> DEFINE Left == pc \in {"recording", "done"}
  <1>0. Left <=> ~(Looping \/ pc = "ending")
    BY DEF TypeOK, Looping
  <1>1. CASE Send
    <2>1. ~Terminated /\ pc' = "select" /\ UNCHANGED loop_err
      BY <1>1 DEF Send, Looping
    <2>2. Emitted' = Append(Emitted, hand) /\ hand \notin Terminals
      BY <1>1, SendEmits, NamesAssumption DEF Terminals
    <2>3. \A i \in DOMAIN Emitted' : Emitted'[i] \notin Terminals
      <3>1. /\ Emitted \in Seq(Chunks \union Terminals)
            /\ hand \in Chunks
        BY <1>1, EmittedType, SendEmits
      <3>2. \A i \in DOMAIN Emitted' :
              \/ i \in DOMAIN Emitted /\ Emitted'[i] = Emitted[i]
              \/ Emitted'[i] = hand
        BY <2>2, <3>1
      <3> QED
        BY <2>1, <2>2, <3>2 DEF Terminated
    <2> QED
      BY <2>1, <2>3 DEF Terminated
  <1>2. CASE EndSend
    <2> DEFINE e == IF loop_err THEN Err ELSE EOF
    <2>1. ~Terminated /\ pc' = "recording" /\ UNCHANGED loop_err
      BY <1>2 DEF EndSend
    <2>2. Emitted' = Append(Emitted, e)
      BY <1>2, EndSendEmits
    <2>3. e \in Chunks \union Terminals
      BY DEF Terminals
    <2>4. Emitted \in Seq(Chunks \union Terminals)
      BY EmittedType
    <2>5. e' = e
      BY <2>1
    <2> HIDE DEF e
    <2>6. /\ Len(Emitted') = Len(Emitted) + 1 /\ Len(Emitted) \in Nat
          /\ DOMAIN Emitted' = 1..(Len(Emitted) + 1)
          /\ DOMAIN Emitted = 1..Len(Emitted)
          /\ \A i \in 1..Len(Emitted) : Emitted'[i] = Emitted[i]
          /\ Emitted'[Len(Emitted) + 1] = e
      BY <2>2, <2>3, <2>4
    <2>7. \A i \in 1..Len(Emitted) : Emitted[i] \notin Terminals
      BY <2>1, <2>6 DEF Terminated
    <2>8. ASSUME NEW i \in DOMAIN Emitted', Emitted'[i] \in Terminals
          PROVE  i = Len(Emitted')
      <3>1. i \notin 1..Len(Emitted)
        BY <2>6, <2>7, <2>8
      <3> QED
        BY <2>6, <3>1
    <2>9. Emitted' # <<>>
      BY <2>6
    <2>10. Emitted'[Len(Emitted')] = (IF loop_err THEN Err ELSE EOF)'
      BY <2>5, <2>6 DEF e
    <2> QED
      BY <2>1, <2>8, <2>9, <2>10 DEF Looping
  <1>3. CASE ~Send /\ ~EndSend
    <2>1. Emitted' = Emitted
      BY <1>3, OthersEmitNothing
    <2>2. (Left => Left') /\ (~Left => ~Left')
      BY <1>3 DEF Next, OS, Pump, Wait, Kill, Write, CloseStream, Exit, PumpRead, PumpEOF,
                  PumpError, PumpStops, SelectFrame, SelectClosed, SelectKill, KillDone,
                  KillFails, SelectWait, WaitFails, Return, KillStart, KillSend,
                  KillNotRunning, KillGivesUp, TakeFrame, LoopTop, loopVars, vars
    <2>3. Left => UNCHANGED loop_err
      BY <1>3 DEF Next, OS, Pump, Wait, Kill, Write, CloseStream, Exit, PumpRead, PumpEOF,
                  PumpError, PumpStops, SelectFrame, SelectClosed, SelectKill, KillDone,
                  KillFails, SelectWait, WaitFails, Return, KillStart, KillSend,
                  KillNotRunning, KillGivesUp, TakeFrame, LoopTop, loopVars, vars
    <2>4. Left' => ~(Looping \/ pc = "ending")'
      BY DEF Looping
    <2>5. CASE Left
      BY <1>0, <2>1, <2>2, <2>3, <2>4, <2>5
    <2>6. CASE ~Left
      BY <1>0, <2>1, <2>2, <2>6 DEF Terminated
    <2> QED
      BY <2>5, <2>6
  <1> QED
    BY <1>1, <1>2, <1>3

(* A stream is closed by its consume_output task and emptied by wait(): it *)
(* is given up only at its end, or after an error.                         *)
LEMMA StreamStep ==
  ASSUME TypeOK, LoopInv, NEW s \in Streams, StreamInv(s), [Next]_vars
  PROVE  StreamInv(s)'
  <1> USE DEF StreamInv
  <1>k. ASSUME s \in ok' <=> s \in ok, s \in pumps' <=> s \in pumps,
               s \in writers' => s \in writers,
               ch'[s] = ch[s], read'[s] = read[s], written'[s] = written[s],
               loop_err => loop_err'
        PROVE  StreamInv(s)'
    BY <1>k
  <1>d. ch[s] \in Seq(Chunks \union {Err}) /\ read[s] \in Nat /\ written[s] \in Nat
    BY BoundsAssumption DEF TypeOK
  <1>1. ASSUME NEW r \in Streams, Write(r) PROVE StreamInv(s)'
    <2>1. /\ UNCHANGED <<ok, pumps, writers, ch, read, loop_err>>
          /\ r \in writers
          /\ r # s => written'[s] = written[s]
      BY <1>1 DEF Write, pumpVars, loopVars, TypeOK
    <2>2. CASE r = s
      BY <2>1, <2>2
    <2> QED
      BY <1>k, <2>1, <2>2
  <1>2. ASSUME NEW r \in Streams, CloseStream(r) PROVE StreamInv(s)'
    BY <1>2, <1>k DEF CloseStream, pumpVars, loopVars
  <1>3. ASSUME NEW r \in Streams, r # s, Pump(r) PROVE StreamInv(s)'
    <2>1. /\ UNCHANGED <<osVars, ok, loop_err>>
          /\ read'[s] = read[s] /\ ch'[s] = ch[s]
          /\ s \in pumps' <=> s \in pumps
      BY <1>3 DEF Pump, PumpRead, PumpEOF, PumpError, PumpStops, loopVars, TypeOK
    <2> QED
      BY <1>k, <2>1 DEF osVars
  <1>4. CASE PumpRead(s)
    <2> DEFINE e == NextChunk(s)
    <2>1. /\ s \in pumps /\ UNCHANGED <<ok, pumps>>
          /\ ch'[s] = Append(ch[s], e)
      BY <1>4 DEF PumpRead, loopVars, TypeOK
    <2>2. e \in Chunks /\ e # Err
      <3>1. read[s] + 1 \in 1..MaxChunks
        BY <1>4, BoundsAssumption DEF PumpRead, TypeOK
      <3> QED
        BY <3>1, NamesAssumption DEF NextChunk, Chunks
    <2>3. \A i \in DOMAIN ch[s] : ch[s][i] # Err
      BY <2>1
    <2> HIDE DEF e
    <2>4. \A i \in DOMAIN ch'[s] : ch'[s][i] # Err
      BY <1>d, <2>1, <2>2, <2>3, AppendAt
    <2> QED
      BY <2>1, <2>4
  <1>5. CASE PumpEOF(s)
    BY <1>5 DEF PumpEOF, osVars, loopVars
  <1>6. CASE PumpError(s)
    <2>1. /\ s \in pumps /\ s \notin pumps' /\ UNCHANGED ok
          /\ ch'[s] = Append(ch[s], Err)
      BY <1>6 DEF PumpError, loopVars, TypeOK
    <2>2. \A i \in DOMAIN ch[s] : ch[s][i] # Err
      BY <2>1
    <2>3. /\ Len(ch[s]) \in Nat
          /\ Len(ch'[s]) = Len(ch[s]) + 1
          /\ DOMAIN ch[s] = 1..Len(ch[s])
          /\ DOMAIN ch'[s] = 1..(Len(ch[s]) + 1)
          /\ \A i \in 1..Len(ch[s]) : ch'[s][i] = ch[s][i]
          /\ ch'[s][Len(ch[s]) + 1] = Err
      BY <1>d, <2>1, AppendAt
    <2>4. \A i \in DOMAIN ch'[s] : ch'[s][i] = Err => i = Len(ch'[s])
      BY <2>2, <2>3
    <2>5. ~(\A i \in DOMAIN ch'[s] : ch'[s][i] # Err)
      BY <2>3
    <2> QED
      BY <2>1, <2>4, <2>5
  <1>7. CASE PumpStops(s)
    <2>1. /\ pc = "done" /\ s \in pumps
          /\ UNCHANGED <<osVars, read, ch, ok, loop_err>>
      BY <1>7 DEF PumpStops, Alive, loopVars
    <2>2. loop_err
      BY <2>1 DEF LoopInv, Looping
    <2>3. \A i \in DOMAIN ch[s] : ch[s][i] # Err
      BY <2>1
    <2> QED
      BY <2>1, <2>2, <2>3
  <1>8. ASSUME NEW r \in Streams, r # s, SelectFrame(r) \/ SelectClosed(r)
        PROVE  StreamInv(s)'
    <2>1. /\ UNCHANGED <<osVars, read, pumps>>
          /\ ch'[s] = ch[s] /\ (s \in ok' <=> s \in ok)
          /\ loop_err => loop_err'
      BY <1>8 DEF SelectFrame, SelectClosed, TypeOK, pumpVars
    <2> QED
      BY <1>k, <2>1 DEF osVars
  <1>9. CASE SelectFrame(s)
    <2>1. /\ s \in ok /\ ch[s] # <<>> /\ ch'[s] = Tail(ch[s])
          /\ UNCHANGED <<ok, pumps, read, writers, written>>
          /\ Head(ch[s]) = Err => loop_err'
          /\ loop_err => loop_err'
      BY <1>9 DEF SelectFrame, TypeOK, osVars
    <2>2. /\ Head(ch[s]) = ch[s][1]
          /\ Len(ch[s]) \in Nat \ {0}
          /\ DOMAIN ch[s] = 1..Len(ch[s])
          /\ DOMAIN ch'[s] = 1..(Len(ch[s]) - 1)
          /\ Len(ch'[s]) = Len(ch[s]) - 1
          /\ \A i \in 1..(Len(ch[s]) - 1) : ch'[s][i] = ch[s][i + 1]
      BY <1>d, <2>1, HeadTail
    <2>3. \A i \in DOMAIN ch'[s] : ch'[s][i] = Err => i = Len(ch'[s]) /\ s \notin pumps
      <3> SUFFICES ASSUME NEW i \in 1..(Len(ch[s]) - 1), ch[s][i + 1] = Err
                   PROVE  i = Len(ch[s]) - 1 /\ s \notin pumps
        BY <2>2
      <3>1. i + 1 \in DOMAIN ch[s]
        BY <2>2
      <3> QED
        BY <2>2, <3>1
    <2>4. ASSUME ~loop_err', \A i \in DOMAIN ch'[s] : ch'[s][i] # Err
          PROVE  \A i \in DOMAIN ch[s] : ch[s][i] # Err
      <3> SUFFICES ASSUME NEW i \in 1..Len(ch[s]), i # 1 PROVE ch[s][i] # Err
        BY <2>1, <2>2, <2>4
      <3>1. i - 1 \in 1..(Len(ch[s]) - 1) /\ (i - 1) + 1 = i
        BY <2>2
      <3> QED
        BY <2>2, <2>4, <3>1
    <2> QED
      BY <2>1, <2>3, <2>4
  <1>10. CASE SelectClosed(s)
    BY <1>10 DEF SelectClosed, osVars, pumpVars
  <1>11. CASE Send \/ EndSend \/ KillFails \/ WaitFails
    BY <1>11, <1>k DEF Send, EndSend, KillFails, WaitFails, osVars, pumpVars
  <1>12. CASE SelectKill \/ KillDone \/ SelectWait \/ Return
    BY <1>12, <1>k DEF SelectKill, KillDone, SelectWait, Return, pumpVars
  <1>13. ASSUME NEW how \in {"exit", "signal"}, Exit(how) PROVE StreamInv(s)'
    BY <1>13, <1>k DEF Exit, pumpVars, loopVars
  <1>14. ASSUME NEW k \in Killers, Kill(k) PROVE StreamInv(s)'
    BY <1>14, <1>k DEF Kill, KillStart, KillSend, KillNotRunning, KillGivesUp,
                       osVars, pumpVars, loopVars
  <1>15. CASE TakeFrame \/ UNCHANGED vars
    BY <1>15, <1>k DEF TakeFrame, vars, osVars, pumpVars, loopVars
  <1> QED
    BY <1>1, <1>2, <1>3, <1>4, <1>5, <1>6, <1>7, <1>8, <1>9, <1>10, <1>11, <1>12, <1>13,
       <1>14, <1>15 DEF Next, OS, Pump, Wait

(* Chunk n of stream s is <<s, n>>.                                        *)
LEMMA ChunkType ==
  ASSUME NEW e \in Chunks
  PROVE  /\ e = <<e[1], e[2]>> /\ e[1] \in Streams /\ e[2] \in 1..MaxChunks
         /\ e[2] \in Nat /\ e # Err /\ e \notin Terminals
  BY NamesAssumption, BoundsAssumption DEF Chunks, Terminals

(* consume_output sends what it reads, in the order in which it reads.     *)
LEMMA PumpReadKeepsOrder ==
  ASSUME TypeOK, NEW s \in Streams, OrderInv(s), PumpRead(s)
  PROVE  OrderInv(s)'
  <1> DEFINE e == <<s, read[s] + 1>>
             q == ch[s]
  <1>1. /\ ch'[s] = Append(q, e) /\ read'[s] = read[s] + 1
        /\ UNCHANGED <<pc, hand, Emitted>>
    BY DEF PumpRead, NextChunk, loopVars, streamVars, Emitted, TypeOK
  <1>2. /\ q \in Seq(Chunks \union {Err}) /\ read[s] \in Nat
        /\ read[s] + 1 \in 1..MaxChunks
        /\ Emitted \in Seq(Chunks \union Terminals)
        /\ pc = "sending" => hand \in Chunks
    <2>1. read[s] + 1 \in 1..MaxChunks /\ read[s] \in Nat
      BY BoundsAssumption DEF PumpRead, TypeOK
    <2>2. q \in Seq(Chunks \union {Err}) /\ (pc = "sending" => hand \in Chunks)
      BY DEF TypeOK
    <2> QED
      BY <2>1, <2>2, EmittedType
  <1>3. e \in Chunks /\ e # Err /\ e[1] = s /\ e[2] = read[s] + 1
    BY <1>2, NamesAssumption DEF Chunks
  <1> HIDE DEF e
  <1>4. /\ Len(q) \in Nat
        /\ DOMAIN q = 1..Len(q)
        /\ DOMAIN ch'[s] = 1..(Len(q) + 1)
        /\ \A i \in 1..Len(q) : ch'[s][i] = q[i]
        /\ ch'[s][Len(q) + 1] = e
    BY <1>1, <1>2, <1>3, AppendAt
  <1>5. \A i \in DOMAIN q : q[i] # Err =>
          q[i][2] \in Nat /\ q[i][1] = s /\ q[i][2] <= read[s]
    BY <1>2, ChunkType DEF OrderInv
  <1>6. \A i \in DOMAIN ch'[s] : \/ i \in DOMAIN q /\ ch'[s][i] = q[i]
                                 \/ i = Len(q) + 1 /\ ch'[s][i] = e
    BY <1>4
  <1> HIDE DEF q
  <1>7. \A i \in DOMAIN ch'[s] : ch'[s][i] # Err =>
          ch'[s][i][1] = s /\ ch'[s][i][2] <= read'[s]
    BY <1>1, <1>2, <1>3, <1>5, <1>6
  <1>8. \A i, j \in DOMAIN ch'[s] :
          i < j /\ ch'[s][i] # Err /\ ch'[s][j] # Err => ch'[s][i][2] < ch'[s][j][2]
    <2> SUFFICES ASSUME NEW i \in DOMAIN ch'[s], NEW j \in DOMAIN ch'[s], i < j,
                        ch'[s][i] # Err, ch'[s][j] # Err
                 PROVE  ch'[s][i][2] < ch'[s][j][2]
      OBVIOUS
    <2>1. i \in DOMAIN q /\ ch'[s][i] = q[i]
      BY <1>4, <1>6
    <2>2. CASE j \in DOMAIN q /\ ch'[s][j] = q[j]
      BY <2>1, <2>2 DEF OrderInv, q
    <2>3. CASE j = Len(q) + 1 /\ ch'[s][j] = e
      BY <1>2, <1>3, <1>5, <2>1, <2>3
    <2> QED
      BY <1>6, <2>2, <2>3
  <1>9. ASSUME pc = "sending", hand[1] = s
        PROVE  /\ hand[2] <= read'[s]
               /\ \A i \in DOMAIN ch'[s] : ch'[s][i] # Err => hand[2] < ch'[s][i][2]
    <2>1. hand[2] \in Nat /\ hand[2] <= read[s]
      BY <1>2, <1>9, ChunkType DEF OrderInv
    <2>2. \A i \in DOMAIN q : q[i] # Err => hand[2] < q[i][2]
      BY <1>9 DEF OrderInv, q
    <2> QED
      BY <1>1, <1>2, <1>3, <1>6, <2>1, <2>2
  <1>10. ASSUME NEW i \in DOMAIN Emitted, NEW n \in 1..MaxChunks, Emitted[i] = <<s, n>>
         PROVE  /\ n <= read'[s]
                /\ pc = "sending" /\ hand[1] = s => n < hand[2]
                /\ \A j \in DOMAIN ch'[s] : ch'[s][j] # Err => n < ch'[s][j][2]
    <2>1. /\ n <= read[s]
          /\ pc = "sending" /\ hand[1] = s => n < hand[2]
          /\ \A j \in DOMAIN q : q[j] # Err => n < q[j][2]
      BY <1>10 DEF OrderInv, q
    <2>2. n \in Nat
      BY BoundsAssumption
    <2> QED
      BY <1>1, <1>2, <1>3, <1>6, <2>1, <2>2
  <1> QED
    BY <1>1, <1>7, <1>8, <1>9, <1>10 DEF OrderInv

(* wait() takes the oldest chunk of a stream in hand.                      *)
LEMMA SelectFrameKeepsOrder ==
  ASSUME TypeOK, NEW s \in Streams, NEW r \in Streams, OrderInv(s), OrderInv(r),
         SelectFrame(r)
  PROVE  OrderInv(s)'
  <1> DEFINE q == ch[r]
  <1>1. /\ pc = "select" /\ UNCHANGED <<read, Emitted>>
        /\ q # <<>>
        /\ ch' = [ch EXCEPT ![r] = Tail(q)]
        /\ pc' = "sending" => hand' = Head(q) /\ Head(q) # Err
    BY DEF SelectFrame, pumpVars, streamVars, Emitted
  <1>2. /\ ch \in [Streams -> Seq(Chunks \union {Err})]
        /\ q \in Seq(Chunks \union {Err})
        /\ read[s] \in Nat
    BY BoundsAssumption DEF TypeOK
  <1>3. /\ Head(q) = q[1]
        /\ Len(q) \in Nat \ {0}
        /\ DOMAIN q = 1..Len(q)
        /\ DOMAIN Tail(q) = 1..(Len(q) - 1)
        /\ \A i \in 1..(Len(q) - 1) : Tail(q)[i] = q[i + 1]
    BY <1>1, <1>2, HeadTail
  <1>4. 1 \in DOMAIN q
    BY <1>3
  <1>5. pc' = "sending" => /\ hand' = q[1] /\ q[1] # Err /\ hand'[1] = r
                           /\ hand'[2] <= read[r]
    BY <1>1, <1>3, <1>4 DEF OrderInv
  <1>6. CASE r # s
    <2>1. ch'[s] = ch[s]
      BY <1>1, <1>2, <1>6
    <2>2. pc' = "sending" => hand'[1] # s
      BY <1>5, <1>6
    <2> QED
      BY <1>1, <2>1, <2>2 DEF OrderInv
  <1>7. CASE r = s
    <2>1. ch'[s] = Tail(q)
      BY <1>1, <1>2, <1>7
    <2>2. \A i \in DOMAIN ch'[s] : /\ i \in Nat \ {0} /\ i + 1 \in DOMAIN q
                                   /\ ch'[s][i] = q[i + 1]
      BY <1>3, <2>1
    <2> HIDE DEF q
    <2>3. q = ch[s]
      BY <1>7 DEF q
    <2>4. \A i \in DOMAIN ch'[s] : ch'[s][i] # Err =>
            ch'[s][i][1] = s /\ ch'[s][i][2] <= read'[s]
      BY <1>1, <2>2, <2>3 DEF OrderInv
    <2>5. \A i, j \in DOMAIN ch'[s] :
            i < j /\ ch'[s][i] # Err /\ ch'[s][j] # Err => ch'[s][i][2] < ch'[s][j][2]
      <3> SUFFICES ASSUME NEW i \in DOMAIN ch'[s], NEW j \in DOMAIN ch'[s], i < j,
                          ch'[s][i] # Err, ch'[s][j] # Err
                   PROVE  ch'[s][i][2] < ch'[s][j][2]
        OBVIOUS
      <3>1. i + 1 < j + 1
        BY <2>2
      <3> QED
        BY <2>2, <2>3, <3>1 DEF OrderInv
    <2>6. ASSUME pc' = "sending"
          PROVE  \A i \in DOMAIN ch'[s] : ch'[s][i] # Err => hand'[2] < ch'[s][i][2]
      <3> SUFFICES ASSUME NEW i \in DOMAIN ch'[s], ch'[s][i] # Err
                   PROVE  hand'[2] < ch'[s][i][2]
        OBVIOUS
      <3>1. 1 < i + 1
        BY <2>2
      <3> QED
        BY <1>4, <1>5, <2>2, <2>3, <2>6, <3>1 DEF OrderInv
    <2>7. ASSUME NEW i \in DOMAIN Emitted, NEW n \in 1..MaxChunks, Emitted[i] = <<s, n>>
          PROVE  /\ n <= read[s]
                 /\ pc' = "sending" => n < hand'[2]
                 /\ \A j \in DOMAIN ch'[s] : ch'[s][j] # Err => n < ch'[s][j][2]
      BY <1>4, <1>5, <2>2, <2>3, <2>7 DEF OrderInv
    <2> QED
      BY <1>1, <1>5, <1>7, <2>4, <2>5, <2>6, <2>7 DEF OrderInv
  <1> QED
    BY <1>6, <1>7

(* What wait() sends comes after all the log holds of its stream.          *)
LEMMA SendKeepsOrder ==
  ASSUME TypeOK, NEW s \in Streams, OrderInv(s), Send
  PROVE  OrderInv(s)'
  <1>1. /\ pc = "sending" /\ pc' = "select" /\ UNCHANGED <<ch, read>>
        /\ Emitted' = Append(Emitted, hand) /\ hand \in Chunks
        /\ Emitted \in Seq(Chunks \union Terminals)
    BY SendEmits, EmittedType DEF Send, pumpVars
  <1>2. \A i \in DOMAIN Emitted' :
          \/ i \in DOMAIN Emitted /\ Emitted'[i] = Emitted[i]
          \/ Emitted'[i] = hand
    BY <1>1
  <1>3. ASSUME NEW i \in DOMAIN Emitted', NEW n \in 1..MaxChunks, Emitted'[i] = <<s, n>>
        PROVE  /\ n <= read[s]
               /\ \A j \in DOMAIN ch[s] : ch[s][j] # Err => n < ch[s][j][2]
    <2>1. CASE i \in DOMAIN Emitted /\ Emitted'[i] = Emitted[i]
      BY <1>3, <2>1 DEF OrderInv
    <2>2. CASE Emitted'[i] = hand
      <3>1. hand[1] = s /\ hand[2] = n
        BY <1>3, <2>2
      <3> QED
        BY <1>1, <3>1 DEF OrderInv
    <2> QED
      BY <1>2, <2>1, <2>2
  <1> QED
    BY <1>1, <1>3 DEF OrderInv

(* The terminal event is no chunk of a stream.                             *)
LEMMA EndSendKeepsOrder ==
  ASSUME TypeOK, NEW s \in Streams, OrderInv(s), EndSend
  PROVE  OrderInv(s)'
  <1> DEFINE e == IF loop_err THEN Err ELSE EOF
  <1>1. /\ pc' = "recording" /\ UNCHANGED <<ch, read>>
        /\ Emitted' = Append(Emitted, e)
        /\ Emitted \in Seq(Chunks \union Terminals)
    BY EndSendEmits, EmittedType DEF EndSend, pumpVars
  <1>2. e \in Terminals /\ \A n \in 1..MaxChunks : e # <<s, n>>
    BY NamesAssumption DEF Terminals, Chunks
  <1> HIDE DEF e
  <1>3. \A i \in DOMAIN Emitted' :
          \/ i \in DOMAIN Emitted /\ Emitted'[i] = Emitted[i]
          \/ Emitted'[i] = e
    BY <1>1, <1>2
  <1>4. \A i \in DOMAIN Emitted', n \in 1..MaxChunks : Emitted'[i] = <<s, n>> =>
          i \in DOMAIN Emitted /\ Emitted[i] = <<s, n>>
    BY <1>2, <1>3
  <1> QED
    BY <1>1, <1>4 DEF OrderInv

LEMMA OrderStep ==
  ASSUME TypeOK, NEW s \in Streams, \A r \in Streams : OrderInv(r), [Next]_vars
  PROVE  OrderInv(s)'
  <1>k. ASSUME ch'[s] = ch[s], read'[s] = read[s], Emitted' = Emitted,
               pc' = "sending" => pc = "sending" /\ hand' = hand
        PROVE  OrderInv(s)'
    BY <1>k DEF OrderInv
  <1>1. CASE PumpRead(s)
    BY <1>1, PumpReadKeepsOrder
  <1>2. ASSUME NEW r \in Streams, SelectFrame(r) PROVE OrderInv(s)'
    BY <1>2, SelectFrameKeepsOrder
  <1>3. CASE Send
    BY <1>3, SendKeepsOrder
  <1>4. CASE EndSend
    BY <1>4, EndSendKeepsOrder
  <1>5. CASE PumpError(s)
    <2>1. /\ ch'[s] = Append(ch[s], Err) /\ read' = read
          /\ UNCHANGED <<pc, hand, Emitted>>
          /\ ch[s] \in Seq(Chunks \union {Err})
      BY <1>5 DEF PumpError, loopVars, streamVars, Emitted, TypeOK
    <2>2. \A i \in DOMAIN ch'[s] : ch'[s][i] # Err =>
            i \in DOMAIN ch[s] /\ ch'[s][i] = ch[s][i]
      BY <2>1
    <2> QED
      BY <2>1, <2>2 DEF OrderInv
  <1>6. ASSUME NEW r \in Streams, r # s, Pump(r) PROVE OrderInv(s)'
    <2>1. ch'[s] = ch[s] /\ read'[s] = read[s] /\ UNCHANGED <<loopVars, streamVars>>
      BY <1>6 DEF Pump, PumpRead, PumpEOF, PumpError, PumpStops, TypeOK
    <2> QED
      BY <1>k, <2>1 DEF loopVars, streamVars, Emitted
  <1>7. CASE PumpEOF(s) \/ PumpStops(s)
    BY <1>7, <1>k DEF PumpEOF, PumpStops, loopVars, streamVars, Emitted
  <1>8. ASSUME NEW r \in Streams, Write(r) \/ CloseStream(r) PROVE OrderInv(s)'
    BY <1>8, <1>k DEF Write, CloseStream, pumpVars, loopVars, streamVars, Emitted
  <1>9. ASSUME NEW r \in Streams, SelectClosed(r) PROVE OrderInv(s)'
    BY <1>9, <1>k DEF SelectClosed, LoopTop, pumpVars, streamVars, Emitted
  <1>10. CASE SelectKill \/ KillDone \/ KillFails \/ WaitFails \/ Return
    BY <1>10, <1>k DEF SelectKill, KillDone, KillFails, WaitFails, Return, pumpVars,
                       streamVars, Emitted
  <1>11. CASE SelectWait
    BY <1>11, <1>k DEF SelectWait, LoopTop, pumpVars, streamVars, Emitted
  <1>12. ASSUME NEW how \in {"exit", "signal"}, Exit(how) PROVE OrderInv(s)'
    BY <1>12, <1>k DEF Exit, pumpVars, loopVars, streamVars, Emitted
  <1>13. ASSUME NEW k \in Killers, Kill(k) PROVE OrderInv(s)'
    BY <1>13, <1>k DEF Kill, KillStart, KillSend, KillNotRunning, KillGivesUp, pumpVars,
                       loopVars, streamVars, Emitted
  <1>14. CASE TakeFrame
    BY <1>14, <1>k, TakeFrameEmits DEF TakeFrame, pumpVars, loopVars
  <1>15. CASE UNCHANGED vars
    BY <1>15, <1>k DEF vars, pumpVars, loopVars, streamVars, Emitted
  <1> QED
    BY <1>1, <1>2, <1>3, <1>4, <1>5, <1>6, <1>7, <1>8, <1>9, <1>10, <1>11, <1>12, <1>13,
       <1>14, <1>15 DEF Next, OS, Pump, Wait

(* The three parts of OutputInOrder.                                       *)
Ordered == \A i, j \in DOMAIN Emitted, s \in Streams, m, n \in 1..MaxChunks :
             i < j /\ Emitted[i] = <<s, m>> /\ Emitted[j] = <<s, n>> => m < n
Gapless == \A i \in DOMAIN Emitted, s \in Streams, n \in 1..MaxChunks :
             Emitted[i] = <<s, n>> => \A m \in 1..(n - 1) : IsLogged(<<s, m>>)
Kept(s) == \A n \in 1..read[s] : \/ IsLogged(<<s, n>>)
                                 \/ pc = "sending" /\ hand = <<s, n>>
                                 \/ \E i \in DOMAIN ch[s] : ch[s][i] = <<s, n>>
                                 \/ loop_err

LEMMA OutputParts == OutputInOrder <=> Ordered /\ Gapless /\ \A s \in Streams : Kept(s)
  BY DEF OutputInOrder, Ordered, Gapless, Kept

(* The log grows by what comes after it in its stream.                     *)
LEMMA OrderedStep ==
  ASSUME TypeOK, \A s \in Streams : OrderInv(s), Ordered, [Next]_vars
  PROVE  Ordered'
  <1>a. ASSUME NEW e \in Chunks \union Terminals, Emitted' = Append(Emitted, e),
               \A s \in Streams, m, n \in 1..MaxChunks, i \in DOMAIN Emitted :
                 Emitted[i] = <<s, m>> /\ e = <<s, n>> => m < n
        PROVE  Ordered'
    <2>1. /\ Len(Emitted) \in Nat
          /\ DOMAIN Emitted = 1..Len(Emitted)
          /\ DOMAIN Emitted' = 1..(Len(Emitted) + 1)
          /\ \A i \in 1..Len(Emitted) : Emitted'[i] = Emitted[i]
          /\ Emitted'[Len(Emitted) + 1] = e
      BY <1>a, EmittedType, AppendAt
    <2> SUFFICES ASSUME NEW i \in DOMAIN Emitted', NEW j \in DOMAIN Emitted', i < j,
                        NEW s \in Streams, NEW m \in 1..MaxChunks, NEW n \in 1..MaxChunks,
                        Emitted'[i] = <<s, m>>, Emitted'[j] = <<s, n>>
                 PROVE  m < n
      BY DEF Ordered
    <2>2. i \in DOMAIN Emitted /\ Emitted[i] = <<s, m>>
      BY <2>1
    <2>3. CASE j \in DOMAIN Emitted
      <3>1. Emitted[j] = <<s, n>>
        BY <2>1, <2>3
      <3> QED
        BY <2>2, <2>3, <3>1 DEF Ordered
    <2>4. CASE j \notin DOMAIN Emitted
      <3>1. e = <<s, n>>
        <4>1. j = Len(Emitted) + 1
          BY <2>1, <2>4
        <4> QED
          BY <2>1, <4>1
      <3> QED
        BY <1>a, <2>2, <3>1
    <2> QED
      BY <2>3, <2>4
  <1>1. CASE Send
    <2>1. pc = "sending" /\ Emitted' = Append(Emitted, hand) /\ hand \in Chunks
      BY <1>1, SendEmits DEF Send
    <2>2. ASSUME NEW s \in Streams, NEW m \in 1..MaxChunks, NEW n \in 1..MaxChunks,
                 NEW i \in DOMAIN Emitted, Emitted[i] = <<s, m>>, hand = <<s, n>>
          PROVE  m < n
      <3>1. hand[1] = s /\ hand[2] = n
        BY <2>2
      <3> QED
        BY <2>1, <2>2, <3>1 DEF OrderInv
    <2> QED
      BY <1>a, <2>1, <2>2
  <1>2. CASE EndSend
    <2> DEFINE e == IF loop_err THEN Err ELSE EOF
    <2>1. Emitted' = Append(Emitted, e)
      BY <1>2, EndSendEmits
    <2>2. e \in Terminals /\ \A s \in Streams, n \in 1..MaxChunks : e # <<s, n>>
      BY NamesAssumption DEF Terminals, Chunks
    <2> HIDE DEF e
    <2> QED
      BY <1>a, <2>1, <2>2
  <1>3. CASE ~Send /\ ~EndSend
    BY <1>3, OthersEmitNothing DEF Ordered
  <1> QED
    BY <1>1, <1>2, <1>3

(* Nothing is taken out of the log.                                        *)
LEMMA LoggedStays ==
  ASSUME TypeOK, [Next]_vars
  PROVE  \A x : IsLogged(x) => IsLogged(x)'
  <1>1. CASE Send
    BY <1>1, SendEmits, EmittedType, AppendAt DEF IsLogged
  <1>2. CASE EndSend
    <2> DEFINE e == IF loop_err THEN Err ELSE EOF
    <2>1. Emitted' = Append(Emitted, e) /\ e \in Chunks \union Terminals
      BY <1>2, EndSendEmits DEF Terminals
    <2> HIDE DEF e
    <2> QED
      BY <2>1, EmittedType, AppendAt DEF IsLogged
  <1> QED
    BY <1>1, <1>2, OthersEmitNothing DEF IsLogged

(* All that was read before the chunk in hand is logged before it.         *)
LEMMA GaplessStep ==
  ASSUME TypeOK, LoopInv, Gapless, [Next]_vars,
         \A s \in Streams : OrderInv(s) /\ Kept(s)
  PROVE  Gapless'
  <1>e. \A x : IsLogged(x) => IsLogged(x)'
    BY LoggedStays
  <1>a. ASSUME NEW e \in Chunks \union Terminals, Emitted' = Append(Emitted, e),
               \A s \in Streams, n \in 1..MaxChunks :
                 e = <<s, n>> => \A m \in 1..(n - 1) : IsLogged(<<s, m>>)
        PROVE  Gapless'
    <2>1. \A i \in DOMAIN Emitted' : \/ i \in DOMAIN Emitted /\ Emitted'[i] = Emitted[i]
                                     \/ Emitted'[i] = e
      BY <1>a, EmittedType, AppendAt
    <2>2. ASSUME NEW i \in DOMAIN Emitted', NEW s \in Streams, NEW n \in 1..MaxChunks,
                 Emitted'[i] = <<s, n>>, NEW m \in 1..(n - 1)
          PROVE  IsLogged(<<s, m>>)'
      <3>1. IsLogged(<<s, m>>)
        BY <1>a, <2>1, <2>2 DEF Gapless
      <3> QED
        BY <1>e, <3>1
    <2> QED
      BY <2>2 DEF Gapless
  <1>1. CASE Send
    <2>1. pc = "sending" /\ Emitted' = Append(Emitted, hand) /\ hand \in Chunks
      BY <1>1, SendEmits DEF Send
    <2>2. ASSUME NEW s \in Streams, NEW n \in 1..MaxChunks, hand = <<s, n>>,
                 NEW m \in 1..(n - 1)
          PROVE  IsLogged(<<s, m>>)
      <3>1. hand[1] = s /\ hand[2] = n /\ m < n /\ hand # <<s, m>>
        BY <2>2
      <3>2. n <= read[s] /\ \A i \in DOMAIN ch[s] : ch[s][i] # Err => n < ch[s][i][2]
        BY <2>1, <3>1 DEF OrderInv
      <3>3. m \in 1..read[s] /\ m \in 1..MaxChunks
        BY <3>2, BoundsAssumption DEF TypeOK
      <3>4. \A i \in DOMAIN ch[s] : ch[s][i] # <<s, m>>
        <4>1. <<s, m>> # Err /\ <<s, m>>[2] = m
          BY <3>3, NamesAssumption DEF Chunks
        <4> QED
          BY <3>2, <4>1
      <3>5. ~loop_err
        BY <2>1 DEF LoopInv, Looping
      <3> QED
        BY <3>1, <3>3, <3>4, <3>5 DEF Kept
    <2> QED
      BY <1>a, <2>1, <2>2
  <1>2. CASE EndSend
    <2> DEFINE e == IF loop_err THEN Err ELSE EOF
    <2>1. Emitted' = Append(Emitted, e)
      BY <1>2, EndSendEmits
    <2>2. e \in Terminals /\ \A s \in Streams, n \in 1..MaxChunks : e # <<s, n>>
      BY NamesAssumption DEF Terminals, Chunks
    <2> HIDE DEF e
    <2> QED
      BY <1>a, <2>1, <2>2
  <1>3. CASE ~Send /\ ~EndSend
    <2>1. Emitted' = Emitted
      BY <1>3, OthersEmitNothing
    <2> QED
      BY <1>e, <2>1 DEF Gapless
  <1> QED
    BY <1>1, <1>2, <1>3

(* What has been read is on its way to the log or in it.                   *)
LEMMA KeptStep ==
  ASSUME TypeOK, NEW s \in Streams, Kept(s), [Next]_vars
  PROVE  Kept(s)'
  <1>e. \A x : IsLogged(x) => IsLogged(x)'
    BY LoggedStays
  <1>k. ASSUME ch'[s] = ch[s], read'[s] = read[s], loop_err => loop_err',
               pc = "sending" => pc' = "sending" /\ hand' = hand
        PROVE  Kept(s)'
    BY <1>e, <1>k DEF Kept
  <1>d. ch[s] \in Seq(Chunks \union {Err}) /\ read[s] \in Nat
    BY BoundsAssumption DEF TypeOK
  <1>1. CASE PumpRead(s)
    <2> DEFINE e == <<s, read[s] + 1>>
    <2>1. /\ ch'[s] = Append(ch[s], e) /\ read'[s] = read[s] + 1
          /\ UNCHANGED <<pc, hand, loop_err>>
      BY <1>1 DEF PumpRead, NextChunk, loopVars, TypeOK
    <2>2. e \in Chunks
      <3>1. read[s] + 1 \in 1..MaxChunks
        BY <1>1, BoundsAssumption DEF PumpRead, TypeOK
      <3> QED
        BY <3>1 DEF Chunks
    <2> HIDE DEF e
    <2>3. /\ \A i \in DOMAIN ch[s] : i \in DOMAIN ch'[s] /\ ch'[s][i] = ch[s][i]
          /\ \E i \in DOMAIN ch'[s] : ch'[s][i] = e
      BY <1>d, <2>1, <2>2, AppendAt
    <2>4. \A n \in 1..read'[s] : n \in 1..read[s] \/ <<s, n>> = e
      BY <1>d, <2>1 DEF e
    <2>5. \A n \in 1..read[s] : \/ IsLogged(<<s, n>>)'
                                \/ pc' = "sending" /\ hand' = <<s, n>>
                                \/ \E i \in DOMAIN ch'[s] : ch'[s][i] = <<s, n>>
                                \/ loop_err'
      BY <1>e, <2>1, <2>3 DEF Kept
    <2> QED
      BY <2>3, <2>4, <2>5 DEF Kept
  <1>2. CASE PumpError(s)
    <2>1. /\ ch'[s] = Append(ch[s], Err) /\ read' = read
          /\ UNCHANGED <<pc, hand, loop_err>>
      BY <1>2 DEF PumpError, loopVars, TypeOK
    <2>2. \A i \in DOMAIN ch[s] : i \in DOMAIN ch'[s] /\ ch'[s][i] = ch[s][i]
      BY <1>d, <2>1, AppendAt
    <2> QED
      BY <1>e, <2>1, <2>2 DEF Kept
  <1>3. CASE PumpEOF(s) \/ PumpStops(s)
    BY <1>3, <1>k DEF PumpEOF, PumpStops, loopVars
  <1>4. ASSUME NEW r \in Streams, r # s, Pump(r) PROVE Kept(s)'
    <2>1. ch'[s] = ch[s] /\ read'[s] = read[s] /\ UNCHANGED loopVars
      BY <1>4 DEF Pump, PumpRead, PumpEOF, PumpError, PumpStops, TypeOK
    <2> QED
      BY <1>k, <2>1 DEF loopVars
  <1>5. CASE SelectFrame(s)
    <2> DEFINE q == ch[s]
    <2>1. /\ pc = "select" /\ UNCHANGED read
          /\ q # <<>> /\ ch'[s] = Tail(q)
          /\ loop_err => loop_err'
          /\ Head(q) = Err => loop_err'
          /\ Head(q) # Err => pc' = "sending" /\ hand' = Head(q)
      BY <1>5 DEF SelectFrame, pumpVars, TypeOK
    <2>2. /\ Head(q) = q[1]
          /\ Len(q) \in Nat \ {0}
          /\ DOMAIN q = 1..Len(q)
          /\ DOMAIN ch'[s] = 1..(Len(q) - 1)
          /\ \A i \in 1..(Len(q) - 1) : ch'[s][i] = q[i + 1]
      BY <1>d, <2>1, HeadTail
    <2>3. \A i \in DOMAIN q : i = 1 \/ \E j \in DOMAIN ch'[s] : ch'[s][j] = q[i]
      <3> SUFFICES ASSUME NEW i \in 1..Len(q), i # 1
                   PROVE  \E j \in 1..(Len(q) - 1) : ch'[s][j] = q[i]
        BY <2>2
      <3>1. i - 1 \in 1..(Len(q) - 1) /\ (i - 1) + 1 = i
        BY <2>2
      <3> QED
        BY <2>2, <3>1
    <2> HIDE DEF q
    <2> SUFFICES ASSUME NEW n \in 1..read[s], ~loop_err', ~IsLogged(<<s, n>>)',
                        ~\E j \in DOMAIN ch'[s] : ch'[s][j] = <<s, n>>
                 PROVE  pc' = "sending" /\ hand' = <<s, n>>
      BY <2>1 DEF Kept
    <2>4. PICK i \in DOMAIN q : q[i] = <<s, n>>
      BY <1>e, <2>1 DEF q, Kept
    <2>5. Head(q) = <<s, n>>
      BY <2>2, <2>3, <2>4
    <2> QED
      BY <2>1, <2>5
  <1>6. ASSUME NEW r \in Streams, r # s, SelectFrame(r) PROVE Kept(s)'
    BY <1>6, <1>k DEF SelectFrame, pumpVars, TypeOK
  <1>7. CASE Send
    <2>1. /\ UNCHANGED <<ch, read, loop_err>>
          /\ IsLogged(hand)'
      <3>1. UNCHANGED <<ch, read, loop_err>>
        BY <1>7 DEF Send, pumpVars
      <3>2. Len(Emitted) + 1 \in DOMAIN Emitted' /\ Emitted'[Len(Emitted) + 1] = hand
        BY <1>7, SendEmits, EmittedType, AppendAt
      <3>3. hand' = hand
        BY <1>7 DEF Send
      <3> QED
        BY <3>1, <3>2, <3>3 DEF IsLogged
    <2>2. hand' = hand
      BY <1>7 DEF Send
    <2> QED
      BY <1>e, <2>1, <2>2 DEF Kept
  <1>8. ASSUME NEW r \in Streams, Write(r) \/ CloseStream(r) PROVE Kept(s)'
    BY <1>8, <1>k DEF Write, CloseStream, pumpVars, loopVars
  <1>9. ASSUME NEW r \in Streams, SelectClosed(r) PROVE Kept(s)'
    BY <1>9, <1>k DEF SelectClosed, pumpVars
  <1>10. CASE SelectKill \/ KillDone \/ KillFails \/ SelectWait \/ WaitFails \/ EndSend \/ Return
    <2>1. UNCHANGED <<ch, read>> /\ pc # "sending"
      BY <1>10 DEF SelectKill, KillDone, KillFails, SelectWait, WaitFails, EndSend, Return,
                   pumpVars
    <2>2. loop_err => loop_err'
      BY <1>10 DEF SelectKill, KillDone, KillFails, SelectWait, WaitFails, EndSend, Return
    <2> QED
      BY <1>k, <2>1, <2>2
  <1>11. ASSUME NEW how \in {"exit", "signal"}, Exit(how) PROVE Kept(s)'
    BY <1>11, <1>k DEF Exit, pumpVars, loopVars
  <1>12. ASSUME NEW k \in Killers, Kill(k) PROVE Kept(s)'
    BY <1>12, <1>k DEF Kill, KillStart, KillSend, KillNotRunning, KillGivesUp, pumpVars,
                       loopVars
  <1>13. CASE TakeFrame \/ UNCHANGED vars
    BY <1>13, <1>k DEF TakeFrame, vars, pumpVars, loopVars
  <1> QED
    BY <1>1, <1>2, <1>3, <1>4, <1>5, <1>6, <1>7, <1>8, <1>9, <1>10, <1>11, <1>12, <1>13
       DEF Next, OS, Pump, Wait

-----------------------------------------------------------------------------
(* The theorems.                                                           *)

LEMMA TrackerInit == Init => TrackerInv
  <1> SUFFICES ASSUME Init PROVE TrackerInv
    OBVIOUS
  <1>1. Emitted = <<>> /\ DOMAIN Emitted = {}
    BY DEF Init, Spawned, Emitted
  <1>2. ChildInv /\ LoopInv
    BY DEF Init, Spawned, ChildInv, LoopInv, Started, Looping
  <1>3. RequestInv /\ WaitInv
    BY NamesAssumption DEF Init, Spawned, RequestInv, WaitInv, Started
  <1>4. TerminalInv
    BY <1>1 DEF Init, Spawned, TerminalInv, Terminated, Looping
  <1>5. \A s \in Streams : StreamInv(s) /\ OrderInv(s)
    BY <1>1 DEF Init, Spawned, StreamInv, OrderInv
  <1>6. OutputInOrder
    BY <1>1 DEF Init, Spawned, OutputInOrder
  <1>7. KillOkMeansDead
    BY DEF Init, Spawned, KillOkMeansDead
  <1> QED
    BY <1>2, <1>3, <1>4, <1>5, <1>6, <1>7 DEF TrackerInv

LEMMA TrackerStep ==
  ASSUME TypeOK, TrackerInv, [Next]_vars
  PROVE  TypeOK' /\ TrackerInv'
  <1>1. TypeOK' /\ ChildInv' /\ LoopInv' /\ RequestInv' /\ WaitInv' /\ TerminalInv' /\ KillOkMeansDead'
    BY TypeStep, ChildStep, LoopStep, RequestStep, WaitStep, TerminalStep, AnswerStep DEF TrackerInv
  <1>2. \A s \in Streams : StreamInv(s)' /\ OrderInv(s)'
    BY StreamStep, OrderStep DEF TrackerInv
  <1>3. Ordered' /\ Gapless' /\ \A s \in Streams : Kept(s)'
    BY OrderedStep, GaplessStep, KeptStep, OutputParts DEF TrackerInv
  <1>4. OutputInOrder'
    BY <1>3 DEF OutputInOrder, Ordered, Gapless, Kept
  <1> QED
    BY <1>1, <1>2, <1>4 DEF TrackerInv

(* Every part of TrackerInv holds in every state of wait(), consume_output *)
(* and kill().                                                             *)
THEOREM TrackerInvariant == Spec => []IndInv
  <1>1. Init => IndInv
    BY TypeInit, TrackerInit DEF IndInv
  <1>2. IndInv /\ [Next]_vars => IndInv'
    BY TrackerStep DEF IndInv
  <1> QED
    BY <1>1, <1>2, PTL DEF Spec

(* The select loop of wait() loses, repeats and reorders no output.        *)
THEOREM OutputIsInOrder == Spec => []OutputInOrder
  <1>1. IndInv => OutputInOrder
    BY DEF IndInv, TrackerInv
  <1> QED
    BY <1>1, TrackerInvariant, PTL DEF IndInv

(* kill() returns Ok for a child that is dead and names its killer.        *)
THEOREM KillOkIsTrue == Spec => []KillOkMeansDead
  <1>1. IndInv => KillOkMeansDead
    BY DEF IndInv, TrackerInv
  <1> QED
    BY <1>1, TrackerInvariant, PTL DEF IndInv

(* wait() leaves an EOF only when everything that was ever written is in   *)
(* the log and the job is settled.                                         *)
THEOREM EOFIsComplete == Spec => []EOFMeansComplete
  <1>1. TypeOK /\ TrackerInv => EOFMeansComplete
    <2> SUFFICES ASSUME TypeOK, TrackerInv, IsLogged(EOF)
                 PROVE  /\ job.state = "exited" /\ writers = {}
                        /\ \A s \in Streams : \A n \in 1..written[s] : IsLogged(<<s, n>>)
      BY DEF EOFMeansComplete
    <2>1. ~Looping /\ ~loop_err
      <3>1. PICK i \in DOMAIN Emitted : Emitted[i] = EOF
        BY DEF IsLogged
      <3>2. Terminated
        BY <3>1 DEF Terminated, Terminals
      <3>3. pc \in {"recording", "done"}
        BY <3>2 DEF TrackerInv, TerminalInv, TypeOK, Looping
      <3>4. i = Len(Emitted)
        BY <3>1, <3>3 DEF TrackerInv, TerminalInv, Terminals
      <3>5. ~loop_err
        BY <3>1, <3>3, <3>4, NamesAssumption DEF TrackerInv, TerminalInv
      <3> QED
        BY <3>3, <3>5 DEF Looping
    <2>2. ~child_ok /\ ok = {}
      BY <2>1 DEF TrackerInv, LoopInv
    <2>3. job.state = "exited"
      BY <2>1, <2>2 DEF TrackerInv, ChildInv
    <2>4. \A s \in Streams : ch[s] = <<>> /\ s \notin writers /\ read[s] = written[s]
      <3> SUFFICES ASSUME NEW s \in Streams
                   PROVE  ch[s] = <<>> /\ s \notin writers /\ read[s] = written[s]
        OBVIOUS
      <3>1. StreamInv(s)
        BY DEF TrackerInv
      <3>2. ch[s] = <<>> /\ s \notin pumps
        BY <2>2, <3>1 DEF StreamInv
      <3>3. \A i \in DOMAIN ch[s] : ch[s][i] # Err
        BY <3>2
      <3> QED
        BY <2>1, <3>1, <3>2, <3>3 DEF StreamInv
    <2>5. writers = {}
      BY <2>4 DEF TypeOK
    <2>6. pc # "sending"
      BY <2>1 DEF Looping
    <2>7. ASSUME NEW s \in Streams, NEW n \in 1..written[s] PROVE IsLogged(<<s, n>>)
      <3>1. Kept(s)
        BY OutputParts DEF TrackerInv
      <3>2. n \in 1..read[s] /\ DOMAIN ch[s] = {}
        BY <2>4, <2>7
      <3> QED
        BY <2>1, <2>6, <3>1, <3>2 DEF Kept
    <2> QED
      BY <2>3, <2>5, <2>7
  <1> QED
    BY <1>1, TrackerInvariant, PTL DEF IndInv

(* The terminal event is the last one of a job, and none is missing.       *)
THEOREM TerminalEventSealsTheLog == Spec => []TerminalEventIsLast
  <1>1. TypeOK /\ TrackerInv => TerminalEventIsLast
    <2> SUFFICES ASSUME TypeOK, TrackerInv PROVE TerminalEventIsLast
      OBVIOUS
    <2>1. CASE pc \in {"recording", "done"}
      <3>1. /\ Emitted # <<>>
            /\ Emitted[Len(Emitted)] \in Terminals
            /\ \A i \in DOMAIN Emitted : Emitted[i] \in Terminals => i = Len(Emitted)
        BY <2>1 DEF TrackerInv, TerminalInv, Terminals
      <3>2. Len(Emitted) \in DOMAIN Emitted
        BY <3>1, EmittedType
      <3> QED
        BY <3>1, <3>2 DEF TerminalEventIsLast, Terminated
    <2>2. CASE pc \notin {"recording", "done"}
      <3>1. ~Terminated
        BY <2>2 DEF TrackerInv, TerminalInv, TypeOK, Looping
      <3> QED
        BY <2>2, <3>1 DEF TerminalEventIsLast, Terminated
    <2> QED
      BY <2>1, <2>2
  <1> QED
    BY <1>1, TrackerInvariant, PTL DEF IndInv

(* The caller on record as the killer is not told otherwise.               *)
THEOREM KillerKnows == Spec => []KillerIsToldTheTruth
  <1>1. TypeOK /\ TrackerInv => KillerIsToldTheTruth
    <2> SUFFICES ASSUME TypeOK, TrackerInv, NEW k \in Killers, job.killed = k
                 PROVE  \/ kcall[k] \in {"waiting", "ok", "gone"}
                        \/ kcall[k] = "dropped" /\ loop_err
      BY DEF KillerIsToldTheTruth
    <2>1. RequestInv
      BY DEF TrackerInv
    <2> QED
      BY <2>1 DEF RequestInv
  <1> QED
    BY <1>1, TrackerInvariant, PTL DEF IndInv

(* Neither a late kill() nor a second wait changes a settled job.          *)
THEOREM SettledJobStays == Spec => SettledJobIsFinal
  <1>1. ASSUME TypeOK, TrackerInv, [Next]_vars, job.state = "exited"
        PROVE  job' = job
    <2>1. ~KillDone /\ ~SelectWait
      BY <1>1 DEF TrackerInv, ChildInv, KillDone, SelectWait
    <2> QED
      BY <1>1, <2>1 DEF Next, OS, Pump, Wait, Kill, Write, CloseStream, Exit, PumpRead, PumpEOF,
                  PumpError, PumpStops, SelectFrame, SelectClosed, Send, SelectKill,
                  KillFails, WaitFails, EndSend, Return, KillStart, KillSend,
                  KillNotRunning, KillGivesUp, TakeFrame, vars
  <1>2. TypeOK /\ TrackerInv /\ [Next]_vars => [job.state = "exited" => job' = job]_vars
    BY <1>1
  <1> QED
    BY <1>2, TrackerInvariant, PTL DEF IndInv, Spec, SettledJobIsFinal

-----------------------------------------------------------------------------
(* Tracker.tla implements JobContract.tla: every step of the select loop,  *)
(* of the tasks that feed it and of the callers of kill() is one step of   *)
(* the contract or none.  First the end of the log, seen in the events.    *)

LEMMA UnsealedUntilLeft ==
  ASSUME TypeOK, TerminalInv, Looping \/ pc = "ending"
  PROVE  Sealed = NoOne
  BY DEF TerminalInv, Terminated, Terminals, IsLogged, Sealed

LEMMA SealedOnceLeft ==
  ASSUME TypeOK, TerminalInv, pc \in {"recording", "done"}
  PROVE  Sealed # NoOne
  <1>1. Len(Emitted) \in DOMAIN Emitted
    BY EmittedType DEF TerminalInv
  <1>2. IsLogged(Err) \/ IsLogged(EOF)
    BY <1>1 DEF TerminalInv, IsLogged
  <1> QED
    BY <1>2, NamesAssumption DEF Sealed, Terminals

(* What one more event makes of it.                                        *)
LEMMA LoggedNow ==
  ASSUME TypeOK, NEW e \in Chunks \union Terminals, Emitted' = Append(Emitted, e),
         NEW t \in Terminals
  PROVE  IsLogged(t)' <=> IsLogged(t) \/ e = t
  <1>1. /\ DOMAIN Emitted = 1..Len(Emitted) /\ Len(Emitted) \in Nat
        /\ DOMAIN Emitted' = 1..(Len(Emitted) + 1)
        /\ \A i \in 1..Len(Emitted) : Emitted'[i] = Emitted[i]
        /\ Emitted'[Len(Emitted) + 1] = e
    BY EmittedType, AppendAt
  <1>2. IsLogged(t)' <=> \E i \in DOMAIN Emitted' : Emitted'[i] = t
    BY DEF IsLogged
  <1> QED
    BY <1>1, <1>2 DEF IsLogged

LEMMA EndSendSeals ==
  ASSUME TypeOK, TerminalInv, EndSend
  PROVE  Sealed = NoOne /\ Sealed' = IF loop_err THEN Err ELSE EOF
  <1> DEFINE e == IF loop_err THEN Err ELSE EOF
  <1>1. Sealed = NoOne /\ ~IsLogged(EOF) /\ ~IsLogged(Err)
    BY UnsealedUntilLeft DEF EndSend, TerminalInv, Terminated, Terminals, IsLogged
  <1>2. e \in Terminals /\ EOF \in Terminals /\ Err \in Terminals
    BY DEF Terminals
  <1>3. Emitted' = Append(Emitted, e)
    BY EndSendEmits
  <1>4. (IsLogged(EOF)' <=> e = EOF) /\ (IsLogged(Err)' <=> e = Err)
    BY <1>1, <1>2, <1>3, LoggedNow
  <1> QED
    BY <1>1, <1>4, NamesAssumption DEF Sealed

LEMMA OthersSealNothing ==
  ASSUME TypeOK, [Next]_vars, ~EndSend
  PROVE  Sealed' = Sealed
  <1>1. CASE Send
    <2>1. Emitted' = Append(Emitted, hand) /\ hand \in Chunks
      BY <1>1, SendEmits
    <2>2. EOF \in Terminals /\ Err \in Terminals /\ hand # EOF /\ hand # Err
      BY <2>1, NamesAssumption DEF Terminals
    <2>3. (IsLogged(EOF)' <=> IsLogged(EOF)) /\ (IsLogged(Err)' <=> IsLogged(Err))
      BY <2>1, <2>2, LoggedNow
    <2> QED
      BY <2>3 DEF Sealed
  <1>2. CASE ~Send
    BY <1>2, OthersEmitNothing DEF Sealed, IsLogged
  <1> QED
    BY <1>1, <1>2

-----------------------------------------------------------------------------
(* The answers.                                                            *)

LEMMA AnswersTell ==
  ASSUME TypeOK, NEW K, NEW outcome \in {"ok", "failed", "dropped"},
         kcall' = Answered(K, outcome)
  PROVE  Contract!Tell(K, outcome)
  BY DEF Answered, Contract!Tell

(* The requests retained for the child's end are those of its killer.      *)
LEMMA KillerIsTold ==
  ASSUME TypeOK, RequestInv, WaitInv, pc = "select", proc # "running"
  PROVE  Answered(kill_reqs, "ok") = Answered({job.killed}, "ok")
  <1>1. ASSUME NEW k \in Killers, kcall[k] = "waiting"
        PROVE  k \in kill_reqs <=> k = job.killed
    BY <1>1 DEF RequestInv
  <1> QED
    BY <1>1 DEF Answered

(* Nobody waits outside the requests that Return drops.                    *)
LEMMA AllAreDropped ==
  ASSUME TypeOK, WaitInv, pc # "killing"
  PROVE  Answered(kill_reqs \union Queued, "dropped") = Answered(Killers, "dropped")
  BY DEF WaitInv, Asked, Answered

-----------------------------------------------------------------------------
(* Steps of the contract.                                                  *)

LEMMA KillStepKeepsContract ==
  ASSUME IndInv, [Next]_vars, NEW k \in Killers, Kill(k)
  PROVE  [Contract!Next]_(Contract!vars)
  <1>0. /\ kcall \in [Killers -> {"idle", "sending", "waiting", "gone",
                                  "ok", "failed", "dropped", "notRunning"}]
        /\ ~EndSend /\ UNCHANGED <<job, pc, hand>>
    BY DEF IndInv, TypeOK, Kill, KillStart, KillSend, KillNotRunning, KillGivesUp,
           EndSend, loopVars
  <1>1. Sealed' = Sealed
    BY <1>0, OthersSealNothing DEF IndInv
  <1>2. CASE KillStart(k)
    <2>1. Asked' = Asked
      BY <1>0, <1>2 DEF KillStart, Asked, Queued
    <2> QED
      BY <1>0, <1>1, <1>2, <2>1 DEF KillStart, Contract!vars
  <1>3. CASE KillSend(k)
    <2>1. Asked' = Asked \union {k}
      BY <1>3, KillSendAsks DEF IndInv
    <2>2. Contract!Ask(k)
      BY <1>0, <1>1, <1>3, <2>1 DEF KillSend, Alive, Contract!Ask
    <2> QED
      BY <2>2 DEF Contract!Next
  <1>4. CASE KillNotRunning(k)
    <2>1. Asked' = Asked
      BY <1>0, <1>4 DEF KillNotRunning, Asked, Queued
    <2>2. Contract!TooLate(k)
      BY <1>0, <1>1, <1>4, <2>1 DEF KillNotRunning, Alive, Contract!TooLate
    <2> QED
      BY <2>2 DEF Contract!Next
  <1>5. CASE KillGivesUp(k)
    <2>1. Asked' = Asked
      BY <1>0, <1>5 DEF KillGivesUp, Asked, Queued
    <2>2. Contract!GiveUp(k)
      BY <1>0, <1>1, <1>5, <2>1 DEF KillGivesUp, Contract!GiveUp
    <2> QED
      BY <2>2 DEF Contract!Next
  <1> QED
    BY <1>2, <1>3, <1>4, <1>5 DEF Kill

(* A request taken from the channel is served or refused.                  *)
LEMMA RequestKeepsContract ==
  ASSUME IndInv, [Next]_vars, SelectKill \/ KillDone \/ KillFails
  PROVE  [Contract!Next]_(Contract!vars)
  <1>0. TypeOK /\ ChildInv /\ RequestInv /\ TerminalInv
    BY DEF IndInv, TrackerInv
  <1>1. Sealed = NoOne /\ Sealed' = Sealed /\ pc # "done" /\ pc' # "done"
    <2>1. ~EndSend /\ Looping /\ pc' # "done"
      BY DEF SelectKill, KillDone, KillFails, EndSend, Looping
    <2> QED
      BY <1>0, <2>1, UnsealedUntilLeft, OthersSealNothing DEF Looping
  <1>2. CASE SelectKill
    <2>1. UNCHANGED job
      BY <1>2 DEF SelectKill
    <2>2. CASE pc' = "killing" /\ UNCHANGED kcall
      BY <1>0, <1>1, <1>2, <2>1, <2>2, SelectKillAsks DEF Contract!vars
    <2>3. CASE pc' # "killing" /\ kcall' = Answered({Head(kill_rx)}, "failed")
      <3>1. PICK k \in Killers : k = Head(kill_rx)
        BY <1>0, <1>2, SelectKillAsks
      <3>2. Contract!Tell({k}, "failed")
        BY <1>0, <2>3, <3>1, AnswersTell
      <3>3. Contract!Refuse(k)
        BY <1>0, <1>1, <1>2, <2>1, <2>3, <3>1, <3>2, SelectKillAsks DEF Contract!Refuse
      <3> QED
        BY <3>3 DEF Contract!Next
    <2>4. pc = "select"
      BY <1>2 DEF SelectKill
    <2> QED
      BY <1>2, <2>2, <2>3, <2>4 DEF SelectKill
  <1>3. CASE KillDone
    <2>1. /\ job.state = "running" /\ job.killed = NoOne
          /\ job'.state = job.state /\ job'.killed = hand /\ UNCHANGED kcall
      BY <1>0, <1>3 DEF KillDone, ChildInv, TypeOK, Jobs
    <2>2. PICK k \in Killers : k = hand
      BY <1>0, <1>3, KillEndsAsk
    <2>3. Contract!Record(k)
      BY <1>0, <1>1, <1>3, <2>1, <2>2, KillEndsAsk DEF Contract!Record
    <2> QED
      BY <2>3 DEF Contract!Next
  <1>4. CASE KillFails
    <2>1. UNCHANGED job /\ kcall' = Answered({hand}, "failed")
      BY <1>4 DEF KillFails
    <2>2. PICK k \in Killers : k = hand
      BY <1>0, <1>4, KillEndsAsk
    <2>3. Contract!Tell({k}, "failed")
      BY <1>0, <2>1, <2>2, AnswersTell
    <2>4. Contract!Refuse(k)
      BY <1>0, <1>1, <1>4, <2>1, <2>2, <2>3, KillEndsAsk DEF Contract!Refuse
    <2> QED
      BY <2>4 DEF Contract!Next
  <1> QED
    BY <1>2, <1>3, <1>4

LEMMA SelectWaitKeepsContract ==
  ASSUME IndInv, [Next]_vars, SelectWait
  PROVE  [Contract!Next]_(Contract!vars)
  <1>0. TypeOK /\ ChildInv /\ RequestInv /\ WaitInv /\ TerminalInv
    BY DEF IndInv, TrackerInv
  <1>1. Sealed = NoOne /\ Sealed' = Sealed
    <2>1. ~EndSend /\ Looping
      BY DEF SelectWait, EndSend, Looping
    <2> QED
      BY <1>0, <2>1, UnsealedUntilLeft, OthersSealNothing
  <1>2. Asked' = Asked /\ pc # "done" /\ pc' # "done"
    BY DEF SelectWait, LoopTop, Asked, Queued
  <1>3. job.state = "running" /\ job'.state = "exited" /\ job'.killed = job.killed
    BY <1>0 DEF SelectWait, Settled, ChildInv, TypeOK, Jobs
  <1>4. Contract!Tell({job.killed}, "ok")
    <2>1. kcall' = Answered({job.killed}, "ok")
      BY <1>0, KillerIsTold DEF SelectWait
    <2> QED
      BY <1>0, <2>1, AnswersTell
  <1>5. Contract!Settle
    BY <1>1, <1>2, <1>3, <1>4 DEF Contract!Settle
  <1> QED
    BY <1>5 DEF Contract!Next

(* On the way out: the log is sealed, then the callers are let go.         *)
LEMMA EndKeepsContract ==
  ASSUME IndInv, [Next]_vars, EndSend \/ Return
  PROVE  [Contract!Next]_(Contract!vars)
  <1>0. TypeOK /\ ChildInv /\ LoopInv /\ WaitInv /\ TerminalInv
    BY DEF IndInv, TrackerInv
  <1>1. CASE EndSend
    <2> DEFINE e == IF loop_err THEN Err ELSE EOF
    <2>1. Sealed = NoOne /\ Sealed' = e
      BY <1>0, <1>1, EndSendSeals
    <2>2. e = EOF => job.state # "running"
      BY <1>0, <1>1, NamesAssumption DEF EndSend, LoopInv, Looping, ChildInv
    <2>3. /\ UNCHANGED <<job, kcall>> /\ pc # "done" /\ pc' # "done" /\ Asked' = Asked
      BY <1>1 DEF EndSend, killVars, Asked, Queued
    <2>4. e \in {EOF, Err}
      OBVIOUS
    <2> HIDE DEF e
    <2>5. Contract!Seal(e)
      BY <2>1, <2>2, <2>3 DEF Contract!Seal
    <2> QED
      BY <2>4, <2>5 DEF Contract!Next
  <1>2. CASE Return
    <2>1. Sealed # NoOne /\ Sealed' = Sealed
      <3>1. ~EndSend /\ pc = "recording"
        BY <1>2 DEF Return, EndSend
      <3> QED
        BY <1>0, <3>1, SealedOnceLeft, OthersSealNothing
    <2>2. Contract!Tell(Killers, "dropped")
      <3>1. kcall' = Answered(Killers, "dropped")
        BY <1>0, <1>2, AllAreDropped DEF Return, Queued
      <3> QED
        BY <1>0, <3>1, AnswersTell
    <2>3. Contract!End
      BY <1>2, <2>1, <2>2, ReturnAsks DEF Return, Contract!End
    <2> QED
      BY <2>3 DEF Contract!Next
  <1> QED
    BY <1>1, <1>2

(* Nothing else shows.                                                     *)
LEMMA OthersKeepContract ==
  ASSUME IndInv, [Next]_vars, ~SelectKill, ~KillDone, ~KillFails, ~SelectWait, ~EndSend,
         ~Return, \A k \in Killers : ~Kill(k)
  PROVE  UNCHANGED Contract!vars
  <1>1. Sealed' = Sealed
    BY OthersSealNothing DEF IndInv
  <1>2. Asked' = Asked
    BY OthersAskNothing DEF Kill
  <1>3. UNCHANGED <<job, kcall>> /\ (pc' = "done" <=> pc = "done")
    <2>1. CASE Outside \/ UNCHANGED vars
      BY <2>1, OutsideKeepsControl DEF loopVars, killVars
    <2>2. CASE \E how \in {"exit", "signal"} : Exit(how)
      BY <2>2 DEF Exit, loopVars, killVars
    <2>3. CASE \E s \in Streams : SelectFrame(s) \/ SelectClosed(s)
      BY <2>3 DEF SelectFrame, SelectClosed, LoopTop, killVars
    <2>4. CASE Send \/ WaitFails
      BY <2>4 DEF Send, WaitFails, killVars
    <2> QED
      BY <2>1, <2>2, <2>3, <2>4 DEF Next, OS, Wait, Outside
  <1> QED
    BY <1>1, <1>2, <1>3 DEF Contract!vars

-----------------------------------------------------------------------------
(* What callers of kill() and of ps see of wait(), consume_output and the  *)
(* child is what JobContract.tla promises, whatever the order of exit,     *)
(* kills, output, errors and the end of the log.                           *)
THEOREM TrackerKeepsContract == Spec => ImplementsJobContract
  <1>1. Init => Contract!Init
    <2> SUFFICES ASSUME Init PROVE Contract!Init
      OBVIOUS
    <2>1. DOMAIN Emitted = {}
      BY DEF Init, Emitted
    <2>2. Sealed = NoOne
      BY <2>1 DEF Sealed, IsLogged
    <2>3. Asked = {}
      BY DEF Init, Asked, Queued
    <2> QED
      BY <2>2, <2>3 DEF Init, Started, Contract!Init
  <1>2. IndInv /\ [Next]_vars => [Contract!Next]_(Contract!vars)
    <2> SUFFICES ASSUME IndInv, [Next]_vars PROVE [Contract!Next]_(Contract!vars)
      OBVIOUS
    <2>1. CASE \E k \in Killers : Kill(k)
      BY <2>1, KillStepKeepsContract
    <2>2. CASE SelectKill \/ KillDone \/ KillFails
      BY <2>2, RequestKeepsContract
    <2>3. CASE SelectWait
      BY <2>3, SelectWaitKeepsContract
    <2>4. CASE EndSend \/ Return
      BY <2>4, EndKeepsContract
    <2> QED
      BY <2>1, <2>2, <2>3, <2>4, OthersKeepContract
  <1> QED
    BY <1>1, <1>2, TrackerInvariant, PTL DEF Spec, ImplementsJobContract, Contract!Spec
=============================================================================
