--------------------------- MODULE WinStreamProofs ---------------------------
(***************************************************************************)
(* Theorems about WinStream.tla, for every amount of output, every size of *)
(* the two buffers and every capacity of the channel.                      *)
(*                                                                         *)
(* The argument follows the bytes: FlowInv says that what the task has,    *)
(* the rest of its chunk, the channel and the thread's item continue each  *)
(* other, and each action moves something along that line.                 *)
(***************************************************************************)
EXTENDS WinStream, QueueLemmas

(* Splitting a chunk where the task's buffer ends.                         *)
LEMMA SplitChunk ==
  ASSUME NEW S, NEW b \in Seq(S), b # <<>>, NEW room \in Nat \ {0}
  PROVE  LET n == IF room < Len(b) THEN room ELSE Len(b)
         IN /\ SubSeq(b, 1, n) \in Seq(S)
            /\ SubSeq(b, room + 1, Len(b)) \in Seq(S)
            /\ n \in 1..Len(b)
            /\ Len(SubSeq(b, 1, n)) = n
            /\ Len(SubSeq(b, room + 1, Len(b))) = Len(b) - n
            /\ \A i \in 1..n : SubSeq(b, 1, n)[i] = b[i]
            /\ \A i \in 1..(Len(b) - n) : SubSeq(b, room + 1, Len(b))[i] = b[n + i]
  <1> DEFINE n == IF room < Len(b) THEN room ELSE Len(b)
  <1>1. Len(b) \in Nat \ {0} /\ n \in 1..Len(b) /\ DOMAIN b = 1..Len(b)
    OBVIOUS
  <1>2. /\ SubSeq(b, 1, n) \in Seq(S) /\ Len(SubSeq(b, 1, n)) = n
        /\ \A i \in 1..n : SubSeq(b, 1, n)[i] = b[i]
    BY <1>1, SubSeqProperties
  <1>3. CASE room < Len(b)
    <2>1. n = room /\ room + 1 \in 1..Len(b)
      BY <1>1, <1>3
    <2>2. /\ SubSeq(b, room + 1, Len(b)) \in Seq(S)
          /\ Len(SubSeq(b, room + 1, Len(b))) = Len(b) - room
          /\ \A i \in 1..(Len(b) - room) : SubSeq(b, room + 1, Len(b))[i] = b[room + i]
      BY <1>1, <2>1, SubSeqProperties
    <2> QED
      BY <1>1, <1>2, <2>1, <2>2
  <1>4. CASE ~(room < Len(b))
    <2>1. SubSeq(b, room + 1, Len(b)) = <<>>
      BY <1>1, <1>4
    <2>2. Len(b) - n = 0
      BY <1>1, <1>4
    <2>3. Len(<<>>) = 0 /\ <<>> \in Seq(S)
      OBVIOUS
    <2>4. 1..(Len(b) - n) = {}
      BY <2>2
    <2>5. /\ SubSeq(b, room + 1, Len(b)) \in Seq(S)
          /\ Len(SubSeq(b, room + 1, Len(b))) = Len(b) - n
          /\ \A i \in 1..(Len(b) - n) : SubSeq(b, room + 1, Len(b))[i] = b[n + i]
      BY <2>1, <2>2, <2>3, <2>4
    <2> QED
      BY <1>1, <1>2, <2>5
  <1> QED
    BY <1>3, <1>4
-----------------------------------------------------------------------------
LEMMA EmptyItem == Failure \in Items /\ Data(<<>>) \in Items
  <1>1. <<>> \in Seq(1..MaxBytes)
    OBVIOUS
  <1> QED
    BY <1>1 DEF Failure, Data, Items

LEMMA TypeInit == Init => TypeOK
  <1> SUFFICES ASSUME Init PROVE TypeOK
    OBVIOUS
  <1>1. <<>> \in Seq(1..MaxBytes) /\ <<>> \in Seq(Items) /\ Len(<<>>) = 0
    OBVIOUS
  <1>2. item \in Items
    BY EmptyItem DEF Init
  <1>3. Len(queue) <= QueueCap /\ queue \in Seq(Items)
    BY <1>1, BoundsAssumption DEF Init
  <1>4. written \in 0..MaxBytes /\ taken \in 0..written /\ blanks \in SUBSET (0..written)
    BY BoundsAssumption DEF Init
  <1> QED
    BY <1>1, <1>2, <1>3, <1>4 DEF Init, TypeOK

(* What a delivery does to the task, in terms of positions.                *)
LEMMA DeliverType ==
  ASSUME TypeOK, NEW b \in Seq(1..MaxBytes), b # <<>>, Deliver(b)
  PROVE  /\ got' \in Seq(1..MaxBytes) /\ buffer' \in Seq(1..MaxBytes)
         /\ Len(got') + Len(buffer') = Len(got) + Len(b)
         /\ Len(got) <= Len(got')
         /\ \A i \in 1..Len(got) : got'[i] = got[i]
         /\ \A i \in (Len(got) + 1)..Len(got') : got'[i] = b[i - Len(got)]
         /\ \A i \in 1..Len(buffer') : buffer'[i] = b[Len(got') - Len(got) + i]
  <1> DEFINE n == IF Room < Len(b) THEN Room ELSE Len(b)
             first == SubSeq(b, 1, n)
             S == 1..MaxBytes
  <1>1. /\ first \in Seq(S) /\ Rest(b) \in Seq(S) /\ n \in 1..Len(b)
        /\ Len(first) = n /\ Len(Rest(b)) = Len(b) - n
        /\ \A i \in 1..n : first[i] = b[i]
        /\ \A i \in 1..(Len(b) - n) : Rest(b)[i] = b[n + i]
    BY SplitChunk, BoundsAssumption DEF Rest
  <1>2. got' = got \o first /\ buffer' = Rest(b) /\ got \in Seq(S) /\ Len(got) \in Nat /\ Len(b) \in Nat
    BY DEF Deliver, TypeOK
  <1> HIDE DEF first, S, n
  <1>3. /\ got' \in Seq(S) /\ Len(got') = Len(got) + n
        /\ \A i \in 1..(Len(got) + n) :
             got'[i] = IF i <= Len(got) THEN got[i] ELSE first[i - Len(got)]
    BY <1>1, <1>2, ConcatProperties
  <1>4. \A i \in (Len(got) + 1)..Len(got') : i - Len(got) \in 1..n /\ ~(i <= Len(got))
                                             /\ i \in 1..(Len(got) + n)
    BY <1>1, <1>2, <1>3
  <1>5. \A i \in 1..Len(got) : i \in 1..(Len(got) + n) /\ i <= Len(got)
    BY <1>1, <1>2
  <1>6. Len(buffer') = Len(b) - n /\ Len(got') = Len(got) + n
    BY <1>1, <1>2, <1>3
  <1> DEFINE g == Len(got)
             l == Len(b)
  <1>7. g \in Nat /\ l \in Nat /\ n \in Nat /\ Len(buffer') = l - n /\ Len(got') = g + n
    BY <1>1, <1>2, <1>6
  <1> HIDE DEF g, l
  <1>8. Len(got') - g = n /\ Len(got') + Len(buffer') = g + l /\ g <= Len(got')
    BY <1>7
  <1>9. Len(got') - Len(got) = n /\ Len(got') + Len(buffer') = Len(got) + Len(b) /\ Len(got) <= Len(got')
    BY <1>8 DEF g, l
  <1> QED
    BY <1>1, <1>2, <1>3, <1>4, <1>5, <1>6, <1>9 DEF S

LEMMA TypeStep ==
  ASSUME TypeOK, [Next]_vars
  PROVE  TypeOK'
  <1> USE BoundsAssumption
  <1>1. CASE Write
    BY <1>1 DEF TypeOK, Write, threadVars, taskVars
  <1>2. CASE WriteNothing
    BY <1>2 DEF TypeOK, WriteNothing, threadVars, taskVars
  <1>3. CASE Close
    BY <1>3 DEF TypeOK, Close, threadVars, taskVars
  <1>4. CASE ReadFile
    <2>1. thread' \in {"read", "send", "wake", "done"}
      BY <1>4 DEF ReadFile, Step, ReadSendWake
    <2>2. item' \in Items /\ taken' \in 0..written
      <3>1. CASE \E n \in 1..ReadSize :
                   taken + n <= written /\ item' = Data([i \in 1..n |-> taken + i]) /\ taken' = taken + n
        <4>1. PICK n \in 1..ReadSize :
                taken + n <= written /\ item' = Data([i \in 1..n |-> taken + i]) /\ taken' = taken + n
          BY <3>1
        <4>2. \A i \in 1..n : taken + i \in 1..MaxBytes
          BY <4>1 DEF TypeOK
        <4>3. [i \in 1..n |-> taken + i] \in Seq(1..MaxBytes)
          BY <4>2
        <4> QED
          BY <4>1, <4>3 DEF TypeOK, Data, Items
      <3>2. CASE (item' = Data(<<>>) \/ item' = Failure) /\ taken' = taken
        BY <3>2, EmptyItem DEF TypeOK
      <3> QED
        BY <1>4, <3>1, <3>2 DEF ReadFile
    <2> QED
      BY <1>4, <2>1, <2>2 DEF TypeOK, ReadFile, taskVars
  <1>5. CASE Send
    <2>1. thread' \in {"read", "send", "wake", "done"}
      BY <1>5 DEF Send, Step, ReadSendWake
    <2>2. queue' \in Seq(Items) /\ Len(queue') <= QueueCap
      <3>1. CASE queue' = Append(queue, item) /\ HasRoom
        BY <3>1 DEF TypeOK, HasRoom
      <3>2. CASE queue' = queue
        BY <3>2 DEF TypeOK
      <3> QED
        BY <1>5, <3>1, <3>2 DEF Send
    <2> QED
      BY <1>5, <2>1, <2>2 DEF TypeOK, Send, pipeVars, taskVars
  <1>6. CASE Wake
    <2>1. thread' \in {"read", "send", "wake", "done"}
      BY <1>6 DEF Wake, Step, ReadSendWake
    <2>2. woken' \in BOOLEAN /\ waker' \in BOOLEAN
      BY <1>6 DEF Wake, TypeOK
    <2> QED
      BY <1>6, <2>1, <2>2 DEF TypeOK, Wake, pipeVars, taskVars
  <1>7. CASE Poll
    BY <1>7 DEF TypeOK, Poll, pipeVars, threadVars
  <1>8. CASE PollBuffer
    <2>1. got' \in Seq(1..MaxBytes) /\ buffer' \in Seq(1..MaxBytes)
      BY <1>8, DeliverType DEF PollBuffer, TypeOK
    <2>2. task' = "ready" /\ result' = result
      BY <1>8 DEF PollBuffer, Deliver
    <2> QED
      BY <1>8, <2>1, <2>2 DEF TypeOK, PollBuffer, pipeVars, threadVars
  <1>9. CASE PollChannel
    <2>1. Head(queue) \in Items /\ queue' \in Seq(Items) /\ Len(queue') <= QueueCap
      BY <1>9, HeadTail DEF PollChannel, TypeOK
    <2>2. \/ Finish("error") \/ Finish("eof")
          \/ Head(queue).bytes # <<>> /\ Deliver(Head(queue).bytes)
      BY <1>9, <2>1 DEF PollChannel, Data, Items
    <2>3. CASE Finish("error") \/ Finish("eof")
      BY <1>9, <2>1, <2>3 DEF TypeOK, PollChannel, Finish, pipeVars, threadVars
    <2>4. CASE Head(queue).bytes # <<>> /\ Deliver(Head(queue).bytes)
      <3>1. Head(queue).bytes \in Seq(1..MaxBytes)
        BY <2>1 DEF Items
      <3>2. got' \in Seq(1..MaxBytes) /\ buffer' \in Seq(1..MaxBytes)
        BY <2>4, <3>1, DeliverType
      <3>3. task' = "ready" /\ result' = result
        BY <2>4 DEF Deliver
      <3> QED
        BY <1>9, <2>1, <3>2, <3>3 DEF TypeOK, PollChannel, pipeVars, threadVars
    <2> QED
      BY <2>2, <2>3, <2>4
  <1>10. CASE PollEmpty
    BY <1>10 DEF TypeOK, PollEmpty, Finish, pipeVars, threadVars
  <1>11. CASE Abandon
    BY <1>11 DEF TypeOK, Abandon, Finish, pipeVars, threadVars
  <1>12. CASE UNCHANGED vars
    BY <1>12 DEF TypeOK, vars, pipeVars, threadVars, taskVars
  <1> QED
    BY <1>1, <1>2, <1>3, <1>4, <1>5, <1>6, <1>7, <1>8, <1>9, <1>10, <1>11, <1>12
    DEF Next, PollReturns
-----------------------------------------------------------------------------
(* Delivering the bytes that come next keeps the order.                    *)
LEMMA DeliverOrder ==
  ASSUME TypeOK, BytesInOrder, NEW b \in Seq(1..MaxBytes), b # <<>>, Deliver(b),
         \A n \in 1..Len(b) : b[n] = Len(got) + n
  PROVE  /\ BytesInOrder'
         /\ \A n \in DOMAIN buffer' : buffer'[n] = Len(got') + n
  <1>1. /\ got' \in Seq(1..MaxBytes) /\ buffer' \in Seq(1..MaxBytes)
        /\ Len(got') + Len(buffer') = Len(got) + Len(b)
        /\ Len(got) <= Len(got')
        /\ \A i \in 1..Len(got) : got'[i] = got[i]
        /\ \A i \in (Len(got) + 1)..Len(got') : got'[i] = b[i - Len(got)]
        /\ \A i \in 1..Len(buffer') : buffer'[i] = b[Len(got') - Len(got) + i]
    BY DeliverType
  <1>2. /\ Len(got) \in Nat /\ Len(got') \in Nat /\ Len(buffer') \in Nat /\ Len(b) \in Nat
        /\ DOMAIN buffer' = 1..Len(buffer')
    BY <1>1 DEF TypeOK
  <1>3. \A i \in 1..Len(got') : got'[i] = i
    <2> SUFFICES ASSUME NEW i \in 1..Len(got') PROVE got'[i] = i
      OBVIOUS
    <2>1. CASE i \in 1..Len(got)
      BY <1>1, <2>1 DEF BytesInOrder
    <2>2. CASE i \in (Len(got) + 1)..Len(got')
      <3>1. i - Len(got) \in 1..Len(b) /\ Len(got) + (i - Len(got)) = i
        BY <1>1, <1>2, <2>2
      <3> QED
        BY <1>1, <2>2, <3>1
    <2> QED
      BY <1>2, <2>1, <2>2
  <1>4. got' = [i \in 1..Len(got') |-> i]
    BY <1>1, <1>3
  <1>5. \A n \in 1..Len(buffer') : buffer'[n] = Len(got') + n
    <2> SUFFICES ASSUME NEW n \in 1..Len(buffer') PROVE buffer'[n] = Len(got') + n
      OBVIOUS
    <2>1. /\ Len(got') - Len(got) + n \in 1..Len(b)
          /\ Len(got) + (Len(got') - Len(got) + n) = Len(got') + n
      BY <1>1, <1>2
    <2> QED
      BY <1>1, <2>1
  <1> QED
    BY <1>2, <1>4, <1>5 DEF BytesInOrder

(* The two ends of the wake-up: whoever acts, a sleeping task is not       *)
(* forgotten.                                                              *)
LEMMA WakeStep ==
  ASSUME TypeOK, StreamInv, [Next]_vars
  PROVE  /\ SleeperIsWoken'
         /\ task' = "polling" => waker' \/ woken'
  <1> USE DEF SleeperIsWoken, StreamInv
  <1>1. CASE Write \/ WriteNothing \/ Close
    BY <1>1 DEF Write, WriteNothing, Close, threadVars, taskVars
  <1>2. CASE ReadFile
    BY <1>2 DEF ReadFile, taskVars
  <1>3. CASE Send
    <2>1. task' = task /\ waker' = waker /\ woken' = woken
      BY <1>3 DEF Send, taskVars
    <2>2. task = "done" \/ thread' = "wake"
      BY <1>3 DEF Send, Step, ReadSendWake
    <2>3. thread = "send"
      BY <1>3 DEF Send
    <2> QED
      BY <2>1, <2>2, <2>3
  <1>4. CASE Wake
    BY <1>4 DEF Wake, taskVars
  <1>5. CASE Poll
    BY <1>5 DEF Poll
  <1>6. CASE PollBuffer
    BY <1>6 DEF PollBuffer, Deliver
  <1>7. CASE PollChannel
    BY <1>7 DEF PollChannel, Deliver, Finish
  <1>8. CASE PollEmpty
    BY <1>8 DEF PollEmpty, Finish
  <1>9. CASE Abandon
    BY <1>9 DEF Abandon, Finish
  <1>10. CASE UNCHANGED vars
    BY <1>10 DEF vars, threadVars, taskVars
  <1> QED
    BY <1>1, <1>2, <1>3, <1>4, <1>5, <1>6, <1>7, <1>8, <1>9, <1>10 DEF Next, PollReturns

(* What the other parts of StreamInv say after a step.                     *)
BytesInv ==
  /\ BytesInOrder /\ EOFMeansComplete
  /\ result = "none" <=> task # "done"
  /\ task # "done" => FlowInv /\ StopInv

(* Writes, polls and wakes move no byte.                                   *)
LEMMA PipeKeepsBytes ==
  ASSUME TypeOK, StreamInv, Write \/ WriteNothing \/ Close
  PROVE  BytesInv'
  <1>1. /\ UNCHANGED <<taken, thread, item, queue, task, buffer, got, result>>
        /\ open
        /\ blanks \subseteq blanks'
    BY DEF Write, WriteNothing, Close, threadVars, taskVars
  <1>2. BytesInOrder' /\ (result' = "none" <=> task' # "done")
    BY <1>1 DEF StreamInv, BytesInOrder
  <1>3. EOFMeansComplete'
    BY <1>1 DEF StreamInv, EOFMeansComplete, Complete, EndsAtBlank
  <1>4. \A k : Before(k)' = Before(k)
    BY <1>1 DEF Before, End
  <1>5. \A i, p : Carries(i, p) => Carries(i, p)'
    BY <1>1 DEF Carries, IsLast
  <1>6. task # "done" => FlowInv' /\ StopInv'
    <2> SUFFICES ASSUME task # "done", FlowInv, StopInv PROVE FlowInv' /\ StopInv'
      BY DEF StreamInv
    <2>1. StopInv'
      BY <1>1 DEF StopInv, IsLast
    <2>2. \A k \in DOMAIN queue : Carries(queue[k], Before(k))'
      BY <1>1, <1>4, <1>5 DEF FlowInv, Carries, IsLast
    <2>3. thread = "send" => Carries(item, Before(Len(queue) + 1))'
      BY <1>1, <1>4, <1>5 DEF FlowInv, Carries, IsLast
    <2> QED
      BY <1>1, <1>4, <2>1, <2>2, <2>3 DEF FlowInv, IsLast, End
  <1> QED
    BY <1>1, <1>2, <1>3, <1>6 DEF BytesInv

(* ReadFile: the bytes it returns follow all others, and a read of nothing *)
(* is the end or a write of nothing.                                       *)
LEMMA ReadFileKeepsBytes ==
  ASSUME TypeOK, StreamInv, ReadFile
  PROVE  BytesInv'
  <1>1. /\ UNCHANGED <<written, blanks, open, queue, task, buffer, got, result>>
        /\ thread = "read" /\ thread' = "send"
    BY DEF ReadFile, Step, ReadSendWake, taskVars
  <1>2. BytesInOrder' /\ (result' = "none" <=> task' # "done")
    BY <1>1 DEF StreamInv, BytesInOrder
  <1>3. EOFMeansComplete'
    BY <1>1 DEF StreamInv, EOFMeansComplete, Complete, EndsAtBlank
  <1>4. \A k : Before(k)' = Before(k)
    BY <1>1 DEF Before, End
  <1>5. task # "done" => FlowInv' /\ StopInv'
    <2> SUFFICES ASSUME task # "done", FlowInv, StopInv PROVE FlowInv' /\ StopInv'
      BY DEF StreamInv
    <2>1. \A k \in DOMAIN queue : ~IsLast(queue[k])
      BY <1>1 DEF StopInv
    <2>2. StopInv'
      BY <1>1, <2>1 DEF StopInv, IsLast
    <2>3. \A k \in DOMAIN queue : Carries(queue[k], Before(k))'
      BY <1>1, <1>4, <2>1 DEF FlowInv, Carries, IsLast
    <2>4. Before(Len(queue) + 1) = taken
      BY <1>1 DEF FlowInv
    <2>5. /\ Carries(item, Before(Len(queue) + 1))'
          /\ ~IsLast(item)' => End(item)' = taken'
      <3>1. CASE \E n \in 1..ReadSize : item' = Data([i \in 1..n |-> taken + i]) /\ taken' = taken + n
        <4>1. PICK n \in 1..ReadSize : item' = Data([i \in 1..n |-> taken + i]) /\ taken' = taken + n
          BY <3>1
        <4>2. n \in Nat \ {0} /\ n \in 1..n
          BY BoundsAssumption
        <4> DEFINE bytes == [i \in 1..n |-> taken + i]
        <4>3. Len(bytes) = n /\ bytes # <<>> /\ DOMAIN bytes = 1..n /\ bytes[n] = taken + n
          BY <4>2
        <4>4. item'.bytes = bytes
          BY <4>1 DEF Data
        <4>5. \A m \in DOMAIN bytes : bytes[m] = taken + m
          OBVIOUS
        <4> HIDE DEF bytes
        <4>6. ~IsLast(item)' /\ End(item)' = taken'
          BY <4>1, <4>3, <4>4 DEF IsLast, End
        <4>7. Carries(item, Before(Len(queue) + 1))'
          BY <1>1, <1>4, <2>4, <4>4, <4>5, <4>6 DEF Carries
        <4> QED
          BY <4>6, <4>7
      <3>2. CASE (Broken \/ taken \in blanks) /\ item' = Data(<<>>) /\ taken' = taken
        BY <1>1, <1>4, <2>4, <3>2 DEF Carries, Data, IsLast, Broken
      <3>3. CASE item' = Failure /\ taken' = taken
        BY <1>1, <1>4, <2>4, <3>3 DEF Carries, Failure, IsLast
      <3> QED
        BY <3>1, <3>2, <3>3 DEF ReadFile
    <2> QED
      BY <1>1, <2>2, <2>3, <2>5, <1>4 DEF FlowInv
  <1> QED
    BY <1>2, <1>3, <1>1, <1>5 DEF BytesInv

(* Send: the item goes to the end of the channel.                          *)
LEMMA SendKeepsBytes ==
  ASSUME TypeOK, StreamInv, Send
  PROVE  BytesInv'
  <1>1. UNCHANGED <<written, blanks, open, taken, item, task, buffer, got, result>> /\ thread = "send"
    BY DEF Send, pipeVars, taskVars
  <1>2. BytesInOrder' /\ (result' = "none" <=> task' # "done")
    BY <1>1 DEF StreamInv, BytesInOrder
  <1>3. EOFMeansComplete'
    BY <1>1 DEF StreamInv, EOFMeansComplete, Complete, EndsAtBlank
  <1>4. task # "done" => FlowInv' /\ StopInv'
    <2> SUFFICES ASSUME task # "done", FlowInv, StopInv PROVE FlowInv' /\ StopInv'
      BY DEF StreamInv
    <2>1. queue' = Append(queue, item) /\ thread' = "wake"
      BY DEF Send, Step, ReadSendWake
    <2> DEFINE l == Len(queue)
    <2>2. /\ l \in Nat /\ Len(queue') = l + 1 /\ DOMAIN queue = 1..l /\ DOMAIN queue' = 1..(l + 1)
          /\ \A k \in 1..l : queue'[k] = queue[k]
          /\ queue'[l + 1] = item
      BY <2>1, AppendAt DEF TypeOK
    <2> HIDE DEF l
    <2>3. \A k \in DOMAIN queue : ~IsLast(queue[k])
      BY <1>1 DEF StopInv
    <2>4. \A k \in 1..(l + 1) : Before(k)' = Before(k)
      <3> SUFFICES ASSUME NEW k \in 1..(l + 1) PROVE Before(k)' = Before(k)
        OBVIOUS
      <3>1. CASE k = 1
        BY <1>1, <3>1 DEF Before
      <3>2. CASE k # 1
        <4>1. k - 1 \in 1..l
          BY <2>2, <3>2
        <4> QED
          BY <2>2, <3>2, <4>1 DEF Before, End
      <3> QED
        BY <3>1, <3>2
    <2>5. Carries(item, Before(l + 1))
      BY <1>1 DEF FlowInv, l
    <2>6. \A k \in 1..l : Carries(queue[k], Before(k))
      BY <2>2 DEF FlowInv
    <2>7. \A k \in 1..(l + 1) : Carries(queue[k], Before(k))'
      <3> SUFFICES ASSUME NEW k \in 1..(l + 1) PROVE Carries(queue[k], Before(k))'
        OBVIOUS
      <3>1. CASE k \in 1..l
        BY <1>1, <2>2, <2>4, <2>6, <3>1 DEF Carries, IsLast
      <3>2. CASE k = l + 1
        BY <1>1, <2>2, <2>4, <2>5, <3>2 DEF Carries, IsLast
      <3> QED
        BY <2>2, <3>1, <3>2
    <2>8. ~IsLast(item) => Before(Len(queue) + 1)' = taken
      <3>1. Len(queue') + 1 # 1 /\ (Len(queue') + 1) - 1 = l + 1
        BY <2>2
      <3>2. Before(Len(queue) + 1)' = End(item)
        BY <2>2, <3>1 DEF Before, End
      <3> QED
        BY <1>1, <3>2 DEF FlowInv
    <2>9. FlowInv'
      BY <1>1, <2>1, <2>2, <2>7, <2>8 DEF FlowInv, IsLast
    <2>10. StopInv'
      <3>1. \A k \in DOMAIN queue' : IsLast(queue'[k]) => k = l + 1 /\ IsLast(item)
        BY <2>2, <2>3
      <3>2. queue' # <<>>
        BY <2>2
      <3> QED
        BY <1>1, <2>1, <2>2, <3>1, <3>2 DEF StopInv, IsLast
    <2> QED
      BY <2>9, <2>10
  <1> QED
    BY <1>1, <1>2, <1>3, <1>4 DEF BytesInv

(* Wake, Poll, and the polls that deliver nothing.                         *)
LEMMA WakeKeepsBytes ==
  ASSUME TypeOK, StreamInv, Wake \/ Poll \/ UNCHANGED vars
  PROVE  BytesInv'
  <1>1. /\ UNCHANGED <<written, blanks, open, taken, item, queue, buffer, got, result>>
        /\ task' = "done" <=> task = "done"
        /\ \/ thread' = thread
           \/ thread = "wake" /\ thread' = IF IsLast(item) THEN "done" ELSE "read"
    BY DEF Wake, Poll, vars, Step, ReadSendWake, pipeVars, threadVars, taskVars
  <1>2. BytesInOrder' /\ (result' = "none" <=> task' # "done")
    BY <1>1 DEF StreamInv, BytesInOrder
  <1>3. EOFMeansComplete'
    BY <1>1 DEF StreamInv, EOFMeansComplete, Complete, EndsAtBlank
  <1>4. \A k : Before(k)' = Before(k)
    BY <1>1 DEF Before, End
  <1>5. task # "done" => FlowInv' /\ StopInv'
    <2> SUFFICES ASSUME task # "done", FlowInv, StopInv PROVE FlowInv' /\ StopInv'
      BY DEF StreamInv
    <2>1. StopInv'
      BY <1>1 DEF StopInv, IsLast
    <2>2. \A k \in DOMAIN queue : Carries(queue[k], Before(k))'
      BY <1>1, <1>4 DEF FlowInv, Carries, IsLast
    <2>3. thread' = "send" => thread = "send" /\ Carries(item, Before(Len(queue) + 1))'
      BY <1>1, <1>4 DEF FlowInv, Carries, IsLast
    <2>4. thread' = "read" \/ (thread' = "wake" /\ ~IsLast(item)) => Before(Len(queue) + 1) = taken
      BY <1>1 DEF FlowInv
    <2> QED
      BY <1>1, <1>4, <2>1, <2>2, <2>3, <2>4 DEF FlowInv, IsLast, End
  <1> QED
    BY <1>1, <1>2, <1>3, <1>5 DEF BytesInv

(* A poll that ends the task leaves only what it has read to account for.  *)
LEMMA FinishKeepsBytes ==
  ASSUME TypeOK, StreamInv, NEW how \in {"error", "abandoned", "eof"}, Finish(how),
         how = "eof" => Complete \/ EndsAtBlank,
         UNCHANGED pipeVars
  PROVE  BytesInv'
  <1>1. task' = "done" /\ result' = how /\ got' = got /\ UNCHANGED <<written, blanks, open>>
    BY DEF Finish, pipeVars
  <1>2. BytesInOrder'
    BY <1>1 DEF StreamInv, BytesInOrder
  <1>3. EOFMeansComplete'
    BY <1>1 DEF EOFMeansComplete, Complete, EndsAtBlank
  <1> QED
    BY <1>1, <1>2, <1>3 DEF BytesInv

(* poll_read, with the rest of a chunk.                                    *)
LEMMA PollBufferKeepsBytes ==
  ASSUME TypeOK, StreamInv, PollBuffer
  PROVE  BytesInv'
  <1>1. /\ UNCHANGED <<written, blanks, open, taken, thread, item, queue, result>>
        /\ task = "polling" /\ task' = "ready" /\ buffer # <<>> /\ Deliver(buffer)
    BY DEF PollBuffer, Deliver, pipeVars, threadVars
  <1>2. FlowInv /\ StopInv /\ BytesInOrder /\ result = "none"
    BY <1>1 DEF StreamInv
  <1>3. buffer \in Seq(1..MaxBytes) /\ DOMAIN buffer = 1..Len(buffer)
    BY DEF TypeOK
  <1>4. Len(got') + Len(buffer') = Len(got) + Len(buffer)
    BY <1>1, <1>3, DeliverType
  <1>5. BytesInOrder' /\ \A n \in DOMAIN buffer' : buffer'[n] = Len(got') + n
    BY <1>1, <1>2, <1>3, DeliverOrder DEF FlowInv
  <1>6. \A k : Before(k)' = Before(k)
    BY <1>1, <1>4 DEF Before, End
  <1>7. \A k \in DOMAIN queue : Carries(queue[k], Before(k))'
    BY <1>1, <1>2, <1>6 DEF FlowInv, Carries, IsLast
  <1>8. thread = "send" => Carries(item, Before(Len(queue) + 1))'
    BY <1>1, <1>2, <1>6 DEF FlowInv, Carries, IsLast
  <1>9. FlowInv'
    BY <1>1, <1>2, <1>5, <1>6, <1>7, <1>8 DEF FlowInv, IsLast, End
  <1>10. StopInv'
    BY <1>1, <1>2 DEF StopInv, IsLast
  <1>11. EOFMeansComplete'
    BY <1>1, <1>2 DEF EOFMeansComplete
  <1> QED
    BY <1>1, <1>2, <1>5, <1>9, <1>10, <1>11 DEF BytesInv

(* poll_read, with an item of the channel.                                 *)
LEMMA PollChannelKeepsBytes ==
  ASSUME TypeOK, StreamInv, PollChannel
  PROVE  BytesInv'
  <1>1. /\ UNCHANGED <<written, blanks, open, taken, thread, item>>
        /\ UNCHANGED pipeVars
        /\ task = "polling" /\ buffer = <<>> /\ queue # <<>> /\ queue' = Tail(queue)
    BY DEF PollChannel, pipeVars, threadVars
  <1>2. FlowInv /\ StopInv /\ BytesInOrder /\ result = "none"
    BY <1>1 DEF StreamInv
  <1> DEFINE l == Len(queue)
  <1>3. /\ Head(queue) = queue[1] /\ queue[1] \in Items /\ l \in Nat \ {0}
        /\ DOMAIN queue = 1..l /\ DOMAIN queue' = 1..(l - 1) /\ Len(queue') = l - 1
        /\ \A k \in 1..(l - 1) : queue'[k] = queue[k + 1]
    BY <1>1, HeadTail DEF TypeOK
  <1> HIDE DEF l
  <1>4. Len(got) \in Nat /\ Len(buffer) = 0
    BY <1>1 DEF TypeOK
  <1>5. Carries(queue[1], Len(got))
    <2>1. 1 \in DOMAIN queue
      BY <1>3
    <2>2. Carries(queue[1], Before(1))
      BY <1>2, <2>1 DEF FlowInv
    <2>3. Before(1) = Len(got)
      BY <1>4 DEF Before
    <2> QED
      BY <2>2, <2>3
  <1>6. CASE Finish("error")
    BY <1>1, <1>6, FinishKeepsBytes
  <1>7. CASE queue[1] = Data(<<>>) /\ Finish("eof")
    <2>1. Complete \/ EndsAtBlank
      BY <1>5, <1>7 DEF Carries, IsLast, Data, Complete, EndsAtBlank
    <2> QED
      BY <1>1, <1>7, <2>1, FinishKeepsBytes
  <1>8. CASE ~IsLast(queue[1]) /\ Deliver(queue[1].bytes)
    <2> DEFINE b == queue[1].bytes
    <2>1. b \in Seq(1..MaxBytes) /\ b # <<>> /\ Deliver(b)
      BY <1>3, <1>8 DEF Items, IsLast
    <2>2. Len(b) \in Nat \ {0} /\ DOMAIN b = 1..Len(b)
      BY <2>1
    <2>3. \A n \in 1..Len(b) : b[n] = Len(got) + n
      BY <1>5, <1>8, <2>2 DEF Carries
    <2> HIDE DEF b
    <2>4. Len(got') + Len(buffer') = Len(got) + Len(b)
      BY <2>1, DeliverType
    <2>5. BytesInOrder' /\ \A n \in DOMAIN buffer' : buffer'[n] = Len(got') + n
      BY <1>2, <2>1, <2>3, DeliverOrder
    <2>6. task' = "ready" /\ result' = "none"
      BY <1>2, <2>1 DEF Deliver
    <2>7. Len(got') + Len(buffer') = End(queue[1])
      <3>1. b[Len(b)] = Len(got) + Len(b)
        BY <2>2, <2>3
      <3>2. End(queue[1]) = b[Len(b)]
        BY DEF End, b
      <3> QED
        BY <2>4, <3>1, <3>2
    <2>8. \A k \in 1..l : Before(k)' = Before(k + 1)
      <3> SUFFICES ASSUME NEW k \in 1..l PROVE Before(k)' = Before(k + 1)
        OBVIOUS
      <3>1. k + 1 # 1 /\ (k + 1) - 1 = k
        BY <1>3
      <3>2. Before(k + 1) = End(queue[k])
        BY <3>1 DEF Before
      <3>3. CASE k = 1
        BY <2>7, <3>2, <3>3 DEF Before
      <3>4. CASE k # 1
        <4>1. k - 1 \in 1..(l - 1) /\ (k - 1) + 1 = k
          BY <1>3, <3>4
        <4>2. queue'[k - 1] = queue[k]
          BY <1>3, <4>1
        <4> QED
          BY <3>2, <3>4, <4>2 DEF Before, End
      <3> QED
        BY <3>3, <3>4
    <2>9. \A k \in 1..(l - 1) : Carries(queue[k], Before(k))'
      <3> SUFFICES ASSUME NEW k \in 1..(l - 1) PROVE Carries(queue[k], Before(k))'
        OBVIOUS
      <3>1. k + 1 \in DOMAIN queue /\ k \in 1..l
        BY <1>3
      <3>2. Carries(queue[k + 1], Before(k + 1))
        BY <1>2, <3>1 DEF FlowInv
      <3>3. queue'[k] = queue[k + 1] /\ Before(k)' = Before(k + 1)
        BY <1>3, <2>8, <3>1
      <3> QED
        BY <1>1, <3>2, <3>3 DEF Carries, IsLast
    <2>10. Before(Len(queue) + 1)' = Before(Len(queue) + 1)
      <3>1. l \in 1..l /\ Len(queue') + 1 = l
        BY <1>3
      <3>2. \A m : m = l => Before(m)' = Before(l + 1)
        BY <2>8, <3>1
      <3>3. Before(Len(queue) + 1)' = Before(l + 1)
        BY <3>1, <3>2 DEF Before
      <3> QED
        BY <3>3 DEF l
    <2>11. thread = "send" => Carries(item, Before(Len(queue) + 1))'
      BY <1>1, <1>2, <2>10 DEF FlowInv, Carries, IsLast
    <2>12. FlowInv'
      BY <1>1, <1>2, <1>3, <2>5, <2>9, <2>10, <2>11 DEF FlowInv, IsLast, End
    <2>13. StopInv'
      <3>1. \A k \in 1..(l - 1) : k + 1 \in 1..l /\ (k + 1 = l => k = l - 1)
        BY <1>3
      <3>2. \A k \in 1..(l - 1) : IsLast(queue'[k]) =>
              k = l - 1 /\ (thread = "done" \/ (thread = "wake" /\ IsLast(item)))
        <4> SUFFICES ASSUME NEW k \in 1..(l - 1), IsLast(queue'[k])
                     PROVE  k = l - 1 /\ (thread = "done" \/ (thread = "wake" /\ IsLast(item)))
          OBVIOUS
        <4>1. IsLast(queue[k + 1]) /\ k + 1 \in DOMAIN queue
          BY <1>3, <3>1
        <4>2. k + 1 = l /\ (thread = "done" \/ (thread = "wake" /\ IsLast(item)))
          BY <1>2, <4>1 DEF StopInv, l
        <4> QED
          BY <3>1, <4>2
      <3>3. ASSUME thread = "done" \/ (thread = "wake" /\ IsLast(item))
            PROVE  queue' # <<>> /\ IsLast(queue'[l - 1])
        <4>1. IsLast(queue[l])
          BY <1>2, <3>3 DEF StopInv, l
        <4>2. l # 1
          BY <1>8, <4>1
        <4>3. l - 1 \in 1..(l - 1) /\ (l - 1) + 1 = l
          BY <1>3, <4>2
        <4> QED
          BY <1>3, <4>1, <4>3
      <3> QED
        BY <1>1, <1>3, <3>2, <3>3 DEF StopInv, IsLast
    <2> QED
      BY <2>5, <2>6, <2>12, <2>13 DEF BytesInv, EOFMeansComplete
  <1> QED
    BY <1>3, <1>6, <1>7, <1>8 DEF PollChannel, Data, Items, IsLast

(* poll_read, with nothing: the thread has not left without a word.        *)
LEMMA PollEmptyKeepsBytes ==
  ASSUME TypeOK, StreamInv, PollEmpty
  PROVE  BytesInv'
  <1>1. task = "polling" /\ queue = <<>>
    BY DEF PollEmpty
  <1>2. FlowInv /\ StopInv /\ BytesInOrder /\ result = "none"
    BY <1>1 DEF StreamInv
  <1>3. thread # "done"
    BY <1>1, <1>2 DEF StopInv
  <1>4. /\ UNCHANGED <<written, blanks, open, taken, thread, item, queue, buffer, got, result>>
        /\ task' = "asleep"
    BY <1>3 DEF PollEmpty, pipeVars, threadVars
  <1>5. \A k : Before(k)' = Before(k)
    BY <1>4 DEF Before, End
  <1>6. thread = "send" => Carries(item, Before(Len(queue) + 1))'
    BY <1>2, <1>4, <1>5 DEF FlowInv, Carries, IsLast
  <1>7. \A k \in DOMAIN queue : Carries(queue[k], Before(k))'
    BY <1>2, <1>4, <1>5 DEF FlowInv, Carries, IsLast
  <1>8. FlowInv'
    BY <1>2, <1>4, <1>5, <1>6, <1>7 DEF FlowInv, IsLast, End
  <1>9. StopInv'
    BY <1>2, <1>4 DEF StopInv, IsLast
  <1> QED
    BY <1>2, <1>4, <1>8, <1>9 DEF BytesInv, BytesInOrder, EOFMeansComplete

-----------------------------------------------------------------------------
LEMMA StreamInit == Init => StreamInv
  <1> SUFFICES ASSUME Init PROVE StreamInv
    OBVIOUS
  <1>1. /\ got = <<>> /\ buffer = <<>> /\ queue = <<>> /\ taken = 0 /\ thread = "read"
        /\ task = "ready" /\ result = "none" /\ Len(<<>>) = 0 /\ DOMAIN <<>> = {}
    BY DEF Init
  <1>2. BytesInOrder
    <2>1. Len(got) = 0 /\ 1..0 = {}
      BY <1>1
    <2> QED
      BY <1>1, <2>1 DEF BytesInOrder
  <1>3. Len(queue) + 1 = 1 /\ Len(got) + Len(buffer) = 0
    BY <1>1
  <1>4. FlowInv
    BY <1>1, <1>3 DEF FlowInv, Before
  <1>5. StopInv
    BY <1>1 DEF StopInv
  <1> QED
    BY <1>1, <1>2, <1>4, <1>5 DEF StreamInv, EOFMeansComplete, SleeperIsWoken

LEMMA StreamStep ==
  ASSUME TypeOK, StreamInv, [Next]_vars
  PROVE  StreamInv'
  <1>1. BytesInv'
    <2>1. CASE Write \/ WriteNothing \/ Close
      BY <2>1, PipeKeepsBytes
    <2>2. CASE ReadFile
      BY <2>2, ReadFileKeepsBytes
    <2>3. CASE Send
      BY <2>3, SendKeepsBytes
    <2>4. CASE Wake \/ Poll \/ UNCHANGED vars
      BY <2>4, WakeKeepsBytes
    <2>5. CASE PollReturns
      BY <2>5, PollBufferKeepsBytes, PollChannelKeepsBytes, PollEmptyKeepsBytes DEF PollReturns
    <2>6. CASE Abandon
      BY <2>6, FinishKeepsBytes DEF Abandon
    <2> QED
      BY <2>1, <2>2, <2>3, <2>4, <2>5, <2>6 DEF Next
  <1>2. SleeperIsWoken' /\ (task' = "polling" => waker' \/ woken')
    BY WakeStep
  <1> QED
    BY <1>1, <1>2 DEF BytesInv, StreamInv

(* For every size of the buffers and every capacity: the variables keep    *)
(* their types, and the channel its bound.                                 *)
THEOREM StreamTypeCorrect == Spec => []TypeOK
  <1>1. TypeOK /\ [Next]_vars => TypeOK'
    BY TypeStep
  <1> QED
    BY TypeInit, <1>1, PTL DEF Spec

(* The inductive invariant: bytes in line from the pipe to the task, a     *)
(* thread that stops only with a word, a waker for a task that sleeps.     *)
THEOREM StreamInvariant == Spec => []IndInv
  <1>1. TypeOK /\ StreamInv /\ [Next]_vars => StreamInv'
    BY StreamStep
  <1> QED
    BY StreamTypeCorrect, StreamInit, <1>1, PTL DEF Spec, IndInv

(* poll_read hands out the bytes of ReadFile in order and without gaps.    *)
THEOREM StreamKeepsOrder == Spec => []BytesInOrder
  <1>1. StreamInv => BytesInOrder
    BY DEF StreamInv
  <1> QED
    BY StreamInvariant, <1>1, PTL DEF IndInv

(* consume_output sees the end of the stream only where there is one: the  *)
(* pipe is closed and read empty, or the child made a write of zero bytes. *)
THEOREM StreamEOFIsTrue == Spec => []EOFMeansComplete
  <1>1. StreamInv => EOFMeansComplete
    BY DEF StreamInv
  <1> QED
    BY StreamInvariant, <1>1, PTL DEF IndInv

(* read_handle and poll_read never leave the task asleep with an item in   *)
(* the channel and no wake under way.                                      *)
THEOREM NoWakeUpIsLost == Spec => []SleeperIsWoken
  <1>1. StreamInv => SleeperIsWoken
    BY DEF StreamInv
  <1> QED
    BY StreamInvariant, <1>1, PTL DEF IndInv
==============================================================================
