------------------------------ MODULE WinStream ------------------------------
(***************************************************************************)
(* WinHandleOutputStream of src/proc/spawn/win.rs: the thread that makes   *)
(* blocking reads on the pipe of a child's stdout or stderr, the channel   *)
(* it fills, and the task that polls the stream (consume_output), which    *)
(* sleeps until the thread wakes it.                                       *)
(*                                                                         *)
(* Byte n of the output is the number n.                                   *)
(***************************************************************************)
EXTENDS Naturals, Sequences, FiniteSets

CONSTANTS
  MaxBytes,   \* bound: bytes the child writes
  MaxBlanks,  \* bound: places at which it makes writes of zero bytes
  ReadSize,   \* size of the thread's buffer (1024)
  QueueCap,   \* capacity of the thread -> task channel (1024)
  Room        \* size of the buffer the task offers (1024)

ASSUME BoundsAssumption == /\ MaxBytes \in Nat
                           /\ MaxBlanks \in Nat
                           /\ ReadSize \in Nat \ {0}
                           /\ QueueCap \in Nat \ {0}
                           /\ Room \in Nat \ {0}

VARIABLES
  written,   \* bytes the child has written
  blanks,    \* how many it had written when it made a write of zero bytes
  open,      \* some process holds the write end of the pipe
  taken,     \* bytes ReadFile has returned
  thread,    \* where read_handle is: the call it is in, or done
  item,      \* what its last ReadFile returned
  queue,     \* the channel
  task,      \* the task: about to poll, inside poll_read, asleep, or done
  waker,     \* the AtomicWaker holds the task's waker
  woken,     \* the waker was used since the task last began to poll
  buffer,    \* the rest of the chunk poll_read took from the channel
  got,       \* the bytes the task has read
  result     \* why it stopped: none yet, eof, error, or abandoned

pipeVars   == <<written, blanks, open, taken>>
threadVars == <<thread, item>>
taskVars   == <<task, buffer, got, result>>
vars == <<pipeVars, threadVars, queue, waker, woken, taskVars>>

Data(bytes) == [kind |-> "data", bytes |-> bytes]
Failure == [kind |-> "error", bytes |-> <<>>]
Items == [kind : {"data", "error"}, bytes : Seq(1..MaxBytes)]

(* The item after which the thread stops: an error, or a read of nothing.  *)
IsLast(i) == i.bytes = <<>>

TypeOK ==
  /\ written \in 0..MaxBytes /\ taken \in 0..written
  /\ blanks \in SUBSET (0..written)
  /\ open \in BOOLEAN
  /\ thread \in {"read", "send", "wake", "done"}
  /\ item \in Items
  /\ queue \in Seq(Items) /\ Len(queue) <= QueueCap
  /\ task \in {"ready", "polling", "asleep", "done"}
  /\ waker \in BOOLEAN /\ woken \in BOOLEAN
  /\ buffer \in Seq(1..MaxBytes)
  /\ got \in Seq(1..MaxBytes)
  /\ result \in {"none", "eof", "error", "abandoned"}

Init ==
  /\ written = 0 /\ blanks = {} /\ open = TRUE /\ taken = 0
  /\ thread = "read" /\ item = Failure
  /\ queue = <<>>
  /\ task = "ready" /\ waker = FALSE /\ woken = FALSE
  /\ buffer = <<>> /\ got = <<>> /\ result = "none"

-----------------------------------------------------------------------------
(* The child and its pipe.                                                 *)

Write ==
  /\ open
  /\ written < MaxBytes
  /\ written' = written + 1
  /\ UNCHANGED <<blanks, open, taken, threadVars, queue, waker, woken, taskVars>>

WriteNothing ==
  /\ open
  /\ Cardinality(blanks \union {written}) <= MaxBlanks
  /\ blanks' = blanks \union {written}
  /\ UNCHANGED <<written, open, taken, threadVars, queue, waker, woken, taskVars>>

Close ==
  /\ open
  /\ open' = FALSE
  /\ UNCHANGED <<written, blanks, taken, threadVars, queue, waker, woken, taskVars>>

-----------------------------------------------------------------------------
(* read_handle.                                                            *)

(* The order of its calls.  Faulty: it wakes the task, then sends.         *)
WakeThenSend == [read |-> "wake", wake |-> "send", send |-> "read"]
ReadSendWake == [read |-> "send", send |-> "wake", wake |-> "read"]

Step(last) ==
  thread' = IF ReadSendWake[thread] = "read" /\ last THEN "done" ELSE ReadSendWake[thread]

(* ReadFile blocks until there are bytes, the last write end is closed     *)
(* (ERROR_BROKEN_PIPE, zero bytes), or it fails.  A write of zero bytes    *)
(* makes a read return zero bytes, unless it was skipped together with     *)
(* bytes around it.  Faulty: a broken pipe is seen before the bytes that   *)
(* are still in it.                                                        *)
BrokenEarly == ~open
Broken == ~open /\ taken = written

ReadFile ==
  /\ thread = "read"
  /\ \/ \E n \in 1..ReadSize :
          /\ taken + n <= written
          /\ item' = Data([i \in 1..n |-> taken + i])
          /\ taken' = taken + n
     \/ /\ Broken \/ taken \in blanks
        /\ item' = Data(<<>>)
        /\ UNCHANGED taken
     \/ /\ item' = Failure
        /\ UNCHANGED taken
  /\ Step(FALSE)
  /\ UNCHANGED <<written, blanks, open, queue, waker, woken, taskVars>>

(* tx.send blocks while the channel is full, and fails once the receiver   *)
(* is dropped.  Faulty: the channel is unbounded.                          *)
HasRoomAlways == TRUE
HasRoom == Len(queue) < QueueCap

Send ==
  /\ thread = "send"
  /\ \/ /\ task # "done"
        /\ HasRoom
        /\ queue' = Append(queue, item)
        /\ Step(IsLast(item))
     \/ /\ task = "done"
        /\ thread' = "done"
        /\ UNCHANGED queue
  /\ UNCHANGED <<pipeVars, item, waker, woken, taskVars>>

(* AtomicWaker::wake takes the waker, if there is one.                     *)
Wake ==
  /\ thread = "wake"
  /\ woken' = (woken \/ waker)
  /\ waker' = FALSE
  /\ Step(IsLast(item))
  /\ UNCHANGED <<pipeVars, item, queue, taskVars>>

-----------------------------------------------------------------------------
(* poll_read, called by the read() of consume_output.                      *)

(* The waker is registered before the channel is looked at.                *)
Poll ==
  /\ \/ task = "ready"
     \/ task = "asleep" /\ woken
  /\ task' = "polling"
  /\ waker' = TRUE
  /\ woken' = FALSE
  /\ UNCHANGED <<pipeVars, threadVars, queue, buffer, got, result>>

(* Copy what fits, keep the rest.  Faulty: the rest is dropped.            *)
RestDropped(bytes) == <<>>
Rest(bytes) == SubSeq(bytes, Room + 1, Len(bytes))

Deliver(bytes) ==
  /\ got' = got \o SubSeq(bytes, 1, IF Room < Len(bytes) THEN Room ELSE Len(bytes))
  /\ buffer' = Rest(bytes)
  /\ task' = "ready"
  /\ UNCHANGED result

Finish(how) ==
  /\ task' = "done"
  /\ result' = how
  /\ UNCHANGED <<buffer, got>>

(* The rest of poll_read and, when it is ready, of read(): zero bytes are  *)
(* the end, for which an empty channel without a sender counts too.  A     *)
(* poll that finds nothing leaves the task asleep.                         *)
PollBuffer ==
  /\ task = "polling" /\ buffer # <<>>
  /\ Deliver(buffer)
  /\ UNCHANGED <<pipeVars, threadVars, queue, waker, woken>>

PollChannel ==
  /\ task = "polling" /\ buffer = <<>>
  /\ queue # <<>>
  /\ queue' = Tail(queue)
  /\ CASE Head(queue).kind = "error" -> Finish("error")
       [] Head(queue) = Data(<<>>)   -> Finish("eof")
       [] OTHER                      -> Deliver(Head(queue).bytes)
  /\ UNCHANGED <<pipeVars, threadVars, waker, woken>>

PollEmpty ==
  /\ task = "polling" /\ buffer = <<>>
  /\ queue = <<>>
  /\ IF thread = "done" THEN Finish("eof")
     ELSE task' = "asleep" /\ UNCHANGED <<buffer, got, result>>
  /\ UNCHANGED <<pipeVars, threadVars, queue, waker, woken>>

(* consume_output gives up after a read, for nobody takes its frames.      *)
Abandon ==
  /\ task = "ready"
  /\ got # <<>>
  /\ Finish("abandoned")
  /\ UNCHANGED <<pipeVars, threadVars, queue, waker, woken>>

-----------------------------------------------------------------------------
PollReturns == PollBuffer \/ PollChannel \/ PollEmpty

Next == Write \/ WriteNothing \/ Close \/ ReadFile \/ Send \/ Wake \/ Poll \/ PollReturns \/ Abandon

(* The thread runs, and so does a task that is awake.  A read returns what *)
(* there is.  Nothing makes the child write or close its end.              *)
Spec == /\ Init /\ [][Next]_vars
        /\ WF_vars(ReadFile /\ item' # Failure) /\ WF_vars(Send) /\ WF_vars(Wake)
        /\ WF_vars(Poll) /\ WF_vars(PollReturns)

-----------------------------------------------------------------------------
(* The task reads the bytes the child wrote, in order and without gaps,    *)
(* however they were split into reads, chunks and partial copies.          *)
BytesInOrder == got = [i \in 1..Len(got) |-> i]

(* End of file means that no process can write any more, and that every    *)
(* byte was read: with one exception, a write of zero bytes, up to which   *)
(* every byte was read and after which none will be.                       *)
Complete == ~open /\ Len(got) = written
EndsAtBlank == Len(got) \in blanks
EOFMeansComplete == result = "eof" => Complete \/ EndsAtBlank

(* A task that sleeps has its waker in place, or was woken, or there is    *)
(* nothing in the channel for it yet and a wake is still to come: no order *)
(* of register, look, send and wake loses the wake-up.                     *)
SleeperIsWoken ==
  task = "asleep" => \/ woken
                     \/ waker /\ (queue = <<>> \/ thread = "wake")

(* What makes them inductive (WinStreamProofs.tla).                        *)

(* The number of bytes ahead of item k of the channel, and of what is sent *)
(* next if k is one more than its length.                                  *)
End(i) == i.bytes[Len(i.bytes)]
Before(k) == IF k = 1 THEN Len(got) + Len(buffer) ELSE End(queue[k - 1])

(* An item carries the bytes that follow the first p, or ends the stream   *)
(* there, and not without a reason.                                        *)
Carries(i, p) ==
  IF IsLast(i)
  THEN /\ p = taken
       /\ i.kind = "data" => (~open /\ taken = written) \/ taken \in blanks
  ELSE \A n \in DOMAIN i.bytes : i.bytes[n] = p + n

(* What the task has, the rest of its chunk, the channel and what is being *)
(* sent continue each other up to what was taken from the pipe.            *)
FlowInv ==
  /\ \A n \in DOMAIN buffer : buffer[n] = Len(got) + n
  /\ \A k \in DOMAIN queue : Carries(queue[k], Before(k))
  /\ thread = "send" => Carries(item, Before(Len(queue) + 1))
  /\ thread = "send" /\ ~IsLast(item) => End(item) = taken
  /\ thread = "read" \/ (thread = "wake" /\ ~IsLast(item)) => Before(Len(queue) + 1) = taken

(* The thread stops only after the item that says so, which the task finds *)
(* in the channel.                                                         *)
StopInv ==
  /\ \A k \in DOMAIN queue : IsLast(queue[k]) =>
       /\ k = Len(queue)
       /\ thread = "done" \/ (thread = "wake" /\ IsLast(item))
  /\ thread = "done" \/ (thread = "wake" /\ IsLast(item)) =>
       queue # <<>> /\ IsLast(queue[Len(queue)])

StreamInv ==
  /\ BytesInOrder /\ EOFMeansComplete /\ SleeperIsWoken
  /\ task = "polling" => waker \/ woken
  /\ result = "none" <=> task # "done"
  /\ task # "done" => FlowInv /\ StopInv

(* With the types: what every step of the two threads preserves.           *)
IndInv == TypeOK /\ StreamInv

(* What the child writes is read, in the end ("to ensure that the future   *)
(* will wake up from a Pending state"), unless the stream ended at a write *)
(* of zero bytes.                                                          *)
OutputArrives ==
  \A n \in 1..MaxBytes :
    written >= n ~> \/ Len(got) >= n
                    \/ result \in {"error", "abandoned"}
                    \/ result = "eof" /\ EndsAtBlank
==============================================================================
