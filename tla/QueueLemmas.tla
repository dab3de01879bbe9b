----------------------------- MODULE QueueLemmas -----------------------------
(***************************************************************************)
(* Channels are sequences: what it means to send to one, to receive from   *)
(* one, and to read several channels as one line.  The proofs about        *)
(* Broadcaster.tla and Tracker.tla cite these facts by name.               *)
(***************************************************************************)
EXTENDS Naturals, Sequences, SequenceTheorems, TLAPS

(* What receiving from a queue leaves.                                     *)
LEMMA HeadTail ==
  ASSUME NEW S, NEW s \in Seq(S), s # <<>>
  PROVE  /\ Head(s) \in S
         /\ Head(s) = s[1]
         /\ Tail(s) \in Seq(S)
         /\ Len(s) \in Nat \ {0}
         /\ DOMAIN s = 1..Len(s)
         /\ DOMAIN Tail(s) = 1..(Len(s) - 1)
         /\ Len(Tail(s)) = Len(s) - 1
         /\ \A i \in 1..(Len(s) - 1) : Tail(s)[i] = s[i + 1]
  BY HeadTailProperties

(* What sending to a queue adds.                                           *)
LEMMA AppendAt ==
  ASSUME NEW S, NEW s \in Seq(S), NEW e \in S
  PROVE  /\ Append(s, e) \in Seq(S)
         /\ Len(s) \in Nat
         /\ Len(Append(s, e)) = Len(s) + 1
         /\ DOMAIN s = 1..Len(s)
         /\ DOMAIN Append(s, e) = 1..(Len(s) + 1)
         /\ \A i \in 1..Len(s) : Append(s, e)[i] = s[i]
         /\ Append(s, e)[Len(s) + 1] = e
  OBVIOUS

(* Moving the head of one queue to the end of the queue before it changes  *)
(* nothing in their concatenation.                                         *)
LEMMA MoveHead ==
  ASSUME NEW S, NEW s \in Seq(S), NEW t \in Seq(S), t # <<>>
  PROVE  Append(s, Head(t)) \o Tail(t) = s \o t
  <1>1. Append(s, Head(t)) \in Seq(S) /\ Tail(t) \in Seq(S)
    OBVIOUS
  <1> QED
    BY <1>1, SeqEqual, ConcatProperties, AppendProperties, HeadTailProperties

(* The head of a queue is the head of all that follows in line.            *)
LEMMA HeadOfConcat ==
  ASSUME NEW S, NEW s \in Seq(S), NEW t \in Seq(S), s # <<>>
  PROVE  /\ s \o t \in Seq(S)
         /\ s \o t # <<>>
         /\ Head(s \o t) = Head(s)
         /\ Tail(s \o t) = Tail(s) \o t
  <1>1. s \o t \in Seq(S) /\ Tail(s) \in Seq(S) /\ Len(s) \in Nat \ {0}
    OBVIOUS
  <1>2. s \o t # <<>> /\ Head(s \o t) = Head(s)
    BY <1>1, ConcatProperties, HeadTailProperties
  <1>3. Tail(s \o t) \in Seq(S) /\ Tail(s) \o t \in Seq(S)
    BY <1>1, <1>2, HeadTailProperties
  <1>4. Tail(s \o t) = Tail(s) \o t
    BY <1>1, <1>2, <1>3, SeqEqual, ConcatProperties, HeadTailProperties
  <1> QED
    BY <1>1, <1>2, <1>4

(* Appending to the last queue appends to the concatenation.               *)
LEMMA AppendToLast ==
  ASSUME NEW S, NEW s \in Seq(S), NEW t \in Seq(S), NEW e \in S
  PROVE  s \o Append(t, e) = Append(s \o t, e)
  <1>1. Append(t, e) \in Seq(S) /\ s \o t \in Seq(S)
    OBVIOUS
  <1> QED
    BY <1>1, SeqEqual, ConcatProperties, AppendProperties

LEMMA ConcatEmpty ==
  ASSUME NEW S, NEW s \in Seq(S)
  PROVE  s \o <<>> = s /\ <<>> \o s = s
  OBVIOUS
==============================================================================
