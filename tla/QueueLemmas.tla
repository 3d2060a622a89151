------------------------------ MODULE QueueLemmas ------------------------------
(* What an invariant about the events on their way rests on: an event appended  *)
(* or taken out leaves the others as they were.                                 *)
EXTENDS Integers, SequencesExt, SequenceTheorems, TLAPS

(* A queue grows by its last element only.                                      *)
LEMMA Appended ==
  ASSUME NEW S, NEW queue \in Seq(S), NEW e \in S
  PROVE  /\ Append(queue, e) \in Seq(S)
         /\ \A j \in DOMAIN Append(queue, e) :
              Append(queue, e)[j] = e \/ \E k \in DOMAIN queue : Append(queue, e)[j] = queue[k]
<1>1. /\ Append(queue, e) \in Seq(S)
      /\ DOMAIN Append(queue, e) = 1..(Len(queue) + 1)
      /\ \A j \in DOMAIN queue : Append(queue, e)[j] = queue[j]
      /\ Append(queue, e)[Len(queue) + 1] = e
      /\ DOMAIN queue = 1..Len(queue) /\ Len(queue) \in Nat
  OBVIOUS
<1>2. ASSUME NEW j \in 1..(Len(queue) + 1)
      PROVE  j \in 1..Len(queue) \/ j = Len(queue) + 1
  BY <1>1
<1>3. QED
  BY <1>1, <1>2

(* Where the elements of a grown queue are.                                     *)
LEMMA AppendedAt ==
  ASSUME NEW S, NEW queue \in Seq(S), NEW e \in S
  PROVE  /\ Append(queue, e) \in Seq(S)
         /\ DOMAIN queue = 1..Len(queue) /\ Len(queue) \in Nat
         /\ DOMAIN Append(queue, e) = 1..(Len(queue) + 1)
         /\ \A j \in DOMAIN queue :
              j \in DOMAIN Append(queue, e) /\ Append(queue, e)[j] = queue[j]
         /\ Append(queue, e)[Len(queue) + 1] = e
<1>1. /\ Append(queue, e) \in Seq(S)
      /\ DOMAIN Append(queue, e) = 1..(Len(queue) + 1)
      /\ \A j \in DOMAIN queue : Append(queue, e)[j] = queue[j]
      /\ Append(queue, e)[Len(queue) + 1] = e
      /\ DOMAIN queue = 1..Len(queue) /\ Len(queue) \in Nat
  OBVIOUS
<1>2. \A j \in 1..Len(queue) : j \in 1..(Len(queue) + 1)
  BY <1>1
<1>3. QED
  BY <1>1, <1>2

(* Where the elements of a shortened queue are: those behind move up by one.    *)
LEMMA RemovedAt ==
  ASSUME NEW S, NEW queue \in Seq(S), NEW i \in DOMAIN queue
  PROVE  /\ RemoveAt(queue, i) \in Seq(S)
         /\ DOMAIN queue = 1..Len(queue) /\ Len(queue) \in Nat
         /\ DOMAIN RemoveAt(queue, i) = 1..(Len(queue) - 1)
         /\ \A j \in 1..(Len(queue) - 1) :
              RemoveAt(queue, i)[j] = IF j < i THEN queue[j] ELSE queue[j + 1]
<1> DEFINE front == SubSeq(queue, 1, i - 1)
           back == SubSeq(queue, i + 1, Len(queue))
<1>0. DOMAIN queue = 1..Len(queue) /\ Len(queue) \in Nat /\ i \in 1..Len(queue)
  OBVIOUS
<1>1. /\ front \in Seq(S)
      /\ Len(front) = i - 1
      /\ \A j \in 1..(i - 1) : front[j] = queue[j]
  BY <1>0, SubSeqProperties
<1>2. /\ back \in Seq(S)
      /\ Len(back) = Len(queue) - i
      /\ \A j \in 1..(Len(queue) - i) : back[j] = queue[i + j]
  BY <1>0, SubSeqProperties
<1>3. RemoveAt(queue, i) = front \o back
  BY DEF RemoveAt
<1> HIDE DEF front, back
<1>4. /\ front \o back \in Seq(S)
      /\ Len(front \o back) = Len(front) + Len(back)
      /\ \A j \in 1..(Len(front) + Len(back)) :
           (front \o back)[j] = IF j <= Len(front) THEN front[j] ELSE back[j - Len(front)]
  BY <1>1, <1>2, ConcatProperties
<1>5. Len(front) + Len(back) = Len(queue) - 1
  BY <1>0, <1>1, <1>2
<1>6. DOMAIN (front \o back) = 1..(Len(queue) - 1)
  BY <1>4, <1>5
<1>7. ASSUME NEW j \in 1..(Len(queue) - 1)
      PROVE  (front \o back)[j] = IF j < i THEN queue[j] ELSE queue[j + 1]
  <2>1. (front \o back)[j] = IF j <= i - 1 THEN front[j] ELSE back[j - (i - 1)]
    BY <1>1, <1>4, <1>5
  <2>2. CASE j < i
    <3>1. j \in 1..(i - 1) /\ j <= i - 1
      BY <1>0, <2>2
    <3>2. QED
      BY <1>1, <2>1, <2>2, <3>1
  <2>3. CASE ~(j < i)
    <3>1. /\ j - (i - 1) \in 1..(Len(queue) - i)
          /\ ~(j <= i - 1)
          /\ i + (j - (i - 1)) = j + 1
      BY <1>0, <2>3
    <3>2. back[j - (i - 1)] = queue[j + 1]
      BY <1>2, <3>1
    <3>3. QED
      BY <2>1, <2>3, <3>1, <3>2
  <2>4. QED
    BY <2>2, <2>3
<1>8. QED
  BY <1>0, <1>3, <1>4, <1>6, <1>7

(* What is left of a queue was in it.                                           *)
LEMMA Removed ==
  ASSUME NEW S, NEW queue \in Seq(S), NEW i \in DOMAIN queue
  PROVE  /\ RemoveAt(queue, i) \in Seq(S)
         /\ \A j \in DOMAIN RemoveAt(queue, i) :
              \E k \in DOMAIN queue : RemoveAt(queue, i)[j] = queue[k]
<1>1. /\ RemoveAt(queue, i) \in Seq(S)
      /\ DOMAIN queue = 1..Len(queue) /\ Len(queue) \in Nat
      /\ DOMAIN RemoveAt(queue, i) = 1..(Len(queue) - 1)
      /\ \A j \in 1..(Len(queue) - 1) :
           RemoveAt(queue, i)[j] = IF j < i THEN queue[j] ELSE queue[j + 1]
  BY RemovedAt
<1>2. \A j \in 1..(Len(queue) - 1) : j \in 1..Len(queue) /\ j + 1 \in 1..Len(queue)
  BY <1>1
<1>3. QED
  BY <1>1, <1>2

(* What was in a queue, but for the one taken out, is left in it.               *)
LEMMA StillQueued ==
  ASSUME NEW S, NEW queue \in Seq(S), NEW i \in DOMAIN queue, NEW k \in DOMAIN queue, k # i
  PROVE  \E j \in DOMAIN RemoveAt(queue, i) : RemoveAt(queue, i)[j] = queue[k]
<1>1. /\ DOMAIN queue = 1..Len(queue) /\ Len(queue) \in Nat
      /\ DOMAIN RemoveAt(queue, i) = 1..(Len(queue) - 1)
      /\ \A j \in 1..(Len(queue) - 1) :
           RemoveAt(queue, i)[j] = IF j < i THEN queue[j] ELSE queue[j + 1]
  BY RemovedAt
<1>2. CASE k < i
  <2>1. k \in 1..(Len(queue) - 1)
    BY <1>1, <1>2
  <2>2. QED
    BY <1>1, <1>2, <2>1
<1>3. CASE k > i
  <2>1. k - 1 \in 1..(Len(queue) - 1) /\ ~(k - 1 < i) /\ (k - 1) + 1 = k
    BY <1>1, <1>3
  <2>2. RemoveAt(queue, i)[k - 1] = queue[k]
    BY <1>1, <2>1
  <2>3. QED
    BY <1>1, <2>1, <2>2
<1>4. k < i \/ k > i
  BY <1>1
<1>5. QED
  BY <1>2, <1>3, <1>4
================================================================================
