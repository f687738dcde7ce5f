-------------------- MODULE ConcurrentDropHeadQueueProofs -------------------
(***************************************************************************)
(* Proofs about ConcurrentDropHeadQueue: type correctness, and that no     *)
(* wakeup is lost and only the oldest requests are dropped, for every      *)
(* capacity, every set of consumers and any number of pushes.              *)
(***************************************************************************)
EXTENDS ConcurrentDropHeadQueue, FiniteSetTheorems, SequenceTheorems, TLAPS

\* A set of consumers is finite, and one consumer counts for one.
LEMMA ConsumersCount ==
  ASSUME NEW S \in SUBSET Consumers, NEW c
  PROVE  /\ Cardinality(S) \in Nat
         /\ c \notin S => Cardinality(S \cup {c}) = Cardinality(S) + 1
         /\ Cardinality(S \ {c}) >= Cardinality(S) - 1
<1>1. IsFiniteSet(S)
  BY ConsumersAssumption, FS_Subset
<1>2. Cardinality(S) \in Nat
  BY ONLY <1>1, FS_CardinalityType
<1>3. c \notin S => Cardinality(S \cup {c}) = Cardinality(S) + 1
  BY ONLY <1>1, FS_AddElement
<1>4. Cardinality(S \ {c}) =
        IF c \in S THEN Cardinality(S) - 1 ELSE Cardinality(S)
  BY ONLY <1>1, FS_RemoveElement
<1> QED
  BY <1>2, <1>3, <1>4

-----------------------------------------------------------------------------
\* NewestKept, element by element.
ElementsKept ==
  /\ Len(popped) + overflows + Len(queue) = Len(pushed)
  /\ \A i \in 1 .. Len(queue) :
       queue[i] = pushed[Len(pushed) - Len(queue) + i]

QueueInv == QueueTypeOK /\ ElementsKept /\ NoLostWakeup

LEMMA InitEstablishes ==
  QueueInit => QueueInv
<1> SUFFICES ASSUME QueueInit PROVE QueueInv
  OBVIOUS
<1> QED
  BY CapacityAssumption
  DEF QueueInit, QueueInv, QueueTypeOK, ElementsKept, NoLostWakeup

LEMMA PushPreserves ==
  ASSUME QueueInv, NEW req \in Requests, Push(req)
  PROVE  QueueInv'
<1> DEFINE rest == IF Len(queue) >= Capacity THEN Tail(queue) ELSE queue
<1>1. /\ queue \in Seq(Requests) /\ pushed \in Seq(Requests)
      /\ popped \in Seq(Requests) /\ Len(queue) <= Capacity
      /\ waiting \subseteq Consumers /\ woken \subseteq Consumers \ waiting
  BY DEF QueueInv, QueueTypeOK
<1>2. /\ queue' = Append(rest, req) /\ pushed' = Append(pushed, req)
      /\ popped' = popped /\ NotifyOne
      /\ overflows' = IF Len(queue) = Capacity THEN overflows + 1 ELSE overflows
      /\ overflows \in Nat
  BY DEF Push, Recorded, QueueInv, QueueTypeOK
<1>3. /\ rest \in Seq(Requests)
      /\ Len(rest) < Capacity /\ Len(rest) <= Len(queue)
      /\ \A i \in 1 .. Len(rest) :
           /\ Len(queue) - Len(rest) + i \in 1 .. Len(queue)
           /\ rest[i] = queue[Len(queue) - Len(rest) + i]
  <2>1. CASE Len(queue) >= Capacity
    <3>1. queue # <<>>
      BY <1>1, <2>1, CapacityAssumption
    <3>2. /\ Tail(queue) \in Seq(Requests) /\ Len(Tail(queue)) = Len(queue) - 1
          /\ \A i \in 1 .. Len(Tail(queue)) : Tail(queue)[i] = queue[i + 1]
      BY <1>1, <3>1, HeadTailProperties
    <3> QED
      BY <1>1, <2>1, <3>2, CapacityAssumption
  <2>2. CASE ~(Len(queue) >= Capacity)
    BY <1>1, <2>2, CapacityAssumption
  <2> QED
    BY <2>1, <2>2
<1>4. Len(rest) + overflows' = Len(queue) + overflows
  <2>1. overflows \in Nat /\ Len(queue) \in Nat /\ Len(queue) <= Capacity
    BY <1>1, <1>2
  <2>2. CASE Len(queue) = Capacity
    <3>1. queue # <<>> /\ rest = Tail(queue)
      BY <1>1, <2>2, CapacityAssumption
    <3>2. Len(rest) = Len(queue) - 1
      BY <1>1, <3>1, HeadTailProperties
    <3>3. overflows' = overflows + 1
      BY <1>2, <2>2
    <3> HIDE DEF rest
    <3> QED
      BY <2>1, <3>2, <3>3
  <2>3. CASE Len(queue) < Capacity
    <3>1. rest = queue /\ overflows' = overflows
      BY <1>2, <2>1, <2>3, CapacityAssumption
    <3> QED
      BY <3>1
  <2> QED
    BY <2>1, <2>2, <2>3, CapacityAssumption
<1> HIDE DEF rest
<1>5. QueueTypeOK'
  <2>1. queue' \in Seq(Requests) /\ Len(queue') <= Capacity
    BY <1>2, <1>3, CapacityAssumption
  <2>2. pushed' \in Seq(Requests) /\ popped' \in Seq(Requests)
    BY <1>1, <1>2
  <2>3. waiting' \subseteq Consumers /\ woken' \subseteq Consumers \ waiting'
    BY <1>1, <1>2 DEF NotifyOne
  <2> QED
    BY <1>2, <2>1, <2>2, <2>3 DEF QueueTypeOK
<1>6. ElementsKept'
  <2>1. Len(queue') = Len(rest) + 1 /\ Len(pushed') = Len(pushed) + 1
    BY <1>1, <1>2, <1>3
  <2>2. /\ Len(popped) + overflows + Len(queue) = Len(pushed)
        /\ Len(popped) \in Nat /\ Len(queue) <= Len(pushed)
    BY <1>1, <1>2 DEF QueueInv, ElementsKept
  <2>3. ASSUME NEW i \in 1 .. Len(queue')
        PROVE  queue'[i] = pushed'[Len(pushed') - Len(queue') + i]
    <3>1. CASE i = Len(rest) + 1
      BY <1>1, <1>2, <1>3, <2>1, <3>1
    <3>2. CASE i \in 1 .. Len(rest)
      <4> DEFINE j == Len(queue) - Len(rest) + i
      <4>1. j \in 1 .. Len(queue) /\ queue'[i] = queue[j]
        BY <1>2, <1>3, <3>2
      <4>2. queue[j] = pushed[Len(pushed) - Len(queue) + j]
        BY <4>1 DEF QueueInv, ElementsKept
      <4>3. /\ Len(pushed) - Len(queue) + j = Len(pushed) - Len(rest) + i
            /\ Len(pushed) - Len(rest) + i \in 1 .. Len(pushed)
        BY <1>1, <1>3, <2>2, <3>2
      <4>4. pushed'[Len(pushed) - Len(rest) + i]
              = pushed[Len(pushed) - Len(rest) + i]
        BY <1>1, <1>2, <4>3
      <4>5. Len(pushed') - Len(queue') + i = Len(pushed) - Len(rest) + i
        BY <1>1, <1>3, <2>1
      <4> QED
        BY <4>1, <4>2, <4>3, <4>4, <4>5
    <3> QED
      BY <1>3, <2>1, <3>1, <3>2
  <2>4. Len(popped') + overflows' + Len(queue') = Len(pushed')
    <3>1. /\ Len(popped) \in Nat /\ overflows \in Nat /\ Len(queue) \in Nat
          /\ Len(rest) \in Nat /\ Len(pushed) \in Nat /\ overflows' \in Nat
      BY <1>1, <1>2, <1>3
    <3>2. popped' = popped /\ Len(popped') = Len(popped)
      BY <1>2
    <3>3. Len(queue') + overflows' = Len(queue) + overflows + 1
      BY ONLY <1>4, <2>1, <3>1
    <3>4. Len(queue') \in Nat
      BY <2>1, <3>1
    <3> QED
      BY ONLY <2>1, <2>2, <3>1, <3>2, <3>3, <3>4
  <2> QED
    BY <2>3, <2>4 DEF ElementsKept
<1>7. NoLostWakeup'
  <2>1. CASE waiting = {}
    BY <1>2, <2>1 DEF NotifyOne, NoLostWakeup
  <2>2. CASE waiting # {}
    <3>1. PICK c \in waiting : waiting' = waiting \ {c} /\ woken' = woken \cup {c}
      BY <1>2, <2>2 DEF NotifyOne
    <3>2. Len(queue) <= Cardinality(woken)
      BY <2>2 DEF QueueInv, NoLostWakeup
    <3>3. /\ Cardinality(woken) \in Nat
          /\ Cardinality(woken \cup {c}) = Cardinality(woken) + 1
      BY <1>1, ConsumersCount
    <3>4. Len(queue') <= Len(queue) + 1
      BY <1>1, <1>2, <1>3
    <3>5. Len(queue') \in Nat /\ Len(queue) \in Nat
      BY <1>1, <1>2, <1>3
    <3> QED
      BY <3>1, <3>2, <3>3, <3>4, <3>5 DEF NoLostWakeup
  <2> QED
    BY <2>1, <2>2
<1> QED
  BY <1>5, <1>6, <1>7 DEF QueueInv

LEMMA PopPreserves ==
  ASSUME QueueInv, NEW c \in Consumers, Pop(c)
  PROVE  QueueInv'
<1>1. /\ queue \in Seq(Requests) /\ pushed \in Seq(Requests)
      /\ popped \in Seq(Requests) /\ Len(queue) <= Capacity
      /\ waiting \subseteq Consumers /\ woken \subseteq Consumers \ waiting
  BY DEF QueueInv, QueueTypeOK
<1>2. /\ c \notin waiting /\ woken' = woken \ {c} /\ pushed' = pushed
      /\ overflows' = overflows /\ overflows \in Nat
  BY DEF Pop, QueueInv, QueueTypeOK
<1>3. CASE queue = <<>>
  <2>1. waiting' = waiting \cup {c} /\ queue' = <<>> /\ popped' = popped
    BY <1>3 DEF Pop
  <2>2. Cardinality(woken \ {c}) \in Nat
    BY <1>1, ConsumersCount
  <2> QED
    BY <1>1, <1>2, <1>3, <2>1, <2>2
    DEF QueueInv, QueueTypeOK, ElementsKept, NoLostWakeup
<1>4. CASE queue # <<>>
  <2>1. /\ queue' = Tail(queue) /\ popped' = Append(popped, Head(queue))
        /\ waiting' = waiting
    BY <1>4 DEF Pop
  <2>2. /\ Head(queue) \in Requests /\ Tail(queue) \in Seq(Requests)
        /\ Len(Tail(queue)) = Len(queue) - 1
        /\ \A i \in 1 .. Len(Tail(queue)) : Tail(queue)[i] = queue[i + 1]
    BY <1>1, <1>4, HeadTailProperties
  <2>3. QueueTypeOK'
    <3>1. queue' \in Seq(Requests) /\ Len(queue') <= Capacity
      BY <1>1, <2>1, <2>2, CapacityAssumption
    <3>2. pushed' \in Seq(Requests) /\ popped' \in Seq(Requests)
      BY <1>1, <1>2, <2>1, <2>2
    <3> QED
      BY <1>1, <1>2, <2>1, <3>1, <3>2 DEF QueueTypeOK
  <2>4. ElementsKept'
    <3>1. /\ Len(popped') = Len(popped) + 1 /\ Len(popped) \in Nat
          /\ Len(queue') = Len(queue) - 1 /\ Len(queue) \in Nat /\ Len(pushed) \in Nat
      BY <1>1, <2>1, <2>2
    <3>2. /\ Len(popped) + overflows + Len(queue) = Len(pushed)
          /\ \A i \in 1 .. Len(queue) :
               queue[i] = pushed[Len(pushed) - Len(queue) + i]
      BY DEF QueueInv, ElementsKept
    <3>3. Len(popped') + overflows' + Len(queue') = Len(pushed')
      BY <1>2, <3>1, <3>2
    <3>4. ASSUME NEW i \in 1 .. Len(queue')
          PROVE  queue'[i] = pushed'[Len(pushed') - Len(queue') + i]
      <4>1. i + 1 \in 1 .. Len(queue) /\ queue'[i] = queue[i + 1]
        BY <2>1, <2>2, <3>1
      <4>2. Len(pushed) - Len(queue) + (i + 1) = Len(pushed') - Len(queue') + i
        BY <1>2, <3>1
      <4> QED
        BY <1>2, <3>2, <4>1, <4>2
    <3> QED
      BY <3>3, <3>4 DEF ElementsKept
  <2>5. NoLostWakeup'
    <3>1. /\ Cardinality(woken) \in Nat /\ Cardinality(woken \ {c}) \in Nat
          /\ Cardinality(woken \ {c}) >= Cardinality(woken) - 1
      BY <1>1, ConsumersCount
    <3>2. Len(queue) \in Nat
      BY <1>1
    <3> QED
      BY <1>2, <2>1, <2>2, <3>1, <3>2 DEF QueueInv, NoLostWakeup
  <2> QED
    BY <2>3, <2>4, <2>5 DEF QueueInv
<1> QED
  BY <1>3, <1>4

LEMMA SpuriousWakeupPreserves ==
  ASSUME QueueInv, NEW c \in Consumers, SpuriousWakeup(c)
  PROVE  QueueInv'
<1>1. QueueTypeOK' /\ ElementsKept'
  BY DEF QueueInv, QueueTypeOK, ElementsKept, SpuriousWakeup
<1>2. NoLostWakeup'
  <2>1. /\ Cardinality(woken) \in Nat
        /\ Cardinality(woken \cup {c}) = Cardinality(woken) + 1
    BY ConsumersCount DEF QueueInv, QueueTypeOK, SpuriousWakeup
  <2>2. Len(queue) \in Nat /\ Len(queue) <= Cardinality(woken)
    BY DEF QueueInv, QueueTypeOK, NoLostWakeup, SpuriousWakeup
  <2> QED
    BY <2>1, <2>2 DEF NoLostWakeup, SpuriousWakeup
<1> QED
  BY <1>1, <1>2 DEF QueueInv

\* The conjunction of the three is inductive.
THEOREM QueueInductive == QueueSpec => []QueueInv
<1>1. QueueInv /\ [QueueNext]_queue_vars => QueueInv'
  <2> SUFFICES ASSUME QueueInv, [QueueNext]_queue_vars PROVE QueueInv'
    OBVIOUS
  <2>1. CASE QueueNext
    BY <2>1, PushPreserves, PopPreserves, SpuriousWakeupPreserves DEF QueueNext
  <2>2. CASE UNCHANGED queue_vars
    BY <2>2 DEF queue_vars, QueueInv, QueueTypeOK, ElementsKept, NoLostWakeup
  <2> QED
    BY <2>1, <2>2
<1> QED
  BY <1>1, InitEstablishes, PTL DEF QueueSpec

\* The queue is type correct and never holds more than its capacity.
THEOREM QueueTypeCorrect == QueueSpec => []QueueTypeOK
<1>1. QueueInv => QueueTypeOK
  BY DEF QueueInv
<1> QED
  BY <1>1, QueueInductive, PTL

\* notify_one is enough: whatever the order in which consumers arrive, are
\* woken and get the mutex, those awake can take all there is.
THEOREM NoWakeupLost == QueueSpec => []NoLostWakeup
<1>1. QueueInv => NoLostWakeup
  BY DEF QueueInv
<1> QED
  BY <1>1, QueueInductive, PTL

\* What the queue holds is the end of what was pushed, in that order, and
\* each push that found the queue full has dropped one element, no other any.
THEOREM OnlyOldestDropped == QueueSpec => []NewestKept
<1>1. QueueInv => NewestKept
  <2> SUFFICES ASSUME QueueInv PROVE NewestKept
    OBVIOUS
  <2> DEFINE first == Len(pushed) - Len(queue) + 1
             end == SubSeq(pushed, first, Len(pushed))
  <2>1. queue \in Seq(Requests) /\ pushed \in Seq(Requests)
        /\ popped \in Seq(Requests)
    BY DEF QueueInv, QueueTypeOK
  <2>2. /\ Len(popped) + overflows + Len(queue) = Len(pushed)
        /\ Len(popped) \in Nat /\ Len(queue) <= Len(pushed)
    BY <2>1 DEF QueueInv, QueueTypeOK, ElementsKept
  <2>3. first \in 1 .. Len(pushed) + 1
    BY <2>1, <2>2
  <2>4. end \in Seq(Requests) /\ Len(end) = Len(queue)
    BY <2>1, <2>2, <2>3
  <2>5. ASSUME NEW i \in 1 .. Len(queue) PROVE end[i] = queue[i]
    BY <2>1, <2>2, <2>3, <2>4 DEF QueueInv, ElementsKept
  <2>6. queue = end
    BY <2>1, <2>4, <2>5, SeqEqual
  <2> QED
    BY <2>2, <2>6 DEF NewestKept
<1> QED
  BY <1>1, QueueInductive, PTL
=============================================================================
