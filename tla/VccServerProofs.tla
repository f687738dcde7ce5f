-------------------------- MODULE VccServerProofs ---------------------------
(***************************************************************************)
(* One call of Generate, whatever is requested and however its two threads *)
(* interleave: what the client is sent is some of what was pushed, in that *)
(* order, all of it unless the queue overflowed, and Response never sleeps *)
(* in Pop.                                                                 *)
(***************************************************************************)
EXTENDS VccServer, CoverSearchProofs

\* The cover Response has taken from the queue and not yet written.
InHand == IF child = "write" THEN <<mvc>> ELSE <<>>

\* Where the two threads are.
Places ==
  /\ request \in Requests
  /\ to_push = ToPush(request)
  /\ handler \in {"run", "join", "ok"}
  /\ done \in BOOLEAN
  /\ child \in {"check", "size", "pop", "write", "ended"}

\* All that is anywhere is among what the algorithm may push.
Covers ==
  /\ written \in Seq(to_push)
  /\ queue \in Seq(to_push)
  /\ pushed \in Seq(to_push)
  /\ popped \in Seq(to_push)
  /\ mvc \in to_push \cup {NoCover}
  /\ child = "write" => mvc \in to_push
  /\ Len(queue) <= QueueCapacity
  /\ overflows \in Nat

\* Response enters Pop only after it has seen the queue not empty, and nobody
\* else takes anything from it.
Alone ==
  /\ waiting = {}
  /\ woken = {}
  /\ child = "pop" => queue # <<>>

\* The queue holds the end of what was pushed.
QueueEnd ==
  /\ Len(queue) <= Len(pushed)
  /\ \A i \in 1 .. Len(queue) :
       queue[i] = pushed[Len(pushed) - Len(queue) + i]

\* The position in pushed of the last element that the queue does not hold.
LastOut == Len(pushed) - Len(queue)

\* The positions P of pushed were written, in that order.
Wrote(P) ==
  /\ Cardinality(P) = Len(written)
  /\ \A p \in P : written[Cardinality({q \in P : q <= p})] = pushed[p]

\* InOrder, and the queue holds only what was pushed after all that was
\* written and after what Response has in hand.
Drawn ==
  \E P \in SUBSET (1 .. LastOut) :
    /\ Wrote(P)
    /\ child = "write" =>
         \E k \in 1 .. LastOut : pushed[k] = mvc /\ \A p \in P : p < k

IInv == Places /\ Covers /\ Alone /\ QueueEnd /\ NoneLostInside /\ Drawn

-----------------------------------------------------------------------------
(***************************************************************************)
(* Sequences and positions.                                                *)
(***************************************************************************)

\* Moving an element from the front of one sequence to the end of another
\* leaves their concatenation alone.
LEMMA MoveHead ==
  ASSUME NEW T, NEW s \in Seq(T), NEW t \in Seq(T), t # <<>>
  PROVE  /\ s \o <<Head(t)>> \o Tail(t) = s \o t
         /\ Append(s, Head(t)) = s \o <<Head(t)>>
<1> DEFINE h == Head(t)
           r == Tail(t)
<1>1. h \in T /\ r \in Seq(T) /\ <<h>> \in Seq(T)
  BY HeadTailProperties
<1>2. t = <<h>> \o r
  <2>1. /\ Len(r) = Len(t) - 1 /\ \A i \in 1 .. Len(r) : r[i] = t[i + 1]
        /\ Len(t) \in Nat /\ Len(t) # 0 /\ h = t[1]
    BY HeadTailProperties, EmptySeq, LenProperties
  <2>2. /\ <<h>> \o r \in Seq(T) /\ Len(<<h>> \o r) = 1 + Len(r)
        /\ \A i \in 1 .. 1 + Len(r) :
             (<<h>> \o r)[i] = IF i <= 1 THEN h ELSE r[i - 1]
    <3>1. Len(<<h>>) = 1 /\ <<h>>[1] = h
      OBVIOUS
    <3> HIDE DEF h, r
    <3> QED
      BY <1>1, <3>1, ConcatProperties
  <2>3. ASSUME NEW i \in 1 .. Len(t) PROVE t[i] = (<<h>> \o r)[i]
    BY <2>1, <2>2
  <2>4. Len(<<h>> \o r) = Len(t)
    BY <2>1, <2>2
  <2> QED
    BY <2>2, <2>3, <2>4, SeqEqual
<1> HIDE DEF h, r
<1>3. s \o <<h>> \o r = s \o (<<h>> \o r)
  BY <1>1, ConcatAssociative
<1> QED
  BY <1>1, <1>2, <1>3, AppendIsConcat DEF h, r

\* Appending to the last of two sequences appends to their concatenation.
LEMMA AppendToLast ==
  ASSUME NEW T, NEW s \in Seq(T), NEW t \in Seq(T), NEW x \in T
  PROVE  s \o Append(t, x) = Append(s \o t, x)
<1>1. <<x>> \in Seq(T) /\ s \o t \in Seq(T)
  BY ConcatProperties
<1>2. s \o (t \o <<x>>) = s \o t \o <<x>>
  BY <1>1, ConcatAssociative
<1> QED
  BY <1>1, <1>2, AppendIsConcat

\* A position behind those of P comes last among them.
LEMMA PositionAdded ==
  ASSUME NEW n \in Nat, NEW P \in SUBSET (1 .. n), NEW k \in 1 .. n,
         \A p \in P : p < k
  PROVE  /\ Cardinality(P) \in Nat
         /\ Cardinality(P \cup {k}) = Cardinality(P) + 1
         /\ {q \in P \cup {k} : q <= k} = P \cup {k}
         /\ \A p \in P : {q \in P \cup {k} : q <= p} = {q \in P : q <= p}
         /\ \A p \in P : Cardinality({q \in P : q <= p}) \in 1 .. Cardinality(P)
<1>1. IsFiniteSet(P)
  <2>1. IsFiniteSet(1 .. n)
    BY FS_Interval
  <2> QED
    BY <2>1, FS_Subset
<1>2. k \notin P
  OBVIOUS
<1>3. Cardinality(P) \in Nat
  BY <1>1, FS_CardinalityType
<1>4. Cardinality(P \cup {k}) = Cardinality(P) + 1
  BY <1>1, <1>2, FS_AddElement
<1>5. ASSUME NEW p \in P
      PROVE  Cardinality({q \in P : q <= p}) \in 1 .. Cardinality(P)
  <2> DEFINE Q == {q \in P : q <= p}
  <2>1. p \in Q /\ Q \in SUBSET P
    OBVIOUS
  <2> HIDE DEF Q
  <2>2. IsFiniteSet(Q) /\ Cardinality(Q) <= Cardinality(P)
    BY <1>1, <2>1, FS_Subset
  <2>3. Cardinality(Q) \in Nat /\ (Cardinality(Q) = 0 <=> Q = {})
    BY <2>2, FS_CardinalityType, FS_EmptySet
  <2> QED
    BY <1>3, <2>1, <2>2, <2>3 DEF Q
<1>6. {q \in P \cup {k} : q <= k} = P \cup {k}
  <2>1. \A q \in P \cup {k} : q <= k
    OBVIOUS
  <2> QED
    BY ONLY <2>1, Zenon
<1>7. \A p \in P : {q \in P \cup {k} : q <= p} = {q \in P : q <= p}
  OBVIOUS
<1> QED
  BY <1>3, <1>4, <1>5, <1>6, <1>7

-----------------------------------------------------------------------------
(***************************************************************************)
(* The invariant is inductive.                                             *)
(***************************************************************************)

LEMMA InitEstablishes == Init => IInv
<1> SUFFICES ASSUME Init PROVE IInv
  OBVIOUS
<1>1. /\ written = <<>> /\ queue = <<>> /\ pushed = <<>> /\ popped = <<>>
      /\ overflows = 0
      /\ waiting = {} /\ woken = {} /\ child = "check" /\ mvc = NoCover
  BY DEF Init, Queue!QueueInit
<1>2. Places
  BY DEF Init, Places
<1>3. Covers /\ Alone /\ QueueEnd
  BY <1>1, QueueCapacityAssumption DEF Covers, Alone, QueueEnd
<1>4. NoneLostInside
  <2>1. /\ <<>> \in Seq(Nat) /\ <<>> \o <<>> = <<>> /\ Len(<<>>) = 0
    BY ConcatEmptySeq
  <2> QED
    BY <1>1, <2>1 DEF NoneLostInside
<1>5. Drawn
  <2>1. Wrote({}) /\ {} \in SUBSET (1 .. LastOut)
    BY <1>1, FS_EmptySet DEF Wrote
  <2> QED
    BY <1>1, <2>1 DEF Drawn
<1> QED
  BY <1>2, <1>3, <1>4, <1>5 DEF IInv

\* A push makes the queue's positions, and with them all behind, no smaller.
LEMMA PushPreserves == IInv /\ PushCover => IInv'
<1> SUFFICES ASSUME IInv, PushCover PROVE IInv'
  OBVIOUS
<1>1. PICK S \in to_push : Queue!Push(S)
  BY DEF PushCover
<1> DEFINE rest == IF Len(queue) >= QueueCapacity THEN Tail(queue) ELSE queue
<1>2. /\ queue' = Append(rest, S) /\ pushed' = Append(pushed, S)
      /\ popped' = popped /\ Queue!NotifyOne
      /\ overflows' = IF Len(queue) = QueueCapacity THEN overflows + 1 ELSE overflows
  BY <1>1 DEF Queue!Push, Queue!Recorded
<1>3. /\ request' = request /\ to_push' = to_push /\ handler' = handler
      /\ done' = done /\ child' = child /\ mvc' = mvc /\ written' = written
  BY DEF PushCover
<1>4. /\ written \in Seq(to_push) /\ queue \in Seq(to_push)
      /\ pushed \in Seq(to_push) /\ popped \in Seq(to_push)
      /\ Len(queue) <= QueueCapacity
      /\ Len(queue) \in Nat /\ Len(pushed) \in Nat /\ overflows \in Nat
  BY DEF IInv, Covers
<1>5. /\ rest \in Seq(to_push)
      /\ Len(rest) < QueueCapacity /\ Len(rest) <= Len(queue)
      /\ \A i \in 1 .. Len(rest) :
           /\ Len(queue) - Len(rest) + i \in 1 .. Len(queue)
           /\ rest[i] = queue[Len(queue) - Len(rest) + i]
  <2>1. CASE Len(queue) >= QueueCapacity
    <3>1. queue # <<>>
      BY <1>4, <2>1, QueueCapacityAssumption
    <3>2. /\ Tail(queue) \in Seq(to_push) /\ Len(Tail(queue)) = Len(queue) - 1
          /\ \A i \in 1 .. Len(Tail(queue)) : Tail(queue)[i] = queue[i + 1]
      BY <1>4, <3>1, HeadTailProperties
    <3> QED
      BY <1>4, <2>1, <3>2, QueueCapacityAssumption
  <2>2. CASE ~(Len(queue) >= QueueCapacity)
    BY <1>4, <2>2, QueueCapacityAssumption
  <2> QED
    BY <2>1, <2>2
<1>6. /\ Len(queue) < QueueCapacity => rest = queue
      /\ Len(queue) = QueueCapacity => Len(rest) = Len(queue) - 1
  <2>1. CASE Len(queue) = QueueCapacity
    <3>1. queue # <<>>
      BY <1>4, <2>1, QueueCapacityAssumption
    <3>2. rest = Tail(queue)
      BY <2>1, QueueCapacityAssumption
    <3> QED
      BY <1>4, <2>1, <3>1, <3>2, HeadTailProperties, QueueCapacityAssumption
  <2>2. CASE ~(Len(queue) = QueueCapacity)
    BY <1>4, <2>2, QueueCapacityAssumption
  <2> QED
    BY <2>1, <2>2
<1> HIDE DEF rest
<1>7. /\ queue' \in Seq(to_push) /\ queue' # <<>>
      /\ Len(queue') = Len(rest) + 1 /\ queue'[Len(rest) + 1] = S
      /\ \A i \in 1 .. Len(rest) : queue'[i] = rest[i]
  BY <1>2, <1>5, AppendProperties
<1>8. /\ pushed' \in Seq(to_push) /\ Len(pushed') = Len(pushed) + 1
      /\ pushed'[Len(pushed) + 1] = S
      /\ \A i \in 1 .. Len(pushed) : pushed'[i] = pushed[i]
  BY <1>2, <1>4, AppendProperties
<1>9. Places'
  BY <1>3 DEF IInv, Places
<1>10. Covers'
  BY <1>2, <1>3, <1>4, <1>5, <1>7, <1>8, QueueCapacityAssumption
     DEF IInv, Covers
<1>11. Alone'
  BY <1>2, <1>3, <1>7 DEF IInv, Alone, Queue!NotifyOne
<1>12. QueueEnd'
  <2>1. Len(queue) <= Len(pushed)
    BY DEF IInv, QueueEnd
  <2>2. ASSUME NEW i \in 1 .. Len(queue')
        PROVE  queue'[i] = pushed'[Len(pushed') - Len(queue') + i]
    <3>1. CASE i = Len(rest) + 1
      BY <1>4, <1>5, <1>7, <1>8, <3>1
    <3>2. CASE i \in 1 .. Len(rest)
      <4> DEFINE j == Len(queue) - Len(rest) + i
      <4>1. j \in 1 .. Len(queue) /\ queue'[i] = queue[j]
        BY <1>5, <1>7, <3>2
      <4>2. queue[j] = pushed[Len(pushed) - Len(queue) + j]
        BY <4>1 DEF IInv, QueueEnd
      <4>3. /\ Len(pushed) - Len(queue) + j = Len(pushed) - Len(rest) + i
            /\ Len(pushed) - Len(rest) + i \in 1 .. Len(pushed)
        BY <1>4, <1>5, <2>1, <3>2
      <4>4. Len(pushed') - Len(queue') + i = Len(pushed) - Len(rest) + i
        BY <1>4, <1>5, <1>7, <1>8
      <4> QED
        BY <1>8, <4>1, <4>2, <4>3, <4>4
    <3> QED
      BY <1>5, <1>7, <2>2, <3>1, <3>2
  <2>3. Len(queue') <= Len(pushed')
    BY <1>4, <1>5, <1>7, <1>8, <2>1
  <2> QED
    BY <2>2, <2>3 DEF QueueEnd
<1>13. NoneLostInside'
  <2> DEFINE gone == written \o InHand
  <2>1. InHand \in Seq(to_push) /\ InHand' = InHand
    BY <1>3 DEF IInv, Covers, InHand
  <2>2. gone \in Seq(to_push) /\ Len(gone) \in Nat
    BY <1>4, <2>1, ConcatProperties
  <2>3. /\ Len(gone \o queue) + overflows = Len(pushed)
        /\ overflows = 0 => gone \o queue = pushed
    BY DEF IInv, NoneLostInside, InHand
  <2>4. written' \o InHand' = gone
    BY <1>3, <2>1
  <2> HIDE DEF gone
  <2>5. /\ Len(gone \o queue) = Len(gone) + Len(queue)
        /\ Len(gone \o queue') = Len(gone) + Len(queue')
    BY <1>4, <1>7, <2>2, ConcatProperties
  <2>6. Len(gone \o queue') + overflows' = Len(pushed')
    <3>1. Len(queue') + overflows' = Len(queue) + overflows + 1
      <4>1. Len(queue) \in Nat /\ overflows \in Nat /\ Len(queue') = Len(rest) + 1
        BY <1>4, <1>7
      <4>2. CASE Len(queue) = QueueCapacity
        <5>1. Len(rest) = Len(queue) - 1 /\ overflows' = overflows + 1
          BY <1>2, <1>6, <4>2
        <5> QED
          BY <4>1, <5>1
      <4>3. CASE Len(queue) < QueueCapacity
        <5>1. rest = queue /\ overflows' = overflows
          BY <1>2, <1>6, <4>1, <4>3, QueueCapacityAssumption
        <5> QED
          BY <4>1, <5>1
      <4> QED
        BY <1>4, <4>2, <4>3, QueueCapacityAssumption
    <3>2. Len(pushed') = Len(pushed) + 1 /\ Len(queue') \in Nat /\ overflows' \in Nat
      BY <1>2, <1>4, <1>7, <1>8
    <3>3. /\ Len(gone) \in Nat /\ Len(queue) \in Nat /\ overflows \in Nat
          /\ Len(pushed) \in Nat
      BY <1>4, <2>2
    <3>4. Len(gone) + Len(queue) + overflows = Len(pushed)
      BY <2>3, <2>5
    <3> QED
      BY ONLY <2>5, <3>1, <3>2, <3>3, <3>4
  <2>7. ASSUME overflows' = 0 PROVE gone \o queue' = pushed'
    <3>1. Len(queue) # QueueCapacity /\ overflows = 0
      BY <1>2, <1>4, <2>7
    <3>2. queue' = Append(queue, S)
      BY <1>2, <1>4, <1>6, <3>1, QueueCapacityAssumption
    <3>3. gone \o Append(queue, S) = Append(gone \o queue, S)
      BY <1>4, <2>2, AppendToLast
    <3> QED
      BY <1>2, <2>3, <3>1, <3>2, <3>3
  <2> QED
    BY <2>4, <2>6, <2>7 DEF NoneLostInside, InHand
<1>14. Drawn'
  <2>1. PICK P \in SUBSET (1 .. LastOut) :
          /\ Wrote(P)
          /\ child = "write" =>
               \E k \in 1 .. LastOut : pushed[k] = mvc /\ \A p \in P : p < k
    BY DEF IInv, Drawn
  <2>2. /\ LastOut \in Int /\ LastOut' \in Int
        /\ LastOut <= LastOut' /\ LastOut <= Len(pushed)
    BY <1>4, <1>5, <1>7, <1>8 DEF LastOut
  <2>3. /\ 1 .. LastOut \subseteq 1 .. LastOut'
        /\ 1 .. LastOut \subseteq 1 .. Len(pushed)
    BY <1>4, <2>2
  <2>4. \A p \in 1 .. LastOut : pushed'[p] = pushed[p]
    BY <1>8, <2>3
  <2>5. Wrote(P)'
    BY <1>3, <2>1, <2>4 DEF Wrote
  <2>6. (child = "write")' =>
          \E k \in 1 .. LastOut' : pushed'[k] = mvc' /\ \A p \in P : p < k
    BY <1>3, <2>1, <2>3, <2>4
  <2> QED
    BY <2>1, <2>3, <2>5, <2>6 DEF Drawn
<1> QED
  BY <1>9, <1>10, <1>11, <1>12, <1>13, <1>14 DEF IInv

\* Pop takes the head, which Response then has in hand.
LEMMA PopPreserves == IInv /\ PopCover => IInv'
<1> SUFFICES ASSUME IInv, PopCover PROVE IInv'
  OBVIOUS
<1>1. /\ child = "pop" /\ Queue!Pop(Child)
      /\ queue # <<>>
  BY DEF PopCover, IInv, Alone
<1>2. /\ child' = "write" /\ mvc' = Head(queue) /\ queue' = Tail(queue)
      /\ popped' = Append(popped, Head(queue)) /\ pushed' = pushed
      /\ waiting' = waiting /\ woken' = woken \ {Child}
      /\ overflows' = overflows
      /\ request' = request /\ to_push' = to_push /\ handler' = handler
      /\ done' = done /\ written' = written
  BY <1>1 DEF PopCover, Queue!Pop
<1>3. /\ written \in Seq(to_push) /\ queue \in Seq(to_push)
      /\ pushed \in Seq(to_push) /\ popped \in Seq(to_push)
      /\ Len(queue) <= QueueCapacity
      /\ Len(queue) \in Nat \ {0} /\ Len(pushed) \in Nat
  BY <1>1, EmptySeq DEF IInv, Covers
<1>4. /\ Head(queue) \in to_push /\ Head(queue) = queue[1]
      /\ queue' \in Seq(to_push) /\ Len(queue') = Len(queue) - 1
      /\ \A i \in 1 .. Len(queue') : queue'[i] = queue[i + 1]
  BY <1>1, <1>2, <1>3, HeadTailProperties
<1>5. /\ Len(queue) <= Len(pushed)
      /\ \A i \in 1 .. Len(queue) :
           queue[i] = pushed[Len(pushed) - Len(queue) + i]
  BY DEF IInv, QueueEnd
<1>6. Places'
  BY <1>2 DEF IInv, Places
<1>7. Covers'
  <2>1. popped' \in Seq(to_push)
    BY <1>2, <1>3, <1>4
  <2>2. overflows' \in Nat
    BY <1>2 DEF IInv, Covers
  <2> QED
    BY <1>2, <1>3, <1>4, <2>1, <2>2, QueueCapacityAssumption DEF Covers
<1>8. Alone'
  BY <1>2 DEF IInv, Alone
<1>9. QueueEnd'
  <2>1. ASSUME NEW i \in 1 .. Len(queue')
        PROVE  queue'[i] = pushed'[Len(pushed') - Len(queue') + i]
    <3>1. i + 1 \in 1 .. Len(queue)
      BY <1>3, <1>4
    <3>2. Len(pushed) - Len(queue) + (i + 1) = Len(pushed') - Len(queue') + i
      BY <1>2, <1>3, <1>4
    <3>3. queue[i + 1] = pushed[Len(pushed) - Len(queue) + (i + 1)]
      BY <1>5, <3>1
    <3> QED
      BY <1>2, <1>4, <3>2, <3>3
  <2> QED
    BY <1>2, <1>3, <1>4, <1>5, <2>1 DEF QueueEnd
<1>10. NoneLostInside'
  <2>1. /\ Len(written \o <<>> \o queue) + overflows = Len(pushed)
        /\ overflows = 0 => written \o <<>> \o queue = pushed
    BY <1>1 DEF IInv, NoneLostInside
  <2>2. written \o <<>> = written
    BY <1>3, ConcatEmptySeq
  <2>3. written \o <<Head(queue)>> \o Tail(queue) = written \o queue
    BY <1>1, <1>3, MoveHead
  <2> QED
    BY <1>2, <2>1, <2>2, <2>3 DEF NoneLostInside
<1>11. Drawn'
  <2>1. PICK P \in SUBSET (1 .. LastOut) : Wrote(P)
    BY DEF IInv, Drawn
  <2> DEFINE k == LastOut + 1
  <2>2. /\ LastOut \in Nat /\ LastOut' = k
        /\ k \in 1 .. k /\ \A p \in P : p < k
        /\ P \in SUBSET (1 .. k)
    BY <1>2, <1>3, <1>4, <1>5, <2>1 DEF LastOut
  <2>3. pushed[k] = Head(queue)
    <3>1. 1 \in 1 .. Len(queue)
      BY <1>3
    <3> QED
      BY <1>4, <1>5, <3>1 DEF LastOut
  <2>4. Wrote(P)'
    BY <1>2, <2>1 DEF Wrote
  <2> HIDE DEF k
  <2> QED
    BY <1>2, <2>2, <2>3, <2>4 DEF Drawn
<1> QED
  BY <1>6, <1>7, <1>8, <1>9, <1>10, <1>11 DEF IInv

\* What was in hand is what is written, and behind all written before.
LEMMA WritePreserves == IInv /\ WriteResponse => IInv'
<1> SUFFICES ASSUME IInv, WriteResponse PROVE IInv'
  OBVIOUS
<1>1. /\ child = "write" /\ child' = "check" /\ mvc' = NoCover
      /\ written' = Append(written, mvc) /\ queue' = queue /\ pushed' = pushed
      /\ popped' = popped /\ waiting' = waiting /\ woken' = woken
      /\ overflows' = overflows
      /\ request' = request /\ to_push' = to_push /\ handler' = handler
      /\ done' = done
  BY DEF WriteResponse, queue_vars
<1>2. /\ mvc \in to_push /\ written \in Seq(to_push) /\ queue \in Seq(to_push)
      /\ pushed \in Seq(to_push)
  BY <1>1 DEF IInv, Covers
<1>3. /\ written' \in Seq(to_push) /\ Len(written') = Len(written) + 1
      /\ written'[Len(written) + 1] = mvc
      /\ \A i \in 1 .. Len(written) : written'[i] = written[i]
  BY <1>1, <1>2, AppendProperties
<1>4. Places' /\ Covers' /\ Alone' /\ QueueEnd'
  BY <1>1, <1>3 DEF IInv, Places, Covers, Alone, QueueEnd
<1>5. NoneLostInside'
  <2>1. /\ Len(written \o <<mvc>> \o queue) + overflows = Len(pushed)
        /\ overflows = 0 => written \o <<mvc>> \o queue = pushed
    BY <1>1 DEF IInv, NoneLostInside
  <2>2. written' = written \o <<mvc>>
    BY <1>1, <1>2, AppendIsConcat
  <2>3. written' \o <<>> = written'
    BY <1>3, ConcatEmptySeq
  <2> QED
    BY <1>1, <2>1, <2>2, <2>3 DEF NoneLostInside
<1>6. Drawn'
  <2>1. PICK P \in SUBSET (1 .. LastOut) :
          /\ Wrote(P)
          /\ \E k \in 1 .. LastOut : pushed[k] = mvc /\ \A p \in P : p < k
    BY <1>1 DEF IInv, Drawn
  <2>2. PICK k \in 1 .. LastOut : pushed[k] = mvc /\ \A p \in P : p < k
    BY <2>1
  <2> DEFINE Q == P \cup {k}
  <2>3. LastOut' = LastOut /\ LastOut \in Nat /\ Len(written) \in Nat
    BY <1>1, <1>2 DEF IInv, QueueEnd, LastOut
  <2>4. /\ Cardinality(P) \in Nat
        /\ Cardinality(Q) = Cardinality(P) + 1
        /\ {q \in Q : q <= k} = Q
        /\ \A p \in P : {q \in Q : q <= p} = {q \in P : q <= p}
        /\ \A p \in P : Cardinality({q \in P : q <= p}) \in 1 .. Cardinality(P)
    BY <2>2, <2>3, PositionAdded
  <2>5. Q \in SUBSET (1 .. LastOut)
    OBVIOUS
  <2> HIDE DEF Q
  <2>6. Cardinality(Q) = Len(written')
    BY <1>3, <2>1, <2>4 DEF Wrote
  <2>7. ASSUME NEW p \in Q
        PROVE  written'[Cardinality({q \in Q : q <= p})] = pushed[p]
    <3>1. CASE p = k
      BY <1>3, <2>1, <2>2, <2>4, <3>1 DEF Wrote
    <3>2. CASE p \in P
      <4> DEFINE n == Cardinality({q \in P : q <= p})
      <4>1. n \in 1 .. Len(written) /\ written[n] = pushed[p]
        BY <2>1, <2>4, <3>2 DEF Wrote
      <4>2. Cardinality({q \in Q : q <= p}) = n
        BY <2>4, <3>2
      <4> HIDE DEF n
      <4> QED
        BY <1>3, <4>1, <4>2
    <3> QED
      BY <3>1, <3>2 DEF Q
  <2>8. Wrote(Q)'
    BY <1>1, <2>6, <2>7 DEF Wrote
  <2> QED
    BY <1>1, <2>3, <2>5, <2>8 DEF Drawn
<1> QED
  BY <1>4, <1>5, <1>6 DEF IInv

\* The other steps move a thread only; Response enters Pop when it has seen
\* an element there.
LEMMA OthersPreserve ==
  IInv /\ (SetDone \/ Join \/ CheckDone \/ ReadSize \/ UNCHANGED vars) => IInv'
<1> SUFFICES ASSUME IInv,
                    SetDone \/ Join \/ CheckDone \/ ReadSize \/ UNCHANGED vars
             PROVE  IInv'
  OBVIOUS
<1> USE DEF SetDone, Join, CheckDone, ReadSize, vars, queue_vars
<1>1. /\ request' = request /\ to_push' = to_push /\ mvc' = mvc
      /\ written' = written /\ queue' = queue /\ waiting' = waiting
      /\ woken' = woken /\ pushed' = pushed /\ popped' = popped
      /\ overflows' = overflows
  OBVIOUS
<1>2. (child' = "write") <=> (child = "write")
  OBVIOUS
<1>3. Places'
  BY <1>1 DEF IInv, Places
<1>4. Covers'
  BY <1>1, <1>2 DEF IInv, Covers
<1>5. Alone'
  BY <1>1 DEF IInv, Alone
<1>6. QueueEnd'
  BY <1>1 DEF IInv, QueueEnd
<1>7. NoneLostInside'
  BY <1>1, <1>2 DEF IInv, NoneLostInside
<1>8. Drawn'
  BY <1>1, <1>2 DEF IInv, Drawn, Wrote, LastOut
<1> QED
  BY <1>3, <1>4, <1>5, <1>6, <1>7, <1>8 DEF IInv

\* IInv is inductive.
THEOREM Inductive == Spec => []IInv
<1>1. IInv /\ [Next]_vars => IInv'
  BY PushPreserves, PopPreserves, WritePreserves, OthersPreserve
     DEF Next, Handler, Response, Terminated
<1> QED
  BY <1>1, InitEstablishes, PTL DEF Spec

\* Response never waits in Pop, whatever the sizes and the flag it reads were
\* when it read them: join returns once the algorithm has.
THEOREM ResponseNeverSleeps == Spec => []NeverSleeps
<1>1. IInv => NeverSleeps
  BY DEF IInv, Alone, NeverSleeps
<1> QED
  BY <1>1, Inductive, PTL

\* However many are pushed, as many covers are missing from those written, in
\* Response's hand and queued as there were pushes to a full queue; and while
\* there was none, those are all that were pushed, in that order.
THEOREM NothingLostInside == Spec => []NoneLostInside
<1>1. IInv => NoneLostInside
  BY DEF IInv
<1> QED
  BY <1>1, Inductive, PTL

\* Whatever the queue has dropped, the client is sent what was pushed in the
\* order pushed, and each push at most once.
THEOREM SentInOrder == Spec => []InOrder
<1>1. IInv => InOrder
  <2> SUFFICES ASSUME IInv PROVE InOrder
    OBVIOUS
  <2>1. PICK P \in SUBSET (1 .. LastOut) : Wrote(P)
    BY DEF IInv, Drawn
  <2>2. P \in SUBSET (1 .. Len(pushed))
    BY DEF IInv, Covers, LastOut
  <2> QED
    BY <2>1, <2>2 DEF Wrote, InOrder
<1> QED
  BY <1>1, Inductive, PTL

\* The component a DIVERSITY request is answered from has only vertices of
\* the hypergraph.
LEMMA FirstComponent ==
  ASSUME NEW g \in HyperGraphs
  PROVE  Vertices(GetSubGraph(g)[1]) \subseteq Vertices(g)
<1> DEFINE s == GetSubGraph(g)
<1>1. IsHyperGraph(g) /\ Vertices(g) # {}
  BY HyperGraphsAssumption
<1>2. AreComponents(s, g)
  BY <1>1, GetSubGraphComponents
<1>3. 1 \in DOMAIN s
  <2>1. PICK x \in UNION {g[e] : e \in EdgeIds(g)} : TRUE
    BY <1>1 DEF Vertices
  <2>2. PICK d \in EdgeIds(g) : x \in g[d]
    BY <2>1
  <2>3. g[d] \in {g[e] : e \in EdgeIds(g)} \ {{}}
    BY <2>2
  <2>4. \E i \in DOMAIN s : TRUE
    BY <1>2, <2>3 DEF AreComponents
  <2> QED
    BY <1>2, <2>4 DEF AreComponents
<1>4. ASSUME NEW x \in Vertices(s[1]) PROVE x \in Vertices(g)
  <2>1. PICK e \in EdgeIds(s[1]) : x \in s[1][e]
    BY DEF Vertices
  <2>2. PICK f \in EdgeIds(g) : s[1][e] = g[f]
    BY <1>2, <1>3 DEF AreComponents
  <2> QED
    BY <2>1, <2>2 DEF Vertices
<1> QED
  BY <1>4

\* Every variable has its type: what is queued, in Response's hand and
\* written are sets of vertices of the hypergraph requested.
THEOREM TypeCorrect == Spec => []TypeOK
<1>1. ASSUME Places PROVE to_push \subseteq AnyCover
  <2>1. request.hyper_graph \in HyperGraphs /\ to_push = ToPush(request)
    BY <1>1 DEF Places, Requests
  <2>2. \A g, theta : MinimalCovers(g, theta) \subseteq SUBSET Vertices(g)
    BY DEF MinimalCovers
  <2> QED
    BY <2>1, <2>2, FirstComponent DEF ToPush, AnyCover
<1>2. IInv => TypeOK
  <2> SUFFICES ASSUME IInv PROVE TypeOK
    OBVIOUS
  <2>1. to_push \subseteq AnyCover /\ Places
    BY <1>1 DEF IInv
  <2>2. AnyCover \subseteq SUBSET UNION {Vertices(g) : g \in HyperGraphs}
    BY <2>1 DEF Places, Requests, AnyCover
  <2> DEFINE U == SUBSET UNION {Vertices(g) : g \in HyperGraphs}
  <2>3. /\ written \in Seq(to_push) /\ queue \in Seq(to_push)
        /\ pushed \in Seq(to_push) /\ popped \in Seq(to_push)
        /\ mvc \in to_push \cup {NoCover} /\ Len(queue) <= QueueCapacity
        /\ waiting = {} /\ woken = {} /\ overflows \in Nat
    BY DEF IInv, Covers, Alone
  <2>4. to_push \subseteq U
    BY <2>1, <2>2
  <2> HIDE DEF U
  <2>5. /\ written \in Seq(AnyCover)
        /\ queue \in Seq(U) /\ pushed \in Seq(U) /\ popped \in Seq(U)
    BY <2>1, <2>3, <2>4, SeqMonotonic
  <2>6. Queue!QueueTypeOK
    BY <2>3, <2>5 DEF Queue!QueueTypeOK, U
  <2> QED
    BY <2>1, <2>3, <2>5, <2>6 DEF Places, TypeOK
<1> QED
  BY <1>2, Inductive, PTL
=============================================================================
