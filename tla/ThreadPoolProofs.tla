-------------------------- MODULE ThreadPoolProofs --------------------------
(***************************************************************************)
(* Proofs about ThreadPool: every slot is accounted for, so that no task   *)
(* waits behind another and none is left when Wait has returned, for any   *)
(* number of threads and tasks.                                            *)
(***************************************************************************)
EXTENDS ThreadPool, FiniteSetTheorems, SequenceTheorems, TLAPS

Callers == Threads \cup {Main}

\* A set of callers is finite, and one caller counts for one.
LEMMA CallersCount ==
  ASSUME NEW S \in SUBSET Callers, NEW c
  PROVE  /\ Cardinality(S) \in Nat
         /\ c \notin S => Cardinality(S \cup {c}) = Cardinality(S) + 1
         /\ c \in S => Cardinality(S \ {c}) = Cardinality(S) - 1
<1>1. IsFiniteSet(S)
  <2>1. IsFiniteSet(Callers)
    BY ThreadsAssumption, FS_AddElement DEF Callers
  <2> QED
    BY <2>1, FS_Subset
<1>2. Cardinality(S) \in Nat
  BY ONLY <1>1, FS_CardinalityType
<1>3. c \notin S => Cardinality(S \cup {c}) = Cardinality(S) + 1
  BY ONLY <1>1, FS_AddElement
<1>4. c \in S => Cardinality(S \ {c}) = Cardinality(S) - 1
  BY ONLY <1>1, FS_RemoveElement
<1> QED
  BY <1>2, <1>3, <1>4

\* What RunTask leaves of posted.
LEMMA Removed ==
  ASSUME NEW T, NEW s \in Seq(T), NEW i \in 1 .. Len(s)
  PROVE  /\ SubSeq(s, 1, i - 1) \o SubSeq(s, i + 1, Len(s)) \in Seq(T)
         /\ Len(SubSeq(s, 1, i - 1) \o SubSeq(s, i + 1, Len(s))) = Len(s) - 1
<1> DEFINE before == SubSeq(s, 1, i - 1)
           after == SubSeq(s, i + 1, Len(s))
<1>1. before \in Seq(T) /\ Len(before) = i - 1
  OBVIOUS
<1>2. after \in Seq(T) /\ Len(after) = Len(s) - i
  OBVIOUS
<1> HIDE DEF before, after
<1>3. before \o after \in Seq(T)
  BY ONLY <1>1, <1>2, ConcatProperties
<1>4. Len(before \o after) = Len(before) + Len(after)
  BY ONLY <1>1, <1>2, ConcatProperties
<1>5. Len(s) \in Nat /\ i \in Nat
  BY LenProperties
<1>6. Len(before \o after) = Len(s) - 1
  BY ONLY <1>1, <1>2, <1>4, <1>5
<1> QED
  BY ONLY <1>3, <1>6 DEF before, after

-----------------------------------------------------------------------------
\* Only the main thread and tasks that have not ended reserve slots, and
\* after Wait nothing is left.
CallersActive == reserved \subseteq Busy \cup {Main}

JoinedIdle ==
  joined => /\ reserved = {} /\ posted = <<>>
            /\ \A w \in Threads : running[w] = NoTask

PoolInv == PoolTypeOK /\ SlotsAccounted /\ CallersActive /\ JoinedIdle

\* The counts that SlotsAccounted adds up are natural numbers.
LEMMA Counts ==
  ASSUME PoolTypeOK
  PROVE  /\ Cardinality(reserved) \in Nat /\ Cardinality(Busy) \in Nat
         /\ Len(posted) \in Nat /\ thread_num \in Nat /\ task_num \in Nat
         /\ Busy \subseteq Threads
<1>1. reserved \in SUBSET Callers /\ Busy \in SUBSET Callers /\ Busy \subseteq Threads
  BY DEF PoolTypeOK, Busy, Callers
<1>2. Cardinality(reserved) \in Nat /\ Cardinality(Busy) \in Nat
  BY <1>1, CallersCount
<1>3. Cardinality(Threads) \in Nat
  BY CallersCount DEF Callers
<1> QED
  BY <1>1, <1>2, <1>3 DEF PoolTypeOK, thread_num

LEMMA InitEstablishes == PoolInit => PoolInv
<1> SUFFICES ASSUME PoolInit PROVE PoolInv
  OBVIOUS
<1>1. Busy = {} /\ Cardinality({}) = 0
  BY FS_EmptySet DEF PoolInit, Busy
<1>2. Cardinality(Threads) \in Nat
  BY CallersCount DEF Callers
<1>3. /\ posted \in Seq(Tasks) /\ Len(posted) = 0
      /\ task_num = 0 /\ reserved = {} /\ ended = {} /\ joined = FALSE
  BY DEF PoolInit
<1>4. task_num \in 0 .. thread_num
  BY <1>2, <1>3 DEF thread_num
<1>5. PoolTypeOK
  BY <1>3, <1>4 DEF PoolInit, PoolTypeOK
<1>6. SlotsAccounted
  BY <1>1, <1>3 DEF SlotsAccounted
<1>7. CallersActive /\ JoinedIdle
  BY <1>3 DEF CallersActive, JoinedIdle
<1> QED
  BY <1>5, <1>6, <1>7 DEF PoolInv

LEMMA ReservePreserves ==
  ASSUME PoolInv, NEW c \in Callers, Reserve(c)
  PROVE  PoolInv'
<1>1. /\ PoolTypeOK /\ reserved \in SUBSET Callers
      /\ c \notin reserved /\ reserved' = reserved \cup {c}
      /\ task_num' = task_num + 1 /\ task_num < thread_num
      /\ UNCHANGED <<posted, running, ended, joined>>
  BY DEF PoolInv, PoolTypeOK, Reserve, Callers
<1>2. Busy' = Busy
  BY <1>1 DEF Busy
<1>3. thread_num' = thread_num
  BY DEF thread_num
<1>4. Cardinality(reserved') = Cardinality(reserved) + 1
  BY <1>1, CallersCount
<1>5. PoolTypeOK'
  BY <1>1, <1>3, Counts DEF PoolTypeOK, Callers
<1>6. SlotsAccounted'
  BY <1>1, <1>2, <1>4, Counts DEF PoolInv, SlotsAccounted
<1>7. CallersActive'
  BY <1>1, <1>2 DEF PoolInv, CallersActive, Reserve, MayAdd, Busy
<1>8. JoinedIdle'
  BY <1>1, ThreadsAssumption DEF PoolInv, JoinedIdle, Reserve, MayAdd
<1> QED
  BY <1>5, <1>6, <1>7, <1>8 DEF PoolInv

LEMMA AddTaskPreserves ==
  ASSUME PoolInv, NEW c \in Callers, NEW task \in Tasks, AddTask(c, task)
  PROVE  PoolInv'
<1>1. /\ PoolTypeOK /\ reserved \in SUBSET Callers /\ posted \in Seq(Tasks)
      /\ c \in reserved /\ reserved' = reserved \ {c}
      /\ posted' = Append(posted, task)
      /\ UNCHANGED <<task_num, running, ended, joined>>
  BY DEF PoolInv, PoolTypeOK, AddTask, Callers
<1>2. Busy' = Busy
  BY <1>1 DEF Busy
<1>3. thread_num' = thread_num
  BY DEF thread_num
<1>4. Cardinality(reserved') = Cardinality(reserved) - 1
  BY <1>1, CallersCount
<1>5. posted' \in Seq(Tasks) /\ Len(posted') = Len(posted) + 1
  BY <1>1
<1>6. PoolTypeOK'
  BY <1>1, <1>3, <1>5 DEF PoolTypeOK
<1>7. SlotsAccounted'
  BY <1>1, <1>2, <1>4, <1>5, Counts DEF PoolInv, SlotsAccounted
<1>8. CallersActive' /\ JoinedIdle'
  BY <1>1, <1>2 DEF PoolInv, CallersActive, JoinedIdle
<1> QED
  BY <1>6, <1>7, <1>8 DEF PoolInv

LEMMA RunTaskPreserves ==
  ASSUME PoolInv, NEW w \in Threads, NEW i \in 1 .. Len(posted), RunTask(w, i)
  PROVE  PoolInv'
<1>1. /\ PoolTypeOK /\ posted \in Seq(Tasks)
      /\ running \in [Threads -> Tasks \cup {NoTask}]
      /\ ended \subseteq {x \in Threads : running[x] # NoTask}
      /\ ~joined /\ running[w] = NoTask
      /\ running' = [running EXCEPT ![w] = posted[i]]
      /\ UNCHANGED <<task_num, reserved, ended, joined>>
  BY DEF PoolInv, PoolTypeOK, RunTask
<1>2. posted' \in Seq(Tasks) /\ Len(posted') = Len(posted) - 1
  <2>1. posted' = SubSeq(posted, 1, i - 1) \o SubSeq(posted, i + 1, Len(posted))
    BY DEF RunTask
  <2> QED
    BY <1>1, <2>1, Removed
<1>3. posted[i] \in Tasks /\ posted[i] # NoTask
  BY <1>1, NoTaskAssumption
<1>4. Busy' = Busy \cup {w} /\ w \notin Busy /\ Busy \in SUBSET Callers
  BY <1>1, <1>3 DEF Busy, Callers
<1>5. Cardinality(Busy') = Cardinality(Busy) + 1
  BY <1>4, CallersCount
<1>6. thread_num' = thread_num
  BY DEF thread_num
<1>7. PoolTypeOK'
  BY <1>1, <1>2, <1>3, <1>6 DEF PoolTypeOK
<1>8. SlotsAccounted'
  BY <1>1, <1>2, <1>5, Counts DEF PoolInv, SlotsAccounted
<1>9. CallersActive' /\ JoinedIdle'
  BY <1>1, <1>4 DEF PoolInv, CallersActive, JoinedIdle
<1> QED
  BY <1>7, <1>8, <1>9 DEF PoolInv

LEMMA TaskEndPreserves ==
  ASSUME PoolInv, NEW w \in Threads, TaskEnd(w)
  PROVE  PoolInv'
<1>1. /\ PoolTypeOK /\ running[w] # NoTask /\ w \notin ended /\ w \notin reserved
      /\ task_num' = task_num - 1 /\ ended' = ended \cup {w}
      /\ UNCHANGED <<reserved, posted, running, joined>>
  BY DEF PoolInv, TaskEnd
<1>2. Busy' = Busy \ {w} /\ w \in Busy /\ Busy \in SUBSET Callers
  BY <1>1 DEF Busy, Callers
<1>3. Cardinality(Busy') = Cardinality(Busy) - 1 /\ Cardinality(Busy') \in Nat
  BY <1>2, CallersCount
<1>4. thread_num' = thread_num
  BY DEF thread_num
<1>5. SlotsAccounted'
  BY <1>1, <1>3, Counts DEF PoolInv, SlotsAccounted
<1>6. task_num' \in 0 .. thread_num
  BY <1>1, <1>3, <1>5, Counts DEF PoolTypeOK, SlotsAccounted
<1>7. PoolTypeOK'
  BY <1>1, <1>4, <1>6 DEF PoolTypeOK
<1>8. CallersActive' /\ JoinedIdle'
  BY <1>1, <1>2 DEF PoolInv, CallersActive, JoinedIdle
<1> QED
  BY <1>5, <1>7, <1>8 DEF PoolInv

LEMMA TaskReturnPreserves ==
  ASSUME PoolInv, NEW w \in Threads, TaskReturn(w)
  PROVE  PoolInv'
<1>1. /\ PoolTypeOK /\ w \in ended /\ ended' = ended \ {w}
      /\ running \in [Threads -> Tasks \cup {NoTask}]
      /\ running' = [running EXCEPT ![w] = NoTask]
      /\ UNCHANGED <<task_num, reserved, posted, joined>>
  BY DEF PoolInv, PoolTypeOK, TaskReturn
<1>2. Busy' = Busy
  BY <1>1 DEF Busy
<1>3. thread_num' = thread_num
  BY DEF thread_num
<1>4. PoolTypeOK'
  BY <1>1, <1>3 DEF PoolTypeOK
<1>5. SlotsAccounted' /\ CallersActive' /\ JoinedIdle'
  BY <1>1, <1>2 DEF PoolInv, SlotsAccounted, CallersActive, JoinedIdle
<1> QED
  BY <1>4, <1>5 DEF PoolInv

LEMMA WaitPreserves ==
  ASSUME PoolInv, Wait
  PROVE  PoolInv'
<1>1. UNCHANGED <<task_num, reserved, posted, running, ended>>
  BY DEF Wait
<1>2. Busy' = Busy /\ thread_num' = thread_num
  BY <1>1 DEF Busy, thread_num
<1>3. joined' = TRUE
  BY DEF Wait
<1>4. PoolTypeOK' /\ SlotsAccounted' /\ CallersActive'
  BY <1>1, <1>2, <1>3 DEF PoolInv, PoolTypeOK, SlotsAccounted, CallersActive
<1>5. JoinedIdle'
  BY <1>1 DEF PoolInv, CallersActive, JoinedIdle, Wait, Busy
<1> QED
  BY <1>4, <1>5 DEF PoolInv

\* The conjunction is inductive.
THEOREM PoolInductive == PoolSpec => []PoolInv
<1>1. PoolInv /\ [PoolNext]_pool_vars => PoolInv'
  <2> SUFFICES ASSUME PoolInv, [PoolNext]_pool_vars PROVE PoolInv'
    OBVIOUS
  <2>1. CASE PoolNext
    BY <2>1, ReservePreserves, AddTaskPreserves, RunTaskPreserves,
       TaskEndPreserves, TaskReturnPreserves, WaitPreserves
    DEF PoolNext, Callers
  <2>2. CASE UNCHANGED pool_vars
    BY <2>2 DEF pool_vars, PoolInv, PoolTypeOK, SlotsAccounted, CallersActive,
                JoinedIdle, Busy, thread_num
  <2> QED
    BY <2>1, <2>2
<1> QED
  BY <1>1, InitEstablishes, PTL DEF PoolSpec

\* Every variable of the pool has its type, and task_num_ stays in its limits.
THEOREM PoolTypeCorrect == PoolSpec => []PoolTypeOK
<1>1. PoolInv => PoolTypeOK
  BY DEF PoolInv
<1> QED
  BY <1>1, PoolInductive, PTL

\* No slot leaks and none is given back twice.
THEOREM SlotsNeverLeak == PoolSpec => []SlotsAccounted
<1>1. PoolInv => SlotsAccounted
  BY DEF PoolInv
<1> QED
  BY <1>1, PoolInductive, PTL

\* The limit of IsFull is tight enough that a task that was added finds a
\* thread: posting it instead of making the call never delays it.
THEOREM TaskFindsThread == PoolSpec => []NeverQueued
<1>1. PoolInv => NeverQueued
  <2> SUFFICES ASSUME PoolInv PROVE NeverQueued
    OBVIOUS
  <2>1. PoolTypeOK /\ Busy \subseteq Threads /\ IsFiniteSet(Threads)
    BY Counts, ThreadsAssumption DEF PoolInv
  <2>2. Cardinality(Threads \ Busy) = Cardinality(Threads) - Cardinality(Busy)
    <3>1. IsFiniteSet(Busy) /\ Busy = Threads \cap Busy
      BY <2>1, FS_Subset
    <3> QED
      BY ONLY <2>1, <3>1, FS_Difference
  <2> QED
    BY <2>1, <2>2, Counts
    DEF PoolInv, PoolTypeOK, SlotsAccounted, NeverQueued, thread_num
<1> QED
  BY <1>1, PoolInductive, PTL

\* When Wait has returned no slot is taken.
THEOREM SlotsReturned == PoolSpec => []AllGivenBack
<1>1. PoolInv => AllGivenBack
  <2> SUFFICES ASSUME PoolInv, joined PROVE task_num = 0
    BY DEF AllGivenBack
  <2>1. reserved = {} /\ Busy = {} /\ Len(posted) = 0
    BY DEF PoolInv, JoinedIdle, Busy
  <2> QED
    BY <2>1, FS_EmptySet DEF PoolInv, SlotsAccounted
<1> QED
  BY <1>1, PoolInductive, PTL
=============================================================================
