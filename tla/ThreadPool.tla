----------------------------- MODULE ThreadPool -----------------------------
(***************************************************************************)
(* ThreadPool (common/thread_pool.h, common/thread_pool.cpp) and the       *)
(* boost::asio thread pool it wraps.                                       *)
(*                                                                         *)
(* task_num_ counts slots: IsFull takes one when it answers false, and the *)
(* task that is then added gives it back with TaskEnd, its last call.  A   *)
(* caller is the thread that made the pool or a task on a pool thread.     *)
(***************************************************************************)
EXTENDS Integers, FiniteSets, Sequences

CONSTANTS Threads,   \* the threads of the asio pool
          Main,      \* the thread that made the pool, and waits for it
          Tasks,     \* what may be added
          NoTask     \* what an idle thread runs

ASSUME ThreadsAssumption == IsFiniteSet(Threads) /\ Main \notin Threads

ASSUME NoTaskAssumption == NoTask \notin Tasks

VARIABLES task_num,   \* task_num_
          reserved,   \* the callers between IsFull and AddTask
          posted,     \* the tasks asio has not started, in the order added
          running,    \* the task each thread runs
          ended,      \* the threads whose task has called TaskEnd
          joined      \* Wait has returned: no thread runs any more

pool_vars == <<task_num, reserved, posted, running, ended, joined>>

thread_num == Cardinality(Threads)

PoolInit ==
  /\ task_num = 0
  /\ reserved = {}
  /\ posted = <<>>
  /\ running = [w \in Threads |-> NoTask]
  /\ ended = {}
  /\ joined = FALSE

\* The caller may add a task if it is the main thread before Wait or a task.
MayAdd(c) ==
  \/ c = Main /\ ~joined
  \/ c \in Threads /\ running[c] # NoTask /\ c \notin ended

\* Mutant: one slot too many.
ReserveOneMore(c) ==
  /\ MayAdd(c) /\ c \notin reserved
  /\ task_num <= thread_num
  /\ task_num' = task_num + 1
  /\ reserved' = reserved \cup {c}
  /\ UNCHANGED <<posted, running, ended, joined>>

\* Mutant: IsFull takes no slot.
ReserveWithoutCounting(c) ==
  /\ MayAdd(c) /\ c \notin reserved
  /\ task_num < thread_num
  /\ reserved' = reserved \cup {c}
  /\ UNCHANGED <<task_num, posted, running, ended, joined>>

\* IsFull, under the mutex: false takes a slot, true changes nothing.
Reserve(c) ==
  /\ MayAdd(c) /\ c \notin reserved
  /\ task_num < thread_num
  /\ task_num' = task_num + 1
  /\ reserved' = reserved \cup {c}
  /\ UNCHANGED <<posted, running, ended, joined>>

IsFull == task_num >= thread_num

\* AddTask, which needs no mutex of its own.
AddTask(c, task) ==
  /\ c \in reserved
  /\ posted' = Append(posted, task)
  /\ reserved' = reserved \ {c}
  /\ UNCHANGED <<task_num, running, ended, joined>>

\* asio runs a posted task on a thread that runs none.  It promises no order.
RunTask(w, i) ==
  /\ ~joined
  /\ running[w] = NoTask
  /\ running' = [running EXCEPT ![w] = posted[i]]
  /\ posted' = SubSeq(posted, 1, i - 1) \o SubSeq(posted, i + 1, Len(posted))
  /\ UNCHANGED <<task_num, reserved, ended, joined>>

\* Mutant: the slot is not given back.
TaskEndWithoutRelease(w) ==
  /\ running[w] # NoTask /\ w \notin ended /\ w \notin reserved
  /\ ended' = ended \cup {w}
  /\ UNCHANGED <<task_num, reserved, posted, running, joined>>

\* TaskEnd, under the mutex, called by the task on thread w.
TaskEnd(w) ==
  /\ running[w] # NoTask /\ w \notin ended /\ w \notin reserved
  /\ task_num' = task_num - 1
  /\ ended' = ended \cup {w}
  /\ UNCHANGED <<reserved, posted, running, joined>>

\* The task returns to asio after its last call.
TaskReturn(w) ==
  /\ w \in ended
  /\ running' = [running EXCEPT ![w] = NoTask]
  /\ ended' = ended \ {w}
  /\ UNCHANGED <<task_num, reserved, posted, joined>>

\* Wait returns: join has waited for every task that was added.
Wait ==
  /\ ~joined
  /\ Main \notin reserved
  /\ posted = <<>>
  /\ \A w \in Threads : running[w] = NoTask
  /\ joined' = TRUE
  /\ UNCHANGED <<task_num, reserved, posted, running, ended>>

PoolNext ==
  \/ \E c \in Threads \cup {Main} :
       Reserve(c) \/ \E task \in Tasks : AddTask(c, task)
  \/ \E w \in Threads :
       \/ \E i \in 1 .. Len(posted) : RunTask(w, i)
       \/ TaskEnd(w)
       \/ TaskReturn(w)
  \/ Wait

PoolSpec == PoolInit /\ [][PoolNext]_pool_vars

-----------------------------------------------------------------------------
\* Every variable of the pool has its type, and the slots their limit.
PoolTypeOK ==
  /\ task_num \in 0 .. thread_num
  /\ reserved \subseteq Threads \cup {Main}
  /\ posted \in Seq(Tasks)
  /\ running \in [Threads -> Tasks \cup {NoTask}]
  /\ ended \subseteq {w \in Threads : running[w] # NoTask}
  /\ joined \in BOOLEAN

Busy == {w \in Threads : running[w] # NoTask} \ ended

\* A slot is held by a caller about to add a task, by a task that waits or by
\* one that runs, by each of them exactly one: none leaks, none is given back
\* twice.
SlotsAccounted ==
  task_num = Cardinality(reserved) + Len(posted) + Cardinality(Busy)

\* A task that is added never waits behind another task: some thread runs
\* none, or only has to return from its task.
NeverQueued == Len(posted) <= Cardinality(Threads \ Busy)

\* When Wait has returned every slot has been given back: the value the tests
\* of AdvancedADCEnum read with DebugFunc.
AllGivenBack == joined => task_num = 0
=============================================================================
