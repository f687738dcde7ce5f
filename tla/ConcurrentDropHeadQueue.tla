---------------------- MODULE ConcurrentDropHeadQueue -----------------------
(***************************************************************************)
(* ConcurrentDropHeadQueue (common/concurrent_drop_head_queue.h): a        *)
(* bounded queue under one mutex, that drops its oldest element when it is *)
(* full, and whose Pop waits on a condition variable while it is empty.    *)
(*                                                                         *)
(* A step is what a thread does while it holds the mutex.  A consumer in   *)
(* Pop is in waiting while it sleeps on the condition variable and in      *)
(* woken from then until it has the mutex again, when others may have      *)
(* emptied the queue.                                                      *)
(***************************************************************************)
EXTENDS Integers, Sequences, FiniteSets

CONSTANTS Requests,    \* what may be pushed
          Capacity,    \* capacity_
          Consumers,   \* the threads that call Pop
          MaxPushes    \* a bound on the pushes, for the model only

\* With no capacity Push would pop the empty queue.
ASSUME CapacityAssumption == Capacity \in Nat \ {0}

ASSUME ConsumersAssumption == IsFiniteSet(Consumers)

VARIABLES queue,           \* queue_
          waiting, woken,  \* the consumers that wait in Pop
          pushed, popped,  \* everything pushed and popped, in order
          overflows        \* how many pushes found the queue full, a history

queue_vars == <<queue, waiting, woken, pushed, popped, overflows>>

QueueInit ==
  /\ queue = <<>>
  /\ waiting = {}
  /\ woken = {}
  /\ pushed = <<>>
  /\ popped = <<>>
  /\ overflows = 0

\* What a push adds to the histories.
Recorded(req) ==
  /\ pushed' = Append(pushed, req)
  /\ overflows' = IF Len(queue) = Capacity THEN overflows + 1 ELSE overflows

\* Mutant: only the push to an empty queue notifies.
NotifyOneIfEmpty ==
  \/ (waiting = {} \/ queue # <<>>) /\ UNCHANGED <<waiting, woken>>
  \/ queue = <<>> /\ \E c \in waiting :
                       waiting' = waiting \ {c} /\ woken' = woken \cup {c}

\* Mutant: Push notifies nobody.
NotifyNobody == UNCHANGED <<waiting, woken>>

\* notify_one wakes some consumer, if one waits.
NotifyOne ==
  \/ waiting = {} /\ UNCHANGED <<waiting, woken>>
  \/ \E c \in waiting : waiting' = waiting \ {c} /\ woken' = woken \cup {c}

\* Mutant: a full queue drops two elements.
PushDroppingTwo(req) ==
  /\ queue' = Append(IF Len(queue) >= Capacity THEN SubSeq(queue, 3, Len(queue))
                     ELSE queue, req)
  /\ Recorded(req)
  /\ NotifyOne
  /\ UNCHANGED popped

\* Mutant: the queue holds one more than its capacity.
PushOneMore(req) ==
  /\ queue' = Append(IF Len(queue) > Capacity THEN Tail(queue) ELSE queue, req)
  /\ Recorded(req)
  /\ NotifyOne
  /\ UNCHANGED popped

\* Push makes room first.
Push(req) ==
  /\ queue' = Append(IF Len(queue) >= Capacity THEN Tail(queue) ELSE queue, req)
  /\ Recorded(req)
  /\ NotifyOne
  /\ UNCHANGED popped

\* Mutant: Pop returns the newest element.
PopNewest(c) ==
  /\ c \notin waiting
  /\ woken' = woken \ {c}
  /\ IF queue = <<>>
       THEN waiting' = waiting \cup {c} /\ UNCHANGED <<queue, popped>>
       ELSE /\ queue' = SubSeq(queue, 1, Len(queue) - 1)
            /\ popped' = Append(popped, queue[Len(queue)])
            /\ UNCHANGED waiting
  /\ UNCHANGED <<pushed, overflows>>

\* Pop, entered or resumed by c, returns the oldest element or, if there is
\* none, makes c sleep (again).
Pop(c) ==
  /\ c \notin waiting
  /\ woken' = woken \ {c}
  /\ IF queue = <<>>
       THEN /\ waiting' = waiting \cup {c}
            /\ UNCHANGED <<queue, popped>>
       ELSE /\ queue' = Tail(queue)
            /\ popped' = Append(popped, Head(queue))
            /\ UNCHANGED waiting
  /\ UNCHANGED <<pushed, overflows>>

\* A condition variable may wake a thread that nobody notified.
SpuriousWakeup(c) ==
  /\ c \in waiting
  /\ waiting' = waiting \ {c}
  /\ woken' = woken \cup {c}
  /\ UNCHANGED <<queue, pushed, popped, overflows>>

\* A woken consumer gets the mutex back.
Resume(c) == c \in woken /\ Pop(c)

QueueNext ==
  \/ Len(pushed) < MaxPushes /\ \E req \in Requests : Push(req)
  \/ \E c \in Consumers : Pop(c) \/ SpuriousWakeup(c)

\* A thread that is woken eventually gets the mutex.  Nobody has to push, to
\* call Pop, or to be woken for no reason.
QueueSpec ==
  /\ QueueInit /\ [][QueueNext]_queue_vars
  /\ \A c \in Consumers : WF_queue_vars(Resume(c))

-----------------------------------------------------------------------------
\* Every variable of the queue has its type, and the queue its bound.
QueueTypeOK ==
  /\ queue \in Seq(Requests)
  /\ Len(queue) <= Capacity
  /\ waiting \subseteq Consumers
  /\ woken \subseteq Consumers \ waiting
  /\ pushed \in Seq(Requests)
  /\ popped \in Seq(Requests)
  /\ overflows \in Nat

\* The queue holds the newest requests, in the order pushed: only the oldest
\* can have been dropped, and one for each push that found the queue full,
\* never two and none before.
NewestKept ==
  /\ Len(popped) + overflows + Len(queue) = Len(pushed)
  /\ queue = SubSeq(pushed, Len(pushed) - Len(queue) + 1, Len(pushed))

\* No wakeup is lost: as long as a consumer sleeps, enough others are awake
\* to take what is there.
NoLostWakeup == waiting # {} => Len(queue) <= Cardinality(woken)

\* A consumer in Pop does not sleep forever on a queue that is not empty.
Served ==
  (waiting \cup woken # {} /\ queue # <<>>)
    ~> (waiting \cup woken = {} \/ queue = <<>>)
=============================================================================
