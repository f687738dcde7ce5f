------------------------ MODULE AdvancedADCEnumProofs ------------------------
(***************************************************************************)
(* AdvancedADCEnum, for every hypergraph, every theta, every method and    *)
(* any number of pool threads, whatever they interleave and whichever edge *)
(* the race on next_edge_ makes them pick: every runner's bookkeeping is   *)
(* exact, the index is built before there is a second runner, no task is   *)
(* left when RunApproximate returns, and every minimal approximate cover   *)
(* has then been pushed exactly once.                                      *)
(***************************************************************************)
EXTENDS AdvancedADCEnum, CoverSearchProofs

PoolProofs == INSTANCE ThreadPoolProofs

-----------------------------------------------------------------------------
(***************************************************************************)
(* The pool: what is proved of it on its own holds of it here.             *)
(***************************************************************************)
PoolInv == PoolProofs!PoolInv

LEMMA PoolAssumptions == PoolProofs!ThreadsAssumption /\ PoolProofs!NoTaskAssumption
<1>1. \A S : PoolProofs!IsFiniteSet(S) <=> IsFiniteSet(S)
  BY DEF PoolProofs!IsFiniteSet, IsFiniteSet
<1> QED
  BY <1>1, RunnersAssumption, NoTaskAssumption
  DEF PoolProofs!ThreadsAssumption, PoolProofs!NoTaskAssumption

LEMMA SameThreadNum == Pool!thread_num = PoolProofs!thread_num
<1>1. \A S : PoolProofs!Cardinality(S) = Pool!Cardinality(S)
  BY DEF PoolProofs!Cardinality, Pool!Cardinality
<1> QED
  BY <1>1 DEF Pool!thread_num, PoolProofs!thread_num

\* Every variable of the pool has its type, and after Wait nothing is left.
LEMMA PoolFacts ==
  ASSUME PoolInv
  PROVE  /\ Pool!PoolTypeOK
         /\ joined => task_num = 0 /\ posted = <<>>
<1>1. Pool!PoolTypeOK
  BY SameThreadNum
  DEF PoolInv, PoolProofs!PoolInv, PoolProofs!PoolTypeOK, Pool!PoolTypeOK
<1>2. joined => task_num = 0 /\ posted = <<>>
  <2> SUFFICES ASSUME joined PROVE task_num = 0 /\ posted = <<>>
    OBVIOUS
  <2>1. reserved = {} /\ PoolProofs!Busy = {} /\ posted = <<>>
    BY DEF PoolInv, PoolProofs!PoolInv, PoolProofs!JoinedIdle, PoolProofs!Busy
  <2>2. \A S : PoolProofs!Cardinality(S) = Cardinality(S)
    BY DEF PoolProofs!Cardinality, Cardinality
  <2>3. task_num = Cardinality({}) + 0 + Cardinality({})
    BY <2>1, <2>2 DEF PoolInv, PoolProofs!PoolInv, PoolProofs!SlotsAccounted
  <2> QED
    BY <2>1, <2>3, FS_EmptySet
<1> QED
  BY <1>1, <1>2

LEMMA PoolInitially == Pool!PoolInit => PoolInv
<1>1. Pool!PoolInit => PoolProofs!PoolInit
  BY DEF Pool!PoolInit, PoolProofs!PoolInit
<1>2. PoolProofs!PoolInit => PoolProofs!PoolInv
  BY PoolAssumptions, PoolProofs!InitEstablishes
<1> QED
  BY <1>1, <1>2 DEF PoolInv

LEMMA PoolReserve ==
  ASSUME PoolInv, NEW c \in Runners, Pool!Reserve(c)
  PROVE  PoolInv'
<1>1. c \in PoolProofs!Callers
  BY DEF Runners, PoolProofs!Callers
<1>2. PoolProofs!Reserve(c)
  BY SameThreadNum
  DEF Pool!Reserve, PoolProofs!Reserve, Pool!MayAdd, PoolProofs!MayAdd
<1> QED
  BY <1>1, <1>2, PoolAssumptions, PoolProofs!ReservePreserves DEF PoolInv

LEMMA PoolAddTask ==
  ASSUME PoolInv, NEW c \in Runners, NEW task \in Tasks, Pool!AddTask(c, task)
  PROVE  PoolInv'
<1>1. c \in PoolProofs!Callers
  BY DEF Runners, PoolProofs!Callers
<1>2. PoolProofs!AddTask(c, task)
  BY DEF Pool!AddTask, PoolProofs!AddTask
<1> QED
  BY <1>1, <1>2, PoolAssumptions, PoolProofs!AddTaskPreserves DEF PoolInv

LEMMA PoolRunTask ==
  ASSUME PoolInv, NEW w \in Threads, NEW i \in 1 .. Len(posted), Pool!RunTask(w, i)
  PROVE  PoolInv'
<1>1. PoolProofs!RunTask(w, i)
  BY DEF Pool!RunTask, PoolProofs!RunTask
<1> QED
  BY <1>1, PoolAssumptions, PoolProofs!RunTaskPreserves DEF PoolInv

LEMMA PoolThreadFree ==
  ASSUME PoolInv, NEW w \in Threads, Pool!TaskEnd(w) \/ Pool!TaskReturn(w)
  PROVE  PoolInv'
<1>1. CASE Pool!TaskEnd(w)
  <2>1. PoolProofs!TaskEnd(w)
    BY <1>1 DEF Pool!TaskEnd, PoolProofs!TaskEnd
  <2> QED
    BY <2>1, PoolAssumptions, PoolProofs!TaskEndPreserves DEF PoolInv
<1>2. CASE Pool!TaskReturn(w)
  <2>1. PoolProofs!TaskReturn(w)
    BY <1>2 DEF Pool!TaskReturn, PoolProofs!TaskReturn
  <2> QED
    BY <2>1, PoolAssumptions, PoolProofs!TaskReturnPreserves DEF PoolInv
<1> QED
  BY <1>1, <1>2

LEMMA PoolWait == PoolInv /\ Pool!Wait => PoolInv'
<1> SUFFICES ASSUME PoolInv, Pool!Wait PROVE PoolInv'
  OBVIOUS
<1>1. PoolProofs!Wait
  BY DEF Pool!Wait, PoolProofs!Wait
<1> QED
  BY <1>1, PoolAssumptions, PoolProofs!WaitPreserves DEF PoolInv

LEMMA PoolUnchanged == PoolInv /\ UNCHANGED pool_vars => PoolInv'
<1>1. PoolProofs!thread_num' = PoolProofs!thread_num
  BY DEF PoolProofs!thread_num
<1> QED
  BY <1>1
  DEF PoolInv, pool_vars, PoolProofs!PoolInv, PoolProofs!PoolTypeOK,
      PoolProofs!SlotsAccounted, PoolProofs!CallersActive, PoolProofs!JoinedIdle,
      PoolProofs!Busy

-----------------------------------------------------------------------------
(***************************************************************************)
(* The invariant.                                                          *)
(***************************************************************************)

\* The places where a runner is about to make a call.
Calling == {"call", "scan", "offer", "post"}

\* The sets that the call with the arguments a tries.
Tries(a) == Within(a.cur, a.cand)

CallsOf(x) == IF x.pc \in Calling THEN Tries(x) ELSE {}

\* The sets that a runner has still to try.
Region(x) == Whole(x.cur, x.stack, CallsOf(x))

\* A call may be made with the arguments a.
ArgsOK(g, a) ==
  /\ a.uncov = Uncovered(g, a.cur)
  /\ CallReady(g, a.cur, a.cand, a.crit)
  /\ \A e \in a.uncov \ a.can_hit : g[e] \cap a.cand = {}

\* An activation, called with the cover C, has given up only edges that no
\* vertex it may still try, or has chosen, hits.
GivenUp(g, C, f) ==
  \A e \in Uncovered(g, C) \ f.can_hit :
    g[e] \cap (f.cand \cup f.todo \cup {f.v}) = {}

ActivationsOK(g, cur, s) ==
  /\ \A i \in 1 .. Len(s) : FrameOK(g, cur, s, i)
  /\ \A i \in 1 .. Len(s) : GivenUp(g, Left(cur, s, i), s[i])

\* What a runner works on is in order, whatever the others do.
RunnerOK(g, x) ==
  /\ x.pc \in {"idle", "done"} => x.stack = <<>>
  /\ x.pc \in {"offer", "post", "loop"} =>
       x.stack # <<>> /\ Top(x.stack).v = NoVertex
  /\ x.pc # "idle" => x.uncov = Uncovered(g, x.cur)
  /\ x.pc \in Calling => ArgsOK(g, x)
  /\ ActivationsOK(g, x.cur, x.stack)
  /\ NoOverlap(x.cur, x.stack, CallsOf(x))

RunnersOK == \A r \in Runners : RunnerOK(hyper_graph, run[r])

\* What waits in the pool are calls that may be made.
OwnTasks ==
  [cand : SUBSET Vertices(hyper_graph), crit : Crits,
   cur : SUBSET Vertices(hyper_graph), uncov : SUBSET EdgeIds(hyper_graph),
   can_hit : SUBSET EdgeIds(hyper_graph)]

TasksOK ==
  \A i \in 1 .. Len(posted) :
    posted[i] \in OwnTasks /\ ArgsOK(hyper_graph, posted[i])

\* The runners and the pool agree.
Linked ==
  /\ reserved = {r \in Runners : run[r].pc = "post"}
  /\ \A w \in Threads : run[w].pc = "idle" <=> running[w] = NoTask \/ w \in ended
  /\ \A w \in Threads : run[w].pc # "done"
  /\ run[Main].pc # "idle"
  /\ joined <=> run[Main].pc = "done"

\* Who offers a task has asked for the index: the candidates it offers would
\* do, while no candidates at all would not.
Indexed ==
  \A r \in Runners :
    /\ run[r].pc \in {"offer", "post"} => index
    /\ run[r].pc = "scan" => ~Tolerated(Cardinality(run[r].uncov))

\* No set is left to two of the runners rn and the tasks ps.
Apart(rn, ps) ==
  /\ \A r, q \in Runners : r # q => Region(rn[r]) \cap Region(rn[q]) = {}
  /\ \A r \in Runners, i \in 1 .. Len(ps) : Region(rn[r]) \cap Tries(ps[i]) = {}
  /\ \A i, j \in 1 .. Len(ps) : i # j => Tries(ps[i]) \cap Tries(ps[j]) = {}

\* All that is left to try.
Remaining(rn, ps) ==
  (UNION {Region(rn[r]) : r \in Runners})
    \cup (UNION {Tries(ps[i]) : i \in 1 .. Len(ps)})

Emitted == Elements(output)

SearchOK == Apart(run, posted) /\ Remaining(run, posted) \cap Emitted = {}

OutputsOK ==
  /\ Emitted \subseteq MinimalCovers(hyper_graph, theta)
  /\ NoneTwice(output)

ControlOK == TypeOK /\ PoolInv /\ RunnersOK /\ TasksOK /\ Linked

IInv == ControlOK /\ Indexed /\ IndexBeforeTasks /\ SearchOK /\ OutputsOK

\* No minimal cover is lost: it has been emitted, or is still to be tried.
NothingMissed ==
  MinimalCovers(hyper_graph, theta) \subseteq Emitted \cup Remaining(run, posted)

-----------------------------------------------------------------------------
(***************************************************************************)
(* How the shares of the runners and the tasks change.                     *)
(***************************************************************************)

\* Nothing is left to try that was not before, nothing twice, and at most
\* what is lost is forgotten.
Divided(rn, ps, rn2, ps2, lost) ==
  /\ Apart(rn, ps) => Apart(rn2, ps2)
  /\ Remaining(rn2, ps2) \subseteq Remaining(rn, ps)
  /\ Remaining(rn, ps) \subseteq Remaining(rn2, ps2) \cup lost

\* One runner goes on with part of what it had.
LEMMA RunnerGoesOn ==
  ASSUME NEW rn, NEW rn2, NEW ps, NEW r \in Runners, NEW lost,
         \A q \in Runners \ {r} : rn2[q] = rn[q],
         Region(rn2[r]) \subseteq Region(rn[r]),
         Region(rn[r]) \subseteq Region(rn2[r]) \cup lost
  PROVE  Divided(rn, ps, rn2, ps, lost)
<1> DEFINE P(q) == Region(rn[q])
           Q(q) == Region(rn2[q])
           T(i) == Tries(ps[i])
<1>1. /\ \A q \in Runners \ {r} : Q(q) = P(q)
      /\ Q(r) \subseteq P(r) /\ P(r) \subseteq Q(r) \cup lost
  OBVIOUS
<1>2. \A q \in Runners : Q(q) \subseteq P(q) /\ P(q) \subseteq Q(q) \cup lost
  BY <1>1
<1>3. Apart(rn, ps) => Apart(rn2, ps)
  <2>1. /\ Apart(rn, ps) <=>
             /\ \A p, q \in Runners : p # q => P(p) \cap P(q) = {}
             /\ \A q \in Runners, i \in 1 .. Len(ps) : P(q) \cap T(i) = {}
             /\ \A i, j \in 1 .. Len(ps) : i # j => T(i) \cap T(j) = {}
        /\ Apart(rn2, ps) <=>
             /\ \A p, q \in Runners : p # q => Q(p) \cap Q(q) = {}
             /\ \A q \in Runners, i \in 1 .. Len(ps) : Q(q) \cap T(i) = {}
             /\ \A i, j \in 1 .. Len(ps) : i # j => T(i) \cap T(j) = {}
    BY DEF Apart
  <2> HIDE DEF P, Q, T
  <2>2. ASSUME \A p, q \in Runners : p # q => P(p) \cap P(q) = {},
               NEW p \in Runners, NEW q \in Runners, p # q
        PROVE  Q(p) \cap Q(q) = {}
    <3>1. P(p) \cap P(q) = {} /\ Q(p) \subseteq P(p) /\ Q(q) \subseteq P(q)
      BY <1>2, <2>2
    <3> QED
      BY ONLY <3>1
  <2>3. ASSUME \A q \in Runners, i \in 1 .. Len(ps) : P(q) \cap T(i) = {},
               NEW q \in Runners, NEW i \in 1 .. Len(ps)
        PROVE  Q(q) \cap T(i) = {}
    <3>1. P(q) \cap T(i) = {} /\ Q(q) \subseteq P(q)
      BY <1>2, <2>3
    <3> QED
      BY ONLY <3>1
  <2> QED
    BY <2>1, <2>2, <2>3
<1>4. /\ Remaining(rn, ps) =
           (UNION {P(q) : q \in Runners}) \cup (UNION {T(i) : i \in 1 .. Len(ps)})
      /\ Remaining(rn2, ps) =
           (UNION {Q(q) : q \in Runners}) \cup (UNION {T(i) : i \in 1 .. Len(ps)})
  BY DEF Remaining
<1> HIDE DEF P, Q, T
<1>5. UNION {Q(q) : q \in Runners} \subseteq UNION {P(q) : q \in Runners}
  BY <1>2
<1>6. UNION {P(q) : q \in Runners} \subseteq (UNION {Q(q) : q \in Runners}) \cup lost
  BY <1>2
<1>7. /\ Remaining(rn2, ps) \subseteq Remaining(rn, ps)
      /\ Remaining(rn, ps) \subseteq Remaining(rn2, ps) \cup lost
  BY <1>4, <1>5, <1>6
<1> QED
  BY <1>3, <1>7 DEF Divided

\* One runner makes a task of part of what it had.
LEMMA TaskPosted ==
  ASSUME NEW rn, NEW rn2, NEW S, NEW ps \in Seq(S), NEW t \in S, NEW r \in Runners,
         \A q \in Runners \ {r} : rn2[q] = rn[q],
         Region(rn[r]) = Region(rn2[r]) \cup Tries(t),
         Region(rn2[r]) \cap Tries(t) = {}
  PROVE  Divided(rn, ps, rn2, Append(ps, t), {})
<1> DEFINE n == Len(ps)
           ps2 == Append(ps, t)
           P(q) == Region(rn[q])
           Q(q) == Region(rn2[q])
           T(i) == Tries(ps[i])
           T2(i) == Tries(ps2[i])
<1>1. /\ n \in Nat /\ Len(ps2) = n + 1 /\ ps2[n + 1] = t
      /\ \A i \in 1 .. n : ps2[i] = ps[i]
  BY PushProperties
<1>2. \A i \in 1 .. n + 1 : i \in 1 .. n \/ i = n + 1
  BY <1>1
<1>3. n + 1 \in 1 .. n + 1 /\ \A i \in 1 .. n : i \in 1 .. n + 1
  BY <1>1
<1>4. /\ \A q \in Runners \ {r} : Q(q) = P(q)
      /\ P(r) = Q(r) \cup T2(n + 1) /\ Q(r) \cap T2(n + 1) = {}
      /\ \A i \in 1 .. n : T2(i) = T(i)
  BY <1>1
<1>5. /\ Apart(rn, ps) <=>
           /\ \A p, q \in Runners : p # q => P(p) \cap P(q) = {}
           /\ \A q \in Runners, i \in 1 .. n : P(q) \cap T(i) = {}
           /\ \A i, j \in 1 .. n : i # j => T(i) \cap T(j) = {}
      /\ Apart(rn2, ps2) <=>
           /\ \A p, q \in Runners : p # q => Q(p) \cap Q(q) = {}
           /\ \A q \in Runners, i \in 1 .. n + 1 : Q(q) \cap T2(i) = {}
           /\ \A i, j \in 1 .. n + 1 : i # j => T2(i) \cap T2(j) = {}
  BY <1>1 DEF Apart
<1>6. /\ Remaining(rn, ps) =
           (UNION {P(q) : q \in Runners}) \cup (UNION {T(i) : i \in 1 .. n})
      /\ Remaining(rn2, ps2) =
           (UNION {Q(q) : q \in Runners}) \cup (UNION {T2(i) : i \in 1 .. n + 1})
  BY <1>1 DEF Remaining
<1> HIDE DEF n, ps2, P, Q, T, T2
<1>7. \A q \in Runners : Q(q) \subseteq P(q)
  BY <1>4
<1>8. ASSUME Apart(rn, ps) PROVE Apart(rn2, ps2)
  <2>1. /\ \A p, q \in Runners : p # q => P(p) \cap P(q) = {}
        /\ \A q \in Runners, i \in 1 .. n : P(q) \cap T(i) = {}
        /\ \A i, j \in 1 .. n : i # j => T(i) \cap T(j) = {}
    BY <1>5, <1>8
  <2>2. ASSUME NEW p \in Runners, NEW q \in Runners, p # q
        PROVE  Q(p) \cap Q(q) = {}
    <3>1. P(p) \cap P(q) = {} /\ Q(p) \subseteq P(p) /\ Q(q) \subseteq P(q)
      BY <1>7, <2>1, <2>2
    <3> QED
      BY ONLY <3>1
  <2>3. ASSUME NEW q \in Runners, NEW i \in 1 .. n
        PROVE  Q(q) \cap T2(i) = {}
    <3>1. P(q) \cap T(i) = {} /\ Q(q) \subseteq P(q) /\ T2(i) = T(i)
      BY <1>4, <1>7, <2>1
    <3> QED
      BY ONLY <3>1
  <2>4. ASSUME NEW q \in Runners
        PROVE  Q(q) \cap T2(n + 1) = {}
    <3>1. CASE q = r
      BY <1>4, <3>1
    <3>2. CASE q # r
      <4>1. Q(q) = P(q) /\ P(q) \cap P(r) = {} /\ T2(n + 1) \subseteq P(r)
        BY <1>4, <2>1, <3>2
      <4> QED
        BY ONLY <4>1
    <3> QED
      BY <3>1, <3>2
  <2>5. ASSUME NEW i \in 1 .. n
        PROVE  T2(i) \cap T2(n + 1) = {}
    <3>1. P(r) \cap T(i) = {} /\ T2(i) = T(i) /\ T2(n + 1) \subseteq P(r)
      BY <1>4, <2>1
    <3> QED
      BY ONLY <3>1
  <2>6. \A q \in Runners, i \in 1 .. n + 1 : Q(q) \cap T2(i) = {}
    BY <1>2, <2>3, <2>4
  <2>7. \A i, j \in 1 .. n + 1 : i # j => T2(i) \cap T2(j) = {}
    <3>1. \A i, j \in 1 .. n : i # j => T2(i) \cap T2(j) = {}
      BY <1>4, <2>1
    <3> QED
      BY <1>2, <2>5, <3>1
  <2> QED
    BY <1>5, <2>2, <2>6, <2>7
<1>9. UNION {P(q) : q \in Runners} = (UNION {Q(q) : q \in Runners}) \cup T2(n + 1)
  <2>1. \A q \in Runners : P(q) \subseteq Q(q) \cup T2(n + 1)
    BY <1>4
  <2> QED
    BY <1>4, <1>7, <2>1
<1>10. UNION {T2(i) : i \in 1 .. n + 1} = (UNION {T(i) : i \in 1 .. n}) \cup T2(n + 1)
  BY <1>2, <1>3, <1>4
<1>11. Remaining(rn2, ps2) = Remaining(rn, ps)
  BY ONLY <1>6, <1>9, <1>10
<1>12. Divided(rn, ps, rn2, ps2, {})
  BY <1>8, <1>11 DEF Divided
<1> QED
  BY <1>12 DEF ps2

\* A sequence without its i-th element.
LEMMA WithoutOne ==
  ASSUME NEW S, NEW s \in Seq(S), NEW i \in 1 .. Len(s),
         NEW t, t = SubSeq(s, 1, i - 1) \o SubSeq(s, i + 1, Len(s))
  PROVE  /\ t \in Seq(S) /\ Len(s) \in Nat /\ Len(t) = Len(s) - 1
         /\ \A k \in 1 .. Len(s) - 1 : t[k] = IF k < i THEN s[k] ELSE s[k + 1]
<1> DEFINE n == Len(s)
           b == SubSeq(s, 1, i - 1)
           a == SubSeq(s, i + 1, n)
<1>1. n \in Nat /\ i \in 1 .. n
  BY LenProperties
<1>2. b \in Seq(S) /\ Len(b) = i - 1
  OBVIOUS
<1>3. a \in Seq(S) /\ Len(a) = n - i
  OBVIOUS
<1>4. \A k \in 1 .. i - 1 : b[k] = s[k]
  OBVIOUS
<1>5. \A k \in 1 .. n - i : a[k] = s[i + k]
  OBVIOUS
<1>6. t = b \o a
  OBVIOUS
<1> HIDE DEF n, a, b
<1>7. /\ t \in Seq(S) /\ Len(t) = Len(b) + Len(a)
      /\ \A k \in 1 .. Len(b) + Len(a) :
           t[k] = IF k <= Len(b) THEN b[k] ELSE a[k - Len(b)]
  BY ONLY <1>2, <1>3, <1>6, ConcatProperties
<1>8. Len(t) = n - 1
  BY <1>1, <1>2, <1>3, <1>7
<1>9. ASSUME NEW k \in 1 .. n - 1
      PROVE  t[k] = IF k < i THEN s[k] ELSE s[k + 1]
  <2>1. t[k] = IF k <= i - 1 THEN b[k] ELSE a[k - (i - 1)]
    <3>1. Len(b) + Len(a) = n - 1
      BY <1>1, <1>2, <1>3
    <3>2. k \in 1 .. Len(b) + Len(a)
      BY <3>1
    <3>3. t[k] = IF k <= Len(b) THEN b[k] ELSE a[k - Len(b)]
      BY ONLY <1>7, <3>2
    <3> QED
      BY ONLY <1>2, <3>3
  <2>2. CASE k < i
    <3>1. k \in 1 .. i - 1 /\ k <= i - 1
      BY <1>1, <2>2
    <3> QED
      BY <1>4, <2>1, <2>2, <3>1
  <2>3. CASE ~(k < i)
    <3>1. /\ k - (i - 1) \in 1 .. n - i /\ ~(k <= i - 1)
          /\ i + (k - (i - 1)) = k + 1
      BY <1>1, <2>3
    <3> QED
      BY <1>5, <2>1, <2>3, <3>1
  <2> QED
    BY <2>2, <2>3
<1> QED
  BY <1>1, <1>7, <1>8, <1>9 DEF n

\* A runner that had nothing takes a task.
LEMMA TaskStarted ==
  ASSUME NEW rn, NEW rn2, NEW S, NEW ps \in Seq(S), NEW i \in 1 .. Len(ps), NEW ps2,
         ps2 = SubSeq(ps, 1, i - 1) \o SubSeq(ps, i + 1, Len(ps)),
         NEW r \in Runners, \A q \in Runners \ {r} : rn2[q] = rn[q],
         Region(rn[r]) = {}, Region(rn2[r]) = Tries(ps[i])
  PROVE  Divided(rn, ps, rn2, ps2, {})
<1> DEFINE n == Len(ps)
           old(k) == IF k < i THEN k ELSE k + 1
           P(q) == Region(rn[q])
           Q(q) == Region(rn2[q])
           T(k) == Tries(ps[k])
           T2(k) == Tries(ps2[k])
<1>1. /\ n \in Nat /\ i \in 1 .. n /\ Len(ps2) = n - 1
      /\ \A k \in 1 .. n - 1 : ps2[k] = IF k < i THEN ps[k] ELSE ps[k + 1]
  <2>1. ps2 = SubSeq(ps, 1, i - 1) \o SubSeq(ps, i + 1, Len(ps))
    OBVIOUS
  <2> QED
    BY ONLY <2>1, WithoutOne
<1>2. \A k \in 1 .. n - 1 : T2(k) = T(old(k))
  BY <1>1
<1>3. \A k \in 1 .. n - 1 : old(k) \in 1 .. n /\ old(k) # i
  BY <1>1
<1>4. \A j, k \in 1 .. n - 1 : j # k => old(j) # old(k)
  BY <1>1
<1>5. \A j \in 1 .. n : j = i \/ \E k \in 1 .. n - 1 : j = old(k)
  <2> TAKE j \in 1 .. n
  <2>1. CASE j < i
    <3>1. j \in 1 .. n - 1 /\ j = old(j)
      BY <1>1, <2>1
    <3> QED
      BY <3>1
  <2>2. CASE j > i
    <3>1. j - 1 \in 1 .. n - 1 /\ j = old(j - 1)
      BY <1>1, <2>2
    <3> QED
      BY <3>1
  <2> QED
    BY <1>1, <2>1, <2>2
<1>6. /\ \A q \in Runners \ {r} : Q(q) = P(q)
      /\ P(r) = {} /\ Q(r) = T(i)
  OBVIOUS
<1>7. /\ Apart(rn, ps) <=>
           /\ \A p, q \in Runners : p # q => P(p) \cap P(q) = {}
           /\ \A q \in Runners, k \in 1 .. n : P(q) \cap T(k) = {}
           /\ \A j, k \in 1 .. n : j # k => T(j) \cap T(k) = {}
      /\ Apart(rn2, ps2) <=>
           /\ \A p, q \in Runners : p # q => Q(p) \cap Q(q) = {}
           /\ \A q \in Runners, k \in 1 .. n - 1 : Q(q) \cap T2(k) = {}
           /\ \A j, k \in 1 .. n - 1 : j # k => T2(j) \cap T2(k) = {}
  BY <1>1 DEF Apart
<1>8. /\ Remaining(rn, ps) =
           (UNION {P(q) : q \in Runners}) \cup (UNION {T(k) : k \in 1 .. n})
      /\ Remaining(rn2, ps2) =
           (UNION {Q(q) : q \in Runners}) \cup (UNION {T2(k) : k \in 1 .. n - 1})
  BY <1>1 DEF Remaining
<1> HIDE DEF n, P, Q, T, T2, old
<1>9. ASSUME Apart(rn, ps) PROVE Apart(rn2, ps2)
  <2>1. /\ \A p, q \in Runners : p # q => P(p) \cap P(q) = {}
        /\ \A q \in Runners, k \in 1 .. n : P(q) \cap T(k) = {}
        /\ \A j, k \in 1 .. n : j # k => T(j) \cap T(k) = {}
    BY <1>7, <1>9
  <2>2. \A q \in Runners \ {r} : Q(q) \cap Q(r) = {}
    BY <1>1, <1>6, <2>1
  <2>3. \A p, q \in Runners : p # q => Q(p) \cap Q(q) = {}
    <3> TAKE p, q \in Runners
    <3> HAVE p # q
    <3>1. CASE p = r
      <4>1. Q(q) \cap Q(r) = {}
        BY <2>2, <3>1
      <4> QED
        BY ONLY <3>1, <4>1
    <3>2. CASE q = r
      BY <2>2, <3>2
    <3>3. CASE p # r /\ q # r
      <4>1. Q(p) = P(p) /\ Q(q) = P(q)
        BY <1>6, <3>3
      <4> QED
        BY <2>1, <4>1
    <3> QED
      BY <3>1, <3>2, <3>3
  <2>4. \A q \in Runners, k \in 1 .. n - 1 : Q(q) \cap T2(k) = {}
    <3> TAKE q \in Runners, k \in 1 .. n - 1
    <3>1. old(k) \in 1 .. n /\ old(k) # i /\ T2(k) = T(old(k))
      BY <1>2, <1>3
    <3>2. CASE q = r
      <4>1. T(i) \cap T(old(k)) = {}
        BY <1>1, <2>1, <3>1
      <4> QED
        BY <1>6, <3>1, <3>2, <4>1
    <3>3. CASE q # r
      <4>1. Q(q) = P(q) /\ P(q) \cap T(old(k)) = {}
        BY <1>6, <2>1, <3>1, <3>3
      <4> QED
        BY <3>1, <4>1
    <3> QED
      BY <3>2, <3>3
  <2>5. \A j, k \in 1 .. n - 1 : j # k => T2(j) \cap T2(k) = {}
    BY <1>2, <1>3, <1>4, <2>1
  <2> QED
    BY <1>7, <2>3, <2>4, <2>5
<1>10. UNION {Q(q) : q \in Runners} = (UNION {P(q) : q \in Runners}) \cup T(i)
  <2>1. \A q \in Runners : Q(q) \subseteq P(q) \cup T(i) /\ P(q) \subseteq Q(q)
    BY <1>6
  <2> QED
    BY <1>6, <2>1
<1>11. UNION {T(k) : k \in 1 .. n} = (UNION {T2(k) : k \in 1 .. n - 1}) \cup T(i)
  <2>1. \A k \in 1 .. n - 1 : T2(k) \in {T(j) : j \in 1 .. n}
    BY <1>2, <1>3
  <2>2. \A j \in 1 .. n : T(j) = T(i) \/ T(j) \in {T2(k) : k \in 1 .. n - 1}
    BY <1>2, <1>5
  <2> QED
    BY <1>1, <2>1, <2>2
<1>12. Remaining(rn2, ps2) = Remaining(rn, ps)
  BY ONLY <1>8, <1>10, <1>11
<1> QED
  BY <1>9, <1>12 DEF Divided

-----------------------------------------------------------------------------
(***************************************************************************)
(* The activations of a runner: what each step leaves in order.            *)
(***************************************************************************)

\* A call adds an activation that has given up nothing wrongly.
LEMMA PushedOK ==
  ASSUME NEW g, NEW F, NEW s \in Seq(F), NEW cur, ActivationsOK(g, cur, s),
         NEW f \in F, f.v \notin cur, GivenUp(g, cur, f), NEW t, t = Append(s, f),
         \A i \in 1 .. Len(t) : FrameOK(g, cur, t, i)
  PROVE  ActivationsOK(g, cur, t)
<1>1. /\ \A i \in 1 .. Len(s) + 1 : Left(cur, t, i) = Left(cur, s, i)
      /\ Left(cur, s, Len(s) + 1) = cur
  BY LeftPushed, LeftTop
<1>2. /\ Len(s) \in Nat /\ Len(t) = Len(s) + 1 /\ t[Len(s) + 1] = f
      /\ \A i \in 1 .. Len(s) : t[i] = s[i]
  BY PushProperties
<1>3. \A i \in 1 .. Len(t) : i \in 1 .. Len(s) \/ i = Len(s) + 1
  BY <1>2
<1>4. ASSUME NEW i \in 1 .. Len(t) PROVE GivenUp(g, Left(cur, t, i), t[i])
  <2>1. CASE i \in 1 .. Len(s)
    <3>1. Left(cur, t, i) = Left(cur, s, i) /\ t[i] = s[i]
      BY <1>1, <1>2, <2>1
    <3>2. GivenUp(g, Left(cur, s, i), s[i])
      BY <2>1 DEF ActivationsOK
    <3> QED
      BY <3>1, <3>2
  <2>2. CASE i = Len(s) + 1
    <3>1. Left(cur, t, i) = cur /\ t[i] = f
      BY <1>1, <1>2, <2>2
    <3> QED
      BY <3>1
  <2> QED
    BY <1>3, <2>1, <2>2
<1> QED
  BY <1>4 DEF ActivationsOK

\* The innermost activation changes, and has no vertex it had not.
LEMMA TopChangedOK ==
  ASSUME NEW g, IsHyperGraph(g), NEW F, NEW s \in Seq(F), s # <<>>,
         NEW cur, ActivationsOK(g, cur, s),
         NEW a, a = s[Len(s)], NEW f \in F, f.can_hit = a.can_hit,
         f.cand \cup f.todo \cup {f.v}
           \subseteq a.cand \cup a.todo \cup {a.v, NoVertex},
         NEW cur2, cur2 \ {f.v} = cur \ {a.v}, NEW t, t = WithTop(s, f),
         \A i \in 1 .. Len(t) : FrameOK(g, cur2, t, i)
  PROVE  ActivationsOK(g, cur2, t)
<1>1. \A i \in 1 .. Len(s) : Left(cur2, t, i) = Left(cur, s, i)
  BY LeftWithTop
<1>2. /\ Len(s) \in Nat /\ Len(s) \in 1 .. Len(s) /\ Len(t) = Len(s) /\ t[Len(s)] = f
      /\ \A i \in 1 .. Len(s) - 1 : t[i] = s[i]
  <2>1. s \in Seq(F) /\ s # <<>> /\ f \in F /\ t = WithTop(s, f)
    OBVIOUS
  <2>2. Len(s) \in Nat /\ Len(s) \in 1 .. Len(s)
    BY ONLY <2>1, TopProperties
  <2>3. /\ WithTop(s, f) \in Seq(F)
        /\ Len(WithTop(s, f)) = Len(s)
        /\ WithTop(s, f)[Len(s)] = f
        /\ \A i \in 1 .. Len(s) - 1 : WithTop(s, f)[i] = s[i]
        /\ WithTop(s, f) # <<>>
    <3>1. s \in Seq(F) /\ s # <<>> /\ f \in F
      OBVIOUS
    <3> QED
      BY ONLY <3>1, WithTopProperties
  <2> QED
    BY ONLY <2>1, <2>2, <2>3
<1>3. \A i \in 1 .. Len(t) : i \in 1 .. Len(s) - 1 \/ i = Len(s)
  BY <1>2
<1>4. ASSUME NEW i \in 1 .. Len(t) PROVE GivenUp(g, Left(cur2, t, i), t[i])
  <2>1. /\ Left(cur2, t, i) = Left(cur, s, i)
        /\ GivenUp(g, Left(cur, s, i), s[i])
    BY <1>1, <1>2 DEF ActivationsOK
  <2>2. CASE i \in 1 .. Len(s) - 1
    <3>1. t[i] = s[i]
      BY <1>2, <2>2
    <3> QED
      BY <2>1, <3>1
  <2>3. CASE i = Len(s)
    <3> DEFINE C == Left(cur, s, i)
    <3>1. t[i] = f /\ GivenUp(g, C, a)
      BY <1>2, <2>1, <2>3
    <3>2. \A e \in EdgeIds(g) : NoVertex \notin g[e]
      BY IsHyperGraphProperties
    <3>3. Uncovered(g, C) \subseteq EdgeIds(g)
      BY DEF Uncovered
    <3> HIDE DEF C
    <3>4. GivenUp(g, C, f)
      BY <3>1, <3>2, <3>3 DEF GivenUp
    <3> QED
      BY <2>1, <3>1, <3>4 DEF C
  <2> QED
    BY <1>3, <2>2, <2>3
<1> QED
  BY <1>4 DEF ActivationsOK

\* The innermost activation is gone.
LEMMA PoppedOK ==
  ASSUME NEW g, NEW F, NEW s \in Seq(F), s # <<>>,
         NEW cur, ActivationsOK(g, cur, s), s[Len(s)].v \notin cur,
         NEW t, t = Popped(s), \A i \in 1 .. Len(t) : FrameOK(g, cur, t, i)
  PROVE  ActivationsOK(g, cur, t)
<1>1. \A i \in 1 .. Len(s) : Left(cur, t, i) = Left(cur, s, i)
  BY LeftPopped
<1>2. /\ Len(s) \in Nat /\ Len(t) = Len(s) - 1
      /\ \A i \in 1 .. Len(s) - 1 : t[i] = s[i]
  BY TopProperties, PoppedProperties
<1>3. ASSUME NEW i \in 1 .. Len(t) PROVE GivenUp(g, Left(cur, t, i), t[i])
  <2>1. i \in 1 .. Len(s) /\ t[i] = s[i] /\ Left(cur, t, i) = Left(cur, s, i)
    BY <1>1, <1>2
  <2> QED
    BY <2>1 DEF ActivationsOK
<1> QED
  BY <1>3 DEF ActivationsOK

\* What a step of a search leaves to the runner x that becomes y.
LEMMA RunnerStepped ==
  ASSUME NEW g, NEW x, NEW y, NEW lost, NoOverlap(x.cur, x.stack, CallsOf(x)),
         Stepped(g, x.cur, x.stack, CallsOf(x), y.cur, y.stack, CallsOf(y), lost)
  PROVE  /\ \A i \in 1 .. Len(y.stack) : FrameOK(g, y.cur, y.stack, i)
         /\ NoOverlap(y.cur, y.stack, CallsOf(y))
         /\ Region(y) \subseteq Region(x)
         /\ Region(x) \subseteq Region(y) \cup lost
BY DEF Stepped, Narrowed, Region

-----------------------------------------------------------------------------
(***************************************************************************)
(* The steps of one runner on its own data.                                *)
(***************************************************************************)

\* Runner r goes on; nothing but what is lost is forgotten.
GoesOn(r, lost) ==
  /\ run' \in [Runners -> Runs]
  /\ \A q \in Runners \ {r} : run'[q] = run[q]
  /\ RunnerOK(hyper_graph, run'[r])
  /\ Region(run'[r]) \subseteq Region(run[r])
  /\ Region(run[r]) \subseteq Region(run'[r]) \cup lost

LEMMA GivenFacts ==
  ASSUME TypeOK
  PROVE  /\ IsHyperGraph(hyper_graph)
         /\ Vertices(hyper_graph) \subseteq Nat
         /\ NoVertex \notin Vertices(hyper_graph)
         /\ IsFiniteSet(EdgeIds(hyper_graph))
         /\ EdgeNum(hyper_graph) \in Nat
         /\ EdgeIds(hyper_graph) \subseteq Nat
         /\ \A e \in EdgeIds(hyper_graph) :
              hyper_graph[e] \subseteq Vertices(hyper_graph)
         /\ theta \in Nat
<1>1. IsHyperGraph(hyper_graph) /\ theta \in Nat
  BY HyperGraphsAssumption, ThetasAssumption DEF TypeOK
<1> QED
  BY <1>1, IsHyperGraphProperties

\* What a step of runner r has to go by.
LEMMA RunnerFacts ==
  ASSUME ControlOK, NEW r \in Runners
  PROVE  /\ run[r] \in Runs /\ run[r].stack \in Seq(Frames)
         /\ run[r].cur \subseteq Vertices(hyper_graph) /\ NoVertex \notin run[r].cur
         /\ RunnerOK(hyper_graph, run[r])
         /\ ActivationsOK(hyper_graph, run[r].cur, run[r].stack)
         /\ \A i \in 1 .. Len(run[r].stack) :
              FrameOK(hyper_graph, run[r].cur, run[r].stack, i)
         /\ NoOverlap(run[r].cur, run[r].stack, CallsOf(run[r]))
         /\ run[r].stack # <<>> =>
              /\ active(r) = run[r].stack[Len(run[r].stack)]
              /\ Len(run[r].stack) \in 1 .. Len(run[r].stack)
              /\ active(r) \in Frames
              /\ active(r).todo \subseteq Nat /\ NoVertex \notin active(r).todo
<1>1. /\ run[r] \in Runs /\ run[r].stack \in Seq(Frames)
      /\ run[r].cur \subseteq Vertices(hyper_graph)
  BY DEF ControlOK, TypeOK, Runs
<1>2. NoVertex \notin Vertices(hyper_graph) /\ Vertices(hyper_graph) \subseteq Nat
  BY GivenFacts DEF ControlOK
<1>3. RunnerOK(hyper_graph, run[r])
  BY DEF ControlOK, RunnersOK
<1>4. ASSUME run[r].stack # <<>>
      PROVE  /\ active(r) = run[r].stack[Len(run[r].stack)]
             /\ Len(run[r].stack) \in 1 .. Len(run[r].stack)
             /\ active(r) \in Frames
             /\ active(r).todo \subseteq Nat /\ NoVertex \notin active(r).todo
  <2>1. /\ active(r) = run[r].stack[Len(run[r].stack)] /\ active(r) \in Frames
        /\ Len(run[r].stack) \in 1 .. Len(run[r].stack)
    BY <1>1, <1>4, TopProperties DEF active
  <2>2. active(r).todo \subseteq Vertices(hyper_graph)
    BY <2>1 DEF Frames
  <2> QED
    BY <1>2, <2>1, <2>2
<1> QED
  BY <1>1, <1>2, <1>3, <1>4 DEF RunnerOK, ActivationsOK

\* The call is over: nothing but what it was to try is forgotten.
LEMMA CallEnds ==
  ASSUME ControlOK, NEW r \in Runners, run[r].pc = "call", Goto(r, "return")
  PROVE  /\ GoesOn(r, Tries(run[r]))
         /\ Region(run'[r]) \cap Tries(run[r]) = {}
         /\ Tries(run[r]) \subseteq Region(run[r])
<1> DEFINE y == [run[r] EXCEPT !.pc = "return"]
<1>1. PICK x : x = run[r]
  OBVIOUS
<1>2. /\ x \in Runs /\ RunnerOK(hyper_graph, x) /\ x.pc = "call"
      /\ \A i \in 1 .. Len(x.stack) : FrameOK(hyper_graph, x.cur, x.stack, i)
      /\ NoOverlap(x.cur, x.stack, CallsOf(x)) /\ CallsOf(x) = Tries(x)
  BY <1>1, RunnerFacts DEF CallsOf, Calling
<1>3. /\ y \in Runs /\ y.pc = "return" /\ y.cur = x.cur /\ y.uncov = x.uncov
      /\ y.stack = x.stack
  BY <1>1, <1>2 DEF Runs
<1>4. run' = [run EXCEPT ![r] = y]
  BY DEF Goto, ControlOK, TypeOK
<1>5. /\ run' \in [Runners -> Runs] /\ run'[r] = y
      /\ \A q \in Runners \ {r} : run'[q] = run[q]
  BY <1>3, <1>4 DEF ControlOK, TypeOK
<1> HIDE DEF y
<1>6. CallsOf(y) = {}
  BY <1>3 DEF CallsOf, Calling
<1>7. /\ Stepped(hyper_graph, x.cur, x.stack, Tries(x), x.cur, x.stack, {}, Tries(x))
      /\ Whole(x.cur, x.stack, {}) \cap Tries(x) = {}
      /\ Tries(x) \subseteq Whole(x.cur, x.stack, Tries(x))
  BY <1>2, CallDoneStep
<1>8. Stepped(hyper_graph, x.cur, x.stack, CallsOf(x),
              y.cur, y.stack, CallsOf(y), Tries(x))
  BY <1>2, <1>3, <1>6, <1>7
<1>9. /\ NoOverlap(y.cur, y.stack, CallsOf(y)) /\ Region(y) \subseteq Region(x)
      /\ Region(x) \subseteq Region(y) \cup Tries(x)
  BY ONLY <1>2, <1>8, RunnerStepped
<1>10. RunnerOK(hyper_graph, y)
  BY <1>2, <1>3, <1>9 DEF RunnerOK, Calling
<1>11. GoesOn(r, Tries(x))
  BY <1>1, <1>5, <1>9, <1>10 DEF GoesOn
<1>12. Region(y) \cap Tries(x) = {} /\ Tries(x) \subseteq Region(x)
  BY <1>2, <1>3, <1>6, <1>7 DEF Region
<1> QED
  BY <1>1, <1>5, <1>11, <1>12

\* Runner r goes on, and no minimal cover is forgotten if there is an edge.
Advances(r) ==
  \E lost : /\ GoesOn(r, lost)
            /\ EdgeNum(hyper_graph) > 0 =>
                 MinimalCovers(hyper_graph, theta) \cap lost = {}

\* The call without the vertices of the edge, if there is one, and the loop
\* over its vertices share what the call was to try, whatever the edge is.
LEMMA CoverStep ==
  ASSUME ControlOK, NEW r \in Runners, run[r].pc \in {"call", "scan"},
         ~Tolerated(Cardinality(run[r].uncov)), NEW e, Cover(r, e),
         UNCHANGED given
  PROVE  /\ Advances(r)
         /\ run'[r].pc \in {"offer", "loop"}
         /\ run'[r].pc = "offer" => index'
         /\ index => index'
<1> DEFINE c == run[r].cand \cap hyper_graph[e]
           rest == run[r].cand \ c
           f == [cand |-> rest, todo |-> c, crit |-> run[r].crit,
                 can_hit |-> run[r].can_hit, v |-> NoVertex, back |-> {}]
           will == WillCover(rest, run[r].uncov)
           y == [pc |-> IF will THEN "offer" ELSE "loop",
                 cur |-> run[r].cur, uncov |-> run[r].uncov, cand |-> rest,
                 crit |-> run[r].crit,
                 can_hit |-> CanHitWith(rest, run[r].uncov, run[r].can_hit),
                 stack |-> Append(run[r].stack, f), scan |-> {}]
<1>1. PICK x : x = run[r]
  OBVIOUS
<1>2. PICK g : g = hyper_graph
  OBVIOUS
<1>3. /\ x \in Runs /\ x.stack \in Seq(Frames) /\ x.cur \subseteq Vertices(g)
      /\ NoVertex \notin x.cur /\ RunnerOK(g, x)
      /\ ActivationsOK(g, x.cur, x.stack)
      /\ \A i \in 1 .. Len(x.stack) : FrameOK(g, x.cur, x.stack, i)
      /\ NoOverlap(x.cur, x.stack, CallsOf(x))
  BY <1>1, <1>2, RunnerFacts
<1>4. /\ CallsOf(x) = Within(x.cur, x.cand) /\ x.uncov = Uncovered(g, x.cur)
      /\ x.cand \cap x.cur = {} /\ HoldsCritical(g, x.cur, x.crit)
      /\ \A a \in x.uncov \ x.can_hit : g[a] \cap x.cand = {}
  BY <1>1, <1>3 DEF CallsOf, Tries, Calling, RunnerOK, ArgsOK, CallReady
<1>5. f \in Frames
  BY <1>1, <1>3 DEF Runs, Frames
<1>6. Append(run[r].stack, f) \in Seq(Frames) /\ Append(run[r].stack, f) # <<>>
      /\ Top(Append(run[r].stack, f)) = f
  <2> HIDE DEF f
  <2>1. /\ Append(x.stack, f) \in Seq(Frames)
        /\ Len(Append(x.stack, f)) = Len(x.stack) + 1
        /\ Append(x.stack, f)[Len(x.stack) + 1] = f
        /\ Append(x.stack, f) # <<>>
    BY <1>3, <1>5, PushProperties
  <2> QED
    BY <1>1, <2>1 DEF Top
<1>7. y \in Runs
  <2>1. CanHitWith(rest, run[r].uncov, run[r].can_hit) \subseteq EdgeIds(hyper_graph)
    BY <1>1, <1>3 DEF CanHitWith, Runs
  <2>2. /\ rest \subseteq Vertices(hyper_graph) /\ run[r].crit \in Crits
        /\ run[r].cur \subseteq Vertices(hyper_graph)
        /\ run[r].uncov \subseteq EdgeIds(hyper_graph)
    BY <1>1, <1>3 DEF Runs
  <2>3. y.pc \in {"offer", "loop"}
    OBVIOUS
  <2> HIDE DEF rest, f, will
  <2> QED
    BY <1>6, <2>1, <2>2 DEF Runs
<1>8. /\ run'[r] = y /\ run' \in [Runners -> Runs]
      /\ \A q \in Runners \ {r} : run'[q] = run[q]
  <2>1. run \in [Runners -> Runs]
    BY DEF ControlOK, TypeOK
  <2>2. run' = [run EXCEPT
          ![r].stack = Append(@, f), ![r].scan = {}, ![r].cand = rest,
          ![r].can_hit = CanHitWith(rest, run[r].uncov, @),
          ![r].pc = IF will THEN "offer" ELSE "loop"]
    BY DEF Cover
  <2>3. run'[r] = y /\ \A q \in Runners \ {r} : run'[q] = run[q]
    <3> HIDE DEF f, rest, will
    <3> QED
      BY <2>1, <2>2 DEF Runs
  <2>4. run' = [run EXCEPT ![r] = y]
    <3> HIDE DEF f, rest, will
    <3> QED
      BY <2>1, <2>2 DEF Runs
  <2> HIDE DEF y
  <2> QED
    BY <1>7, <2>1, <2>3, <2>4
<1>9. will => index'
  <2>1. ASSUME rest = {} PROVE ~will
    <3>1. {a \in run[r].uncov : hyper_graph[a] \cap rest = {}} = run[r].uncov
      BY <2>1
    <3> HIDE DEF rest
    <3> QED
      BY <3>1 DEF WillCover
  <2>2. index' = (index \/ rest # {})
    BY DEF Cover
  <2> QED
    BY <2>1, <2>2
<1> DEFINE calls2 == IF will THEN Within(x.cur, rest) ELSE {}
<1>10. Stepped(g, x.cur, x.stack, Within(x.cur, x.cand), x.cur, Append(x.stack, f),
               calls2, Within(x.cur, rest) \ calls2)
  <2>1. /\ c \in SUBSET x.cand /\ rest = x.cand \ c
        /\ f.cand = rest /\ f.todo = c /\ f.crit = x.crit
        /\ f.v = NoVertex /\ f.back = {} /\ calls2 \in SUBSET Within(x.cur, rest)
    BY <1>1
  <2> HIDE DEF c, rest, f, calls2
  <2>2. /\ x.stack \in Seq(Frames) /\ NoVertex \notin x.cur /\ x.cand \cap x.cur = {}
        /\ HoldsCritical(g, x.cur, x.crit) /\ f \in Frames
        /\ \A i \in 1 .. Len(x.stack) : FrameOK(g, x.cur, x.stack, i)
    BY <1>3, <1>4, <1>5
  <2> QED
    BY ONLY <2>1, <2>2, PushStep
<1>11. /\ y.cur = x.cur /\ y.stack = Append(x.stack, f) /\ y.uncov = x.uncov
       /\ y.cand = rest /\ y.crit = x.crit
       /\ y.pc = IF will THEN "offer" ELSE "loop"
       /\ y.can_hit = CanHitWith(rest, x.uncov, x.can_hit)
  BY <1>1
<1>12. CallsOf(y) = calls2
  BY <1>11 DEF CallsOf, Tries, Calling
<1>13. GivenUp(g, x.cur, f)
  <2>1. ASSUME NEW a \in Uncovered(g, x.cur) \ x.can_hit
        PROVE  g[a] \cap (rest \cup c \cup {NoVertex}) = {}
    <3>1. g[a] \cap x.cand = {}
      BY <1>4
    <3>2. a \in EdgeIds(g)
      BY DEF Uncovered
    <3>3. NoVertex \notin g[a]
      BY <1>2, <3>2, GivenFacts DEF ControlOK
    <3> QED
      BY <1>1, <3>1, <3>3
  <2>2. f.can_hit = x.can_hit /\ f.cand = rest /\ f.todo = c /\ f.v = NoVertex
    BY <1>1
  <2> HIDE DEF f, rest, c
  <2> QED
    BY <2>1, <2>2 DEF GivenUp
<1>14. ArgsOK(g, y) \/ ~will
  <2>1. ASSUME NEW a \in x.uncov \ CanHitWith(rest, x.uncov, x.can_hit)
        PROVE  g[a] \cap rest = {}
    <3>1. CASE a \notin x.can_hit
      <4>1. g[a] \cap x.cand = {}
        BY <1>4, <3>1
      <4> QED
        BY <1>1, <4>1
    <3>2. CASE a \in x.can_hit
      BY <1>2, <3>2 DEF CanHitWith
    <3> QED
      BY <3>1, <3>2
  <2>2. rest \cap x.cur = {}
    BY <1>1, <1>4
  <2> HIDE DEF y, rest
  <2> QED
    BY <1>4, <1>11, <2>1, <2>2 DEF ArgsOK, CallReady
<1> DEFINE lost == Within(x.cur, rest) \ calls2
<1>15. f.v = NoVertex
  OBVIOUS
<1>16. EdgeNum(g) > 0 => MinimalCovers(g, theta) \cap lost = {}
  <2>1. CASE will
    BY <2>1
  <2>2. CASE ~will
    <3> SUFFICES ASSUME EdgeNum(g) > 0
                 PROVE  MinimalCovers(g, theta) \cap Within(x.cur, rest) = {}
      OBVIOUS
    <3>1. ~(100 * Cardinality({a \in Uncovered(g, x.cur) : g[a] \cap rest = {}})
              <= theta * EdgeNum(g))
      <4> HIDE DEF rest
      <4> QED
        BY <1>1, <1>2, <1>4, <2>2 DEF WillCover, Tolerated
    <3>2. IsFiniteSet(EdgeIds(g)) /\ theta \in Nat
      BY <1>2, GivenFacts DEF ControlOK
    <3> HIDE DEF rest
    <3> QED
      BY ONLY <3>1, <3>2, NothingWithin
  <2> QED
    BY <2>1, <2>2
<1> HIDE DEF f, y, rest, c, will, calls2, lost
<1>17. Stepped(g, x.cur, x.stack, CallsOf(x), y.cur, y.stack, CallsOf(y), lost)
  BY <1>4, <1>10, <1>11, <1>12 DEF lost
<1>18. /\ \A i \in 1 .. Len(y.stack) : FrameOK(g, y.cur, y.stack, i)
       /\ NoOverlap(y.cur, y.stack, CallsOf(y))
       /\ Region(y) \subseteq Region(x) /\ Region(x) \subseteq Region(y) \cup lost
  BY ONLY <1>3, <1>17, RunnerStepped
<1>19. ActivationsOK(g, y.cur, y.stack)
  <2>1. f.v \notin x.cur /\ y.stack = Append(x.stack, f)
        /\ \A i \in 1 .. Len(y.stack) : FrameOK(g, x.cur, y.stack, i)
    BY <1>3, <1>11, <1>15, <1>18
  <2> QED
    BY <1>3, <1>5, <1>11, <1>13, <2>1, PushedOK
<1>20. RunnerOK(g, y)
  <2>1. y.pc \in {"offer", "loop"} /\ (y.pc = "offer" => will)
    BY <1>11
  <2>2. y.stack # <<>> /\ Top(y.stack).v = NoVertex /\ y.uncov = Uncovered(g, y.cur)
    BY <1>1, <1>4, <1>6, <1>11, <1>15
  <2> QED
    BY <1>14, <1>18, <1>19, <2>1, <2>2 DEF RunnerOK, Calling
<1>21. GoesOn(r, lost)
  BY <1>1, <1>2, <1>8, <1>18, <1>20 DEF GoesOn
<1>22. Advances(r)
  BY <1>2, <1>16, <1>21 DEF Advances
<1>23. index => index'
  BY DEF Cover
<1> QED
  BY <1>8, <1>9, <1>11, <1>22, <1>23

\* A step that changes only where runner r is, and what it has still to write,
\* changes nothing it is to try.
LEMMA SameArguments ==
  ASSUME ControlOK, NEW r \in Runners, NEW y \in Runs,
         y.cur = run[r].cur, y.uncov = run[r].uncov, y.cand = run[r].cand,
         y.crit = run[r].crit, y.can_hit = run[r].can_hit, y.stack = run[r].stack,
         CallsOf(y) = CallsOf(run[r]),
         y.pc \in Calling => run[r].pc \in Calling,
         y.pc \in {"idle", "done"} => y.stack = <<>>,
         run[r].pc # "idle",
         y.pc \in {"offer", "post", "loop"} =>
           run[r].pc \in {"offer", "post", "loop"},
         run' = [run EXCEPT ![r] = y]
  PROVE  Advances(r)
<1>1. RunnerOK(hyper_graph, run[r])
  BY RunnerFacts
<1>2. /\ run' \in [Runners -> Runs] /\ run'[r] = y
      /\ \A q \in Runners \ {r} : run'[q] = run[q]
  BY DEF ControlOK, TypeOK
<1>3. ASSUME y.pc \in Calling PROVE ArgsOK(hyper_graph, y)
  <2>1. ArgsOK(hyper_graph, run[r])
    BY <1>1, <1>3 DEF RunnerOK
  <2> QED
    BY <2>1 DEF ArgsOK
<1>4. RunnerOK(hyper_graph, y)
  BY <1>1, <1>3 DEF RunnerOK
<1>5. Region(y) = Region(run[r])
  BY DEF Region
<1>6. GoesOn(r, {})
  BY <1>2, <1>4, <1>5 DEF GoesOn
<1> QED
  BY <1>6 DEF Advances

\* The scan picks an edge as long as an unhit edge has a candidate.
LEMMA WrittenProperties ==
  ASSUME TypeOK, method \in {"MIN", "MAX", "PRIORITY"},
         NEW cand, NEW open \in SUBSET EdgeIds(hyper_graph)
  PROVE  /\ Written(cand, open) \subseteq open
         /\ Written(cand, open) = {} =>
              \A e \in open : hyper_graph[e] \cap cand = {}
<1>1. Written(cand, open) \subseteq open
  BY DEF Written
<1>2. open \subseteq Nat /\ IsHyperGraph(hyper_graph)
  BY GivenFacts
<1> DEFINE n(e) == CandNum(cand, e)
<1>3. \A e \in open : n(e) \in 0 .. MaxBit /\ (n(e) = 0 <=> hyper_graph[e] \cap cand = {})
  BY <1>2, CandidateCount DEF CandNum
<1>4. MaxBit \in Nat
  BY DEF MaxBit
<1>5. ASSUME Written(cand, open) = {}, NEW e0 \in open
      PROVE  hyper_graph[e0] \cap cand = {}
  <2> HIDE DEF n
  <2>1. CASE method = "MIN"
    <3>1. Least(open) \in open /\ \A f \in open : Least(open) <= f
      BY <1>2, LeastProperties
    <3>2. \A f \in open : ~(f < Least(open))
      <4> DEFINE l == Least(open)
      <4>1. l \in Nat /\ \A f \in open : f \in Nat /\ l <= f
        BY <1>2, <3>1
      <4> HIDE DEF l
      <4> QED
        BY <4>1 DEF l
    <3>3. Least(open) \in Written(cand, open)
      BY <2>1, <3>1, <3>2 DEF Written
    <3> QED
      BY <1>5, <3>3
  <2>2. CASE method = "MAX"
    <3> SUFFICES ASSUME n(e0) # 0 PROVE FALSE
      BY <1>3
    <3> DEFINE h == [e \in open |-> n(e)]
    <3>1. h \in [open -> 0 .. MaxBit]
      BY <1>3
    <3>2. PICK m \in open : \A e \in open : h[m] >= h[e]
      <4> HIDE DEF h, MaxBit
      <4> QED
        BY <1>4, <3>1, DearestExists
    <3> DEFINE best == {e \in open : n(e) = n(m)}
    <3>3. best \in SUBSET Nat /\ m \in best
      BY <1>2
    <3>4. Least(best) \in best /\ \A f \in best : Least(best) <= f
      <4> HIDE DEF best
      <4> QED
        BY <3>3, LeastProperties
    <3> DEFINE b == Least(best)
    <3>5. b \in open /\ n(b) = n(m) /\ \A e \in open : n(b) >= n(e)
      BY <3>2, <3>4
    <3>6. \A e \in open : n(e) \in Nat
      BY <1>3
    <3>7. ASSUME NEW e \in open, e < b PROVE n(e) < n(b)
      <4>1. e \in Nat /\ b \in Nat
        BY <1>2, <3>5
      <4>2. e \notin best
        BY <3>4, <3>7, <4>1
      <4>3. n(e) # n(b)
        BY <3>5, <4>2
      <4> HIDE DEF b
      <4> QED
        BY <3>5, <3>6, <4>3
    <3>8. n(b) > 0
      BY <3>5, <3>6
    <3> HIDE DEF b
    <3>9. b \in Written(cand, open)
      BY <2>2, <3>5, <3>7, <3>8 DEF Written, n
    <3> QED
      BY <1>5, <3>9
  <2>3. CASE method = "PRIORITY"
    <3> DEFINE p == [e \in open |-> EdgePriority(e)]
    <3>1. p \in [open -> 0 .. MaxBit]
      <4>1. ASSUME NEW e \in open PROVE EdgePriority(e) \in 0 .. MaxBit
        <5>1. hyper_graph[e] \cap hyper_graph[e] = hyper_graph[e]
          OBVIOUS
        <5>2. Cardinality(hyper_graph[e]) \in 0 .. MaxBit
          BY <1>2, <5>1, CandidateCount
        <5>3. 0 \in 0 .. MaxBit /\ 1 \in 0 .. MaxBit
          BY DEF MaxBit
        <5> QED
          BY <5>2, <5>3 DEF EdgePriority
      <4> QED
        BY <4>1
    <3>2. PICK m \in open : \A e \in open : p[m] >= p[e]
      <4> HIDE DEF p, MaxBit
      <4> QED
        BY <1>4, <3>1, DearestExists
    <3> DEFINE high == {e \in open : p[e] = p[m]}
               h == [e \in high |-> n(e)]
    <3>3. m \in high /\ high \subseteq open /\ h \in [high -> 0 .. MaxBit]
      BY <1>3
    <3>4. PICK k \in high : \A e \in high : h[k] >= h[e]
      <4> HIDE DEF h, high, MaxBit
      <4> QED
        BY <1>4, <3>3, DearestExists
    <3> DEFINE best == {e \in high : n(e) = n(k)}
    <3>5. best \in SUBSET Nat /\ k \in best
      BY <1>2
    <3>6. Least(best) \in best /\ \A f \in best : Least(best) <= f
      <4> HIDE DEF best
      <4> QED
        BY <3>5, LeastProperties
    <3> DEFINE b == Least(best)
    <3>7. /\ b \in open /\ p[b] = p[m] /\ n(b) = n(k)
          /\ \A e \in open : p[b] >= p[e]
          /\ \A e \in open : p[e] = p[b] => n(b) >= n(e)
      BY <3>2, <3>4, <3>6
    <3>8. \A e \in open : n(e) \in Nat /\ p[e] \in Nat /\ p[e] = EdgePriority(e)
      BY <1>3, <3>1
    <3>9. ASSUME NEW e \in open
          PROVE  /\ Preferred(cand, b, e)
                 /\ e < b => ~Preferred(cand, e, b)
      <4>1. e < b => e \notin best
        <5>1. e \in Nat /\ b \in Nat
          BY <1>2, <3>7
        <5> QED
          BY <3>6, <5>1
      <4>2. e < b => ~(p[e] = p[b] /\ n(e) = n(b))
        BY <3>7, <4>1
      <4> HIDE DEF b, p
      <4>3. /\ p[b] > p[e] \/ (p[b] = p[e] /\ n(b) >= n(e))
            /\ e < b => ~(p[e] > p[b] \/ (p[e] = p[b] /\ n(e) >= n(b)))
        BY <3>7, <3>8, <4>2
      <4> QED
        BY <3>7, <3>8, <4>3 DEF Preferred, n
    <3> HIDE DEF b
    <3>10. b \in Written(cand, open)
      BY <2>3, <3>7, <3>9 DEF Written
    <3> QED
      BY <1>5, <3>10
  <2> QED
    BY <2>1, <2>2, <2>3
<1> QED
  BY <1>1, <1>5

\* Runner r becomes y by a step of its search.
LEMMA StepAdvances ==
  ASSUME ControlOK, NEW r \in Runners, NEW y \in Runs,
         run' = [run EXCEPT ![r] = y], NEW lost,
         Stepped(hyper_graph, run[r].cur, run[r].stack, CallsOf(run[r]),
                 y.cur, y.stack, CallsOf(y), lost),
         EdgeNum(hyper_graph) > 0 =>
           MinimalCovers(hyper_graph, theta) \cap lost = {},
         ActivationsOK(hyper_graph, y.cur, y.stack),
         y.pc \notin {"idle", "done"},
         y.pc \in {"offer", "post", "loop"} =>
           y.stack # <<>> /\ Top(y.stack).v = NoVertex,
         y.uncov = Uncovered(hyper_graph, y.cur),
         y.pc \in Calling => ArgsOK(hyper_graph, y)
  PROVE  Advances(r)
<1>1. /\ NoOverlap(y.cur, y.stack, CallsOf(y))
      /\ Region(y) \subseteq Region(run[r])
      /\ Region(run[r]) \subseteq Region(y) \cup lost
  BY RunnerFacts, RunnerStepped
<1>2. RunnerOK(hyper_graph, y)
  BY <1>1 DEF RunnerOK
<1>3. /\ run' \in [Runners -> Runs] /\ run'[r] = y
      /\ \A q \in Runners \ {r} : run'[q] = run[q]
  BY DEF ControlOK, TypeOK
<1>4. GoesOn(r, lost)
  BY <1>1, <1>2, <1>3 DEF GoesOn
<1> QED
  BY <1>4 DEF Advances

\* No minimal cover is given up with a call all of whose unhit edges have no
\* candidate, but for those can_hit has given up already.
LEMMA NothingTried ==
  ASSUME ControlOK, NEW r \in Runners, run[r].pc = "call",
         ~Tolerated(Cardinality(run[r].uncov)), EdgeNum(hyper_graph) > 0,
         \A e \in run[r].uncov \cap run[r].can_hit :
           hyper_graph[e] \cap run[r].cand = {}
  PROVE  MinimalCovers(hyper_graph, theta) \cap Tries(run[r]) = {}
<1> DEFINE unhit == {e \in Uncovered(hyper_graph, run[r].cur) :
                       hyper_graph[e] \cap run[r].cand = {}}
<1>1. ArgsOK(hyper_graph, run[r])
  BY RunnerFacts DEF RunnerOK, Calling
<1>2. unhit = run[r].uncov
  BY <1>1 DEF ArgsOK
<1>3. ~(100 * Cardinality(unhit) <= theta * EdgeNum(hyper_graph))
  <2> HIDE DEF unhit
  <2> QED
    BY <1>2 DEF Tolerated
<1>4. IsFiniteSet(EdgeIds(hyper_graph)) /\ theta \in Nat
  BY GivenFacts DEF ControlOK
<1> QED
  BY <1>3, <1>4, NothingWithin DEF Tries

\* A step of runner r that neither pushes a cover nor adds a task.
Moves(r) ==
  /\ Advances(r)
  /\ run[r].pc \notin {"idle", "done"} /\ run'[r].pc \notin {"idle", "done"}
  /\ index' \in BOOLEAN /\ (index => index')
  /\ next_edge' \in EdgeIds(hyper_graph) \cup {NoEdge}
  /\ run'[r].pc \in {"offer", "post"} => index'
  /\ run'[r].pc = "scan" => ~Tolerated(Cardinality(run'[r].uncov))
  /\ UNCHANGED <<given, output>>

\* The call is over without a cover.
LEMMA GiveUpAdvances ==
  ASSUME ControlOK, NEW r \in Runners, run[r].pc = "call", Goto(r, "return"),
         ~Tolerated(Cardinality(run[r].uncov)),
         \A e \in run[r].uncov \cap run[r].can_hit :
           hyper_graph[e] \cap run[r].cand = {}
  PROVE  Advances(r) /\ run'[r].pc = "return"
<1>1. GoesOn(r, Tries(run[r]))
  BY CallEnds
<1>2. run'[r].pc = "return"
  BY DEF Goto, ControlOK, TypeOK, Runs
<1> QED
  BY <1>1, <1>2, NothingTried DEF Advances

LEMMA ExpandMoves ==
  ASSUME ControlOK, NEW r \in Runners, Expand(r)
  PROVE  Moves(r) /\ run[r].pc # "post" /\ run'[r].pc # "post"
<1> USE DEF given
<1> DEFINE open == run[r].uncov \cap run[r].can_hit
<1>1. /\ run[r].pc = "call" /\ ~Tolerated(Cardinality(run[r].uncov))
      /\ UNCHANGED <<hyper_graph, theta, method, output>>
      /\ index \in BOOLEAN /\ next_edge \in EdgeIds(hyper_graph) \cup {NoEdge}
  BY DEF Expand, ControlOK, TypeOK
<1>2. CASE open = {}
  <2>1. Goto(r, "return") /\ UNCHANGED <<next_edge, index>>
    BY <1>2 DEF Expand
  <2>2. Advances(r) /\ run'[r].pc = "return"
    BY <1>1, <1>2, <2>1, GiveUpAdvances
  <2> QED
    BY <1>1, <2>1, <2>2 DEF Moves
<1>3. CASE open # {}
  <2>1. Cover(r, Least(open)) /\ next_edge' = Least(open)
    BY <1>3 DEF Expand
  <2>2. Least(open) \in EdgeIds(hyper_graph)
    <3>1. open \subseteq EdgeIds(hyper_graph)
      BY DEF ControlOK, TypeOK, Runs
    <3>2. open \in SUBSET Nat
      BY <3>1, GivenFacts DEF ControlOK
    <3> HIDE DEF open
    <3> QED
      BY <1>3, <3>1, <3>2, LeastProperties
  <2>3. index' \in BOOLEAN
    BY <1>1, <2>1 DEF Cover
  <2>4. /\ Advances(r) /\ run'[r].pc \in {"offer", "loop"}
        /\ (run'[r].pc = "offer" => index') /\ (index => index')
    BY <1>1, <2>1, CoverStep
  <2> QED
    BY <1>1, <2>1, <2>2, <2>3, <2>4 DEF Moves
<1> QED
  BY <1>2, <1>3

LEMMA ReadMoves ==
  ASSUME ControlOK, Indexed, NEW r \in Runners, Read(r)
  PROVE  Moves(r) /\ run[r].pc # "post" /\ run'[r].pc # "post"
<1> USE DEF given
<1>1. /\ run[r].pc = "scan" /\ ~Tolerated(Cardinality(run[r].uncov))
      /\ Cover(r, next_edge)
      /\ UNCHANGED <<hyper_graph, theta, method, output, next_edge>>
      /\ index \in BOOLEAN /\ next_edge \in EdgeIds(hyper_graph) \cup {NoEdge}
  BY DEF Read, ControlOK, TypeOK, Indexed
<1>2. /\ Advances(r) /\ run'[r].pc \in {"offer", "loop"}
      /\ (run'[r].pc = "offer" => index') /\ (index => index')
  BY <1>1, CoverStep
<1>3. index' \in BOOLEAN
  BY <1>1 DEF Cover
<1> QED
  BY <1>1, <1>2, <1>3 DEF Moves

LEMMA StartScanMoves ==
  ASSUME ControlOK, NEW r \in Runners, StartScan(r)
  PROVE  Moves(r) /\ run[r].pc # "post" /\ run'[r].pc # "post"
<1> USE DEF given
<1> DEFINE open == run[r].uncov \cap run[r].can_hit
           written == Written(run[r].cand, open)
           y == [run[r] EXCEPT !.scan = written,
                               !.pc = IF written = {} THEN "return" ELSE "scan"]
<1>1. /\ run[r].pc = "call" /\ ~Tolerated(Cardinality(run[r].uncov))
      /\ method \in {"MIN", "MAX", "PRIORITY"}
      /\ UNCHANGED <<hyper_graph, theta, method, output, next_edge>>
      /\ index \in BOOLEAN /\ next_edge \in EdgeIds(hyper_graph) \cup {NoEdge}
      /\ index' \in BOOLEAN /\ (index => index')
      /\ TypeOK /\ run \in [Runners -> Runs]
  BY DEF StartScan, ControlOK, TypeOK
<1>2. run[r] \in Runs
  BY <1>1
<1>3. open \in SUBSET EdgeIds(hyper_graph)
  BY <1>2 DEF Runs
<1>4. /\ written \subseteq open
      /\ written = {} => \A e \in open : hyper_graph[e] \cap run[r].cand = {}
  <2> HIDE DEF open
  <2> QED
    BY <1>1, <1>3, WrittenProperties
<1>5. run' = [run EXCEPT ![r].scan = written,
                         ![r].pc = IF written = {} THEN "return" ELSE "scan"]
  BY DEF StartScan
<1>6. y \in Runs /\ run' = [run EXCEPT ![r] = y]
  <2> HIDE DEF written
  <2> QED
    BY <1>1, <1>2, <1>3, <1>4, <1>5 DEF Runs
<1>7. /\ y.cur = run[r].cur /\ y.uncov = run[r].uncov /\ y.cand = run[r].cand
      /\ y.crit = run[r].crit /\ y.can_hit = run[r].can_hit
      /\ y.stack = run[r].stack
      /\ y.pc = IF written = {} THEN "return" ELSE "scan"
  <2> HIDE DEF written
  <2> QED
    BY <1>2 DEF Runs
<1> HIDE DEF y
<1>8. run'[r] = y
  BY <1>1, <1>6
<1>9. CASE written # {}
  <2>1. Advances(r)
    <3>1. CallsOf(y) = CallsOf(run[r])
      BY <1>1, <1>7, <1>9 DEF CallsOf, Tries, Calling
    <3> HIDE DEF written
    <3> QED
      BY <1>1, <1>6, <1>7, <1>9, <3>1, SameArguments DEF Calling
  <2> HIDE DEF written
  <2> QED
    BY <1>1, <1>7, <1>8, <1>9, <2>1 DEF Moves
<1>10. CASE written = {}
  <2>1. Advances(r)
    <3>1. RunnerOK(hyper_graph, run[r])
      BY RunnerFacts
    <3>2. /\ Stepped(hyper_graph, run[r].cur, run[r].stack, Tries(run[r]),
                     run[r].cur, run[r].stack, {}, Tries(run[r]))
      BY RunnerFacts, CallDoneStep
    <3>3. CallsOf(run[r]) = Tries(run[r]) /\ CallsOf(y) = {}
      BY <1>1, <1>7, <1>10 DEF CallsOf, Calling
    <3>4. Stepped(hyper_graph, run[r].cur, run[r].stack, CallsOf(run[r]),
                  y.cur, y.stack, CallsOf(y), Tries(run[r]))
      BY <1>7, <3>2, <3>3
    <3>5. EdgeNum(hyper_graph) > 0 =>
            MinimalCovers(hyper_graph, theta) \cap Tries(run[r]) = {}
      BY <1>1, <1>4, <1>10, NothingTried
    <3>6. /\ y.pc = "return" /\ ActivationsOK(hyper_graph, y.cur, y.stack)
          /\ y.uncov = Uncovered(hyper_graph, y.cur)
      BY <1>1, <1>7, <1>10, <3>1 DEF RunnerOK
    <3> QED
      BY <1>6, <3>4, <3>5, <3>6, StepAdvances DEF Calling
  <2> HIDE DEF written
  <2> QED
    BY <1>1, <1>7, <1>8, <1>10, <2>1 DEF Moves
<1> QED
  BY <1>9, <1>10

LEMMA WriteMoves ==
  ASSUME ControlOK, Indexed, NEW r \in Runners, Write(r)
  PROVE  Moves(r) /\ run[r].pc # "post" /\ run'[r].pc # "post"
<1> USE DEF given
<1> DEFINE y == [run[r] EXCEPT !.scan = @ \ {next_edge'}]
<1>1. /\ run[r].pc = "scan" /\ run[r].scan # {}
      /\ next_edge' = Least(run[r].scan)
      /\ run' = [run EXCEPT ![r].scan = @ \ {next_edge'}]
      /\ UNCHANGED <<hyper_graph, theta, method, output, index>>
      /\ index \in BOOLEAN /\ TypeOK /\ run \in [Runners -> Runs] /\ run[r] \in Runs
      /\ ~Tolerated(Cardinality(run[r].uncov))
  BY DEF Write, ControlOK, TypeOK, Indexed
<1>2. next_edge' \in EdgeIds(hyper_graph)
  <2>1. run[r].scan \subseteq EdgeIds(hyper_graph)
    BY <1>1 DEF Runs
  <2>2. run[r].scan \in SUBSET Nat
    BY <1>1, <2>1, GivenFacts
  <2> QED
    BY <1>1, <2>1, <2>2, LeastProperties
<1>3. y \in Runs /\ run' = [run EXCEPT ![r] = y]
  BY <1>1 DEF Runs
<1>4. /\ y.cur = run[r].cur /\ y.uncov = run[r].uncov /\ y.cand = run[r].cand
      /\ y.crit = run[r].crit /\ y.can_hit = run[r].can_hit
      /\ y.stack = run[r].stack /\ y.pc = "scan"
  BY <1>1 DEF Runs
<1> HIDE DEF y
<1>5. run'[r] = y
  BY <1>1, <1>3
<1>6. Advances(r)
  <2>1. CallsOf(y) = CallsOf(run[r])
    BY <1>1, <1>4 DEF CallsOf, Tries
  <2> QED
    BY <1>1, <1>3, <1>4, <2>1, SameArguments
<1> QED
  BY <1>1, <1>2, <1>4, <1>5, <1>6 DEF Moves

LEMMA OfferMoves ==
  ASSUME ControlOK, Indexed, NEW r \in Runners, Offer(r)
  PROVE  Moves(r) /\ run[r].pc # "post" /\ run'[r].pc = "post"
<1> USE DEF given
<1> DEFINE y == [run[r] EXCEPT !.pc = "post"]
<1>1. /\ run[r].pc = "offer" /\ index
      /\ run' = [run EXCEPT ![r].pc = "post"]
      /\ UNCHANGED <<hyper_graph, theta, method, output, index, next_edge>>
      /\ index \in BOOLEAN /\ next_edge \in EdgeIds(hyper_graph) \cup {NoEdge}
      /\ run \in [Runners -> Runs] /\ run[r] \in Runs
  BY DEF Offer, Goto, ControlOK, TypeOK, Indexed
<1>2. y \in Runs /\ run' = [run EXCEPT ![r] = y]
  BY <1>1 DEF Runs
<1>3. /\ y.cur = run[r].cur /\ y.uncov = run[r].uncov /\ y.cand = run[r].cand
      /\ y.crit = run[r].crit /\ y.can_hit = run[r].can_hit
      /\ y.stack = run[r].stack /\ y.pc = "post"
  BY <1>1 DEF Runs
<1> HIDE DEF y
<1>4. run'[r] = y
  BY <1>1, <1>2
<1>5. Advances(r)
  <2>1. CallsOf(y) = CallsOf(run[r])
    BY <1>1, <1>3 DEF CallsOf, Tries, Calling
  <2> QED
    BY <1>1, <1>2, <1>3, <2>1, SameArguments DEF Calling
<1> QED
  BY <1>1, <1>3, <1>4, <1>5 DEF Moves

\* The innermost activation is dropped only when it has no vertex left.
LEMMA RecurseMoves ==
  ASSUME ControlOK, Indexed, NEW r \in Runners, Recurse(r)
  PROVE  Moves(r) /\ run[r].pc # "post" /\ run'[r].pc # "post"
<1> USE DEF given
<1> DEFINE s == run[r].stack
           t == IF active(r).todo = {} THEN Popped(s) ELSE s
           y == [run[r] EXCEPT !.pc = "call", !.stack = t]
<1>1. /\ run[r].pc = "offer" /\ index
      /\ run' = [run EXCEPT ![r].pc = "call",
                   ![r].stack = IF active(r).todo = {} THEN Popped(@) ELSE @]
      /\ UNCHANGED <<hyper_graph, theta, method, output, index, next_edge>>
      /\ index \in BOOLEAN /\ next_edge \in EdgeIds(hyper_graph) \cup {NoEdge}
      /\ run \in [Runners -> Runs] /\ run[r] \in Runs
  BY DEF Recurse, ControlOK, TypeOK, Indexed
<1>2. RunnerOK(hyper_graph, run[r])
  BY RunnerFacts
<1>3. /\ s \in Seq(Frames) /\ s # <<>> /\ Top(s).v = NoVertex
      /\ active(r) = s[Len(s)] /\ NoVertex \notin run[r].cur
      /\ ActivationsOK(hyper_graph, run[r].cur, s)
      /\ \A i \in 1 .. Len(s) : FrameOK(hyper_graph, run[r].cur, s, i)
  BY <1>1, <1>2, RunnerFacts DEF RunnerOK
<1>4. t \in Seq(Frames)
  BY <1>3, PoppedProperties
<1>5. y \in Runs /\ run' = [run EXCEPT ![r] = y]
  <2>1. run' = [run EXCEPT ![r].pc = "call", ![r].stack = t]
    BY <1>1
  <2> HIDE DEF t
  <2> QED
    BY <1>1, <1>4, <2>1 DEF Runs
<1>6. /\ y.cur = run[r].cur /\ y.uncov = run[r].uncov /\ y.cand = run[r].cand
      /\ y.crit = run[r].crit /\ y.can_hit = run[r].can_hit
      /\ y.stack = t /\ y.pc = "call"
  <2> HIDE DEF t
  <2> QED
    BY <1>1 DEF Runs
<1> HIDE DEF y
<1>7. run'[r] = y
  BY <1>1, <1>5
<1>8. CallsOf(y) = CallsOf(run[r])
  BY <1>1, <1>6 DEF CallsOf, Tries, Calling
<1>9. Advances(r)
  <2>1. CASE active(r).todo # {}
    <3>1. t = s
      BY <2>1
    <3> HIDE DEF t
    <3> QED
      BY <1>1, <1>5, <1>6, <1>8, <3>1, SameArguments DEF Calling
  <2>2. CASE active(r).todo = {}
    <3>1. t = Popped(s)
      BY <2>2
    <3> HIDE DEF t, s
    <3>2. active(r).v = NoVertex
      BY <1>3 DEF active, Top, s
    <3> DEFINE lost == Passed(run[r].cur, s, active(r).todo)
    <3>3. lost = {}
      BY <2>2 DEF Passed
    <3> HIDE DEF lost
    <3>4. Stepped(hyper_graph, run[r].cur, s, CallsOf(run[r]), run[r].cur, Popped(s),
                  CallsOf(run[r]), lost)
      <4>1. PICK a : a = active(r)
        OBVIOUS
      <4>2. PICK cur : cur = run[r].cur
        OBVIOUS
      <4>3. PICK calls : calls = CallsOf(run[r])
        OBVIOUS
      <4>4. /\ s \in Seq(Frames) /\ s # <<>> /\ NoVertex \notin cur
            /\ a = s[Len(s)] /\ a.v = NoVertex
            /\ \A i \in 1 .. Len(s) : FrameOK(hyper_graph, cur, s, i)
        BY <1>3, <3>2, <4>1, <4>2
      <4>5. Stepped(hyper_graph, cur, s, calls, cur, Popped(s), calls,
                    Passed(cur, s, a.todo))
        BY ONLY <4>4, PopStep
      <4> QED
        BY <4>1, <4>2, <4>3, <4>5 DEF lost
    <3>5. \A i \in 1 .. Len(t) : FrameOK(hyper_graph, run[r].cur, t, i)
      BY <3>1, <3>4 DEF Stepped
    <3>6. ActivationsOK(hyper_graph, run[r].cur, t)
      BY <1>3, <3>1, <3>2, <3>5, PoppedOK
    <3>7. ArgsOK(hyper_graph, y) /\ y.uncov = Uncovered(hyper_graph, y.cur)
      <4>1. ArgsOK(hyper_graph, run[r])
        BY <1>1, <1>2 DEF RunnerOK, Calling
      <4> QED
        BY <1>6, <4>1 DEF ArgsOK
    <3>8. Stepped(hyper_graph, run[r].cur, run[r].stack, CallsOf(run[r]),
                  y.cur, y.stack, CallsOf(y), lost)
      BY <1>6, <1>8, <3>1, <3>4 DEF s
    <3>9. MinimalCovers(hyper_graph, theta) \cap lost = {}
      BY <3>3
    <3> QED
      BY <1>5, <1>6, <3>6, <3>7, <3>8, <3>9, StepAdvances
  <2> QED
    BY <2>1, <2>2
<1> QED
  BY <1>1, <1>6, <1>7, <1>9 DEF Moves

\* The loop is over: the vertices left would violate.
LEMMA LeaveMoves ==
  ASSUME ControlOK, Indexed, NEW r \in Runners, Leave(r)
  PROVE  Moves(r) /\ run[r].pc # "post" /\ run'[r].pc # "post"
<1> USE DEF given
<1> DEFINE s == run[r].stack
           y == [run[r] EXCEPT !.pc = "return", !.stack = Popped(s)]
<1>1. /\ run[r].pc = "loop"
      /\ \A v \in active(r).todo : VertexWouldViolate(hyper_graph, active(r).crit, v)
      /\ run' = [run EXCEPT ![r].pc = "return", ![r].stack = Popped(@)]
      /\ UNCHANGED <<hyper_graph, theta, method, output, next_edge>>
      /\ index' \in BOOLEAN /\ (index => index')
      /\ index \in BOOLEAN /\ next_edge \in EdgeIds(hyper_graph) \cup {NoEdge}
      /\ run \in [Runners -> Runs] /\ run[r] \in Runs
  BY DEF Leave, ControlOK, TypeOK
<1>2. RunnerOK(hyper_graph, run[r])
  BY RunnerFacts
<1>3. /\ s \in Seq(Frames) /\ s # <<>> /\ Top(s).v = NoVertex
      /\ active(r) = s[Len(s)] /\ NoVertex \notin run[r].cur
      /\ Len(s) \in 1 .. Len(s)
      /\ ActivationsOK(hyper_graph, run[r].cur, s)
      /\ \A i \in 1 .. Len(s) : FrameOK(hyper_graph, run[r].cur, s, i)
  BY <1>1, <1>2, RunnerFacts DEF RunnerOK
<1>4. Popped(s) \in Seq(Frames)
  BY <1>3, PoppedProperties
<1> HIDE DEF s
<1>5. y \in Runs /\ run' = [run EXCEPT ![r] = y]
  <2>1. run' = [run EXCEPT ![r].pc = "return", ![r].stack = Popped(s)]
    BY <1>1 DEF s
  <2> QED
    BY <1>1, <1>4, <2>1 DEF Runs
<1>6. /\ y.cur = run[r].cur /\ y.uncov = run[r].uncov
      /\ y.stack = Popped(s) /\ y.pc = "return"
  BY <1>1 DEF Runs
<1> HIDE DEF y
<1>7. run'[r] = y
  BY <1>1, <1>5
<1>8. CallsOf(y) = {} /\ CallsOf(run[r]) = {}
  BY <1>1, <1>6 DEF CallsOf, Calling
<1>9. Advances(r)
  <2>1. PICK a : a = active(r)
    OBVIOUS
  <2>2. PICK cur : cur = run[r].cur
    OBVIOUS
  <2>3. PICK g : g = hyper_graph
    OBVIOUS
  <2>4. /\ s \in Seq(Frames) /\ s # <<>> /\ NoVertex \notin cur
        /\ a = s[Len(s)] /\ a.v = NoVertex /\ a.todo \in SUBSET a.todo
        /\ \A i \in 1 .. Len(s) : FrameOK(g, cur, s, i)
        /\ FrameOK(g, cur, s, Len(s))
        /\ \A w \in a.todo : VertexWouldViolate(g, a.crit, w)
    BY <1>1, <1>3, <2>1, <2>2, <2>3 DEF Top
  <2> DEFINE lost == Passed(cur, s, a.todo)
  <2>5. Stepped(g, cur, s, {}, cur, Popped(s), {}, lost)
    BY ONLY <2>4, PopStep
  <2>6. MinimalCovers(g, theta) \cap lost = {}
    <3>1. PICK th : th = theta
      OBVIOUS
    <3>2. MinimalCovers(g, th) \cap Passed(cur, s, a.todo) = {}
      BY ONLY <2>4, PassedNotMinimal
    <3> QED
      BY <3>1, <3>2
  <2> HIDE DEF lost
  <2>7. \A i \in 1 .. Len(Popped(s)) : FrameOK(g, cur, Popped(s), i)
    BY <2>5 DEF Stepped
  <2>8. ActivationsOK(g, cur, Popped(s))
    BY <1>3, <2>2, <2>3, <2>4, <2>7, PoppedOK
  <2>9. y.uncov = Uncovered(g, cur)
    BY <1>1, <1>2, <1>6, <2>2, <2>3 DEF RunnerOK
  <2>10. Stepped(hyper_graph, run[r].cur, run[r].stack, CallsOf(run[r]),
                 y.cur, y.stack, CallsOf(y), lost)
    BY <1>6, <1>8, <2>2, <2>3, <2>5 DEF s
  <2> QED
    BY <1>5, <1>6, <2>2, <2>3, <2>6, <2>8, <2>9, <2>10, StepAdvances DEF Calling
<1> QED
  BY <1>1, <1>6, <1>7, <1>9 DEF Moves

\* The call for the vertex v tries the sets that have it, and of the vertices
\* of todo otherwise only candidates; the vertices passed would violate.
LEMMA DescendMoves ==
  ASSUME ControlOK, NEW r \in Runners, Descend(r)
  PROVE  Moves(r) /\ run[r].pc # "post" /\ run'[r].pc # "post"
<1> USE DEF given
<1>1. PICK v \in active(r).todo :
        /\ \A w \in active(r).todo :
             w < v => VertexWouldViolate(hyper_graph, active(r).crit, w)
        /\ run' = [run EXCEPT
             ![r].pc = "call",
             ![r].stack = WithTop(@, [active(r) EXCEPT
               !.todo = {w \in @ : w > v}, !.v = v,
               !.back = NewCrit(hyper_graph, run[r].uncov, v)]),
             ![r].cand = active(r).cand,
             ![r].crit = UpdatedCrit(hyper_graph, active(r).crit, run[r].uncov, v),
             ![r].can_hit = active(r).can_hit,
             ![r].cur = Flip(@, v),
             ![r].uncov = UpdatedUncov(hyper_graph, @, v)]
  BY DEF Descend
<1>2. /\ run[r].pc = "loop"
      /\ UNCHANGED <<hyper_graph, theta, method, output, next_edge>>
      /\ index' = TRUE /\ next_edge \in EdgeIds(hyper_graph) \cup {NoEdge}
      /\ run \in [Runners -> Runs] /\ run[r] \in Runs
  BY DEF Descend, ControlOK, TypeOK
<1>3. RunnerOK(hyper_graph, run[r])
  BY RunnerFacts
<1>4. PICK g : g = hyper_graph
  OBVIOUS
<1>5. PICK x : x = run[r]
  OBVIOUS
<1>6. PICK a : a = active(r)
  OBVIOUS
<1>7. PICK s : s = run[r].stack
  OBVIOUS
<1>8. PICK cur : cur = run[r].cur
  OBVIOUS
<1> DEFINE f == [a EXCEPT !.todo = {w \in @ : w > v}, !.v = v,
                          !.back = NewCrit(g, x.uncov, v)]
           crit == UpdatedCrit(g, a.crit, x.uncov, v)
           cur2 == cur \cup {v}
           y == [x EXCEPT !.pc = "call", !.stack = WithTop(s, f), !.cand = a.cand,
                          !.crit = crit, !.can_hit = a.can_hit, !.cur = cur2,
                          !.uncov = UpdatedUncov(g, x.uncov, v)]
<1>9. /\ s \in Seq(Frames) /\ s # <<>> /\ a.v = NoVertex /\ a = s[Len(s)]
      /\ NoVertex \notin cur /\ cur \subseteq Vertices(g) /\ Len(s) \in 1 .. Len(s)
      /\ ActivationsOK(g, cur, s)
      /\ \A i \in 1 .. Len(s) : FrameOK(g, cur, s, i)
      /\ a \in Frames /\ a.todo \subseteq Nat /\ NoVertex \notin a.todo
      /\ x.uncov = Uncovered(g, cur)
  BY <1>2, <1>3, <1>4, <1>5, <1>6, <1>7, <1>8, RunnerFacts DEF RunnerOK, active
<1>10. /\ v \in a.todo /\ v # NoVertex /\ v \in Vertices(g) /\ v \notin cur
       /\ cur = Left(cur, s, Len(s))
  <2>1. v \in a.todo /\ v # NoVertex /\ v \in Vertices(g)
    BY <1>4, <1>6, <1>9 DEF Frames
  <2>2. Left(cur, s, Len(s) + 1) = cur /\ Left(cur, s, Len(s)) = cur \ {s[Len(s)].v}
    BY <1>9, LeftTop
  <2>3. cur \cap (a.cand \cup a.todo) = {}
    BY <1>9, <2>2 DEF FrameOK
  <2> QED
    BY <1>9, <2>1, <2>2, <2>3
<1>11. /\ f \in Frames /\ f.cand = a.cand /\ f.todo = {w \in a.todo : w > v}
       /\ f.crit = a.crit /\ f.can_hit = a.can_hit /\ f.v = v
       /\ f.back = NewCrit(g, x.uncov, v)
  <2>1. NewCrit(g, x.uncov, v) \subseteq EdgeIds(g)
    BY DEF NewCrit, VertexHitting
  <2> QED
    BY <1>4, <1>9, <1>10, <2>1 DEF Frames
<1>12. WithTop(s, f) \in Seq(Frames)
  <2> HIDE DEF f
  <2> QED
    BY <1>9, <1>11, WithTopProperties
<1>13. crit \in Crits
  <2>1. a.crit \in Seq(SUBSET EdgeIds(g)) /\ x.uncov \in SUBSET EdgeIds(g)
    BY <1>2, <1>4, <1>5, <1>9 DEF Frames, Crits, Runs
  <2>2. UpdatedCrit(g, a.crit, x.uncov, v) \in Seq(SUBSET EdgeIds(g))
    BY <2>1, UpdatedCritProperties
  <2> QED
    BY <1>4, <2>2 DEF Crits
<1>14. Flip(cur, v) = cur2
  BY <1>10 DEF Flip
<1>15. y \in Runs /\ run' = [run EXCEPT ![r] = y]
  <2>1. /\ UpdatedUncov(g, x.uncov, v) \subseteq EdgeIds(hyper_graph)
        /\ cur2 \subseteq Vertices(hyper_graph)
        /\ a.cand \subseteq Vertices(hyper_graph)
        /\ a.can_hit \subseteq EdgeIds(hyper_graph)
        /\ x.scan \subseteq EdgeIds(hyper_graph)
    BY <1>2, <1>4, <1>5, <1>9, <1>10 DEF UpdatedUncov, Runs, Frames
  <2>2. run' = [run EXCEPT
             ![r].pc = "call", ![r].stack = WithTop(s, f), ![r].cand = a.cand,
             ![r].crit = crit, ![r].can_hit = a.can_hit, ![r].cur = cur2,
             ![r].uncov = UpdatedUncov(g, x.uncov, v)]
    <3>1. run' = [run EXCEPT
             ![r].pc = "call", ![r].stack = WithTop(@, f), ![r].cand = a.cand,
             ![r].crit = crit, ![r].can_hit = a.can_hit, ![r].cur = Flip(@, v),
             ![r].uncov = UpdatedUncov(g, @, v)]
      BY <1>1, <1>4, <1>5, <1>6
    <3> HIDE DEF f, crit, cur2
    <3> QED
      BY <1>2, <1>5, <1>7, <1>8, <1>14, <3>1 DEF Runs
  <2> HIDE DEF f, crit, cur2
  <2>3. y \in Runs
    BY <1>2, <1>5, <1>12, <1>13, <2>1 DEF Runs
  <2>4. run' = [run EXCEPT ![r] = y]
    <3>1. PICK stack : stack = WithTop(s, f)
      OBVIOUS
    <3>2. PICK uncov : uncov = UpdatedUncov(g, x.uncov, v)
      OBVIOUS
    <3>3. run' = [run EXCEPT
             ![r].pc = "call", ![r].stack = stack, ![r].cand = a.cand,
             ![r].crit = crit, ![r].can_hit = a.can_hit, ![r].cur = cur2,
             ![r].uncov = uncov]
      BY <2>2, <3>1, <3>2
    <3>4. y = [run[r] EXCEPT !.pc = "call", !.stack = stack, !.cand = a.cand,
                 !.crit = crit, !.can_hit = a.can_hit, !.cur = cur2,
                 !.uncov = uncov]
      BY <1>5, <3>1, <3>2
    <3> HIDE DEF y
    <3>5. run \in [Runners -> Runs] /\ run[r] \in Runs
      BY <1>2
    <3> QED
      BY ONLY <3>3, <3>4, <3>5
  <2> QED
    BY <2>3, <2>4
<1>16. /\ y.pc = "call" /\ y.cur = cur2 /\ y.uncov = UpdatedUncov(g, x.uncov, v)
       /\ y.cand = a.cand /\ y.crit = crit /\ y.can_hit = a.can_hit
       /\ y.stack = WithTop(s, f)
  <2> HIDE DEF f, crit, cur2
  <2> QED
    BY <1>2, <1>5 DEF Runs
<1> DEFINE W == a.todo \ (f.todo \cup {v})
<1>17. Chooses(g, cur, a, v, f, cur2, crit, W)
  <2>1. a.crit \in Seq(SUBSET EdgeIds(g))
    BY <1>4, <1>9 DEF Frames, Crits
  <2>2. f.todo \subseteq a.todo \ {v}
    BY <1>9, <1>10, <1>11
  <2> HIDE DEF f
  <2> QED
    BY <1>9, <1>10, <1>11, <2>1, <2>2 DEF Chooses
<1>18. \A w \in W : w \in a.todo /\ VertexWouldViolate(g, a.crit, w)
  <2> TAKE w \in W
  <2>1. w \in a.todo /\ w # v /\ ~(w > v)
    BY <1>11
  <2>2. w < v
    BY <1>9, <1>10, <2>1
  <2> QED
    BY <1>1, <1>4, <1>6, <2>1, <2>2
<1> HIDE DEF f, y, crit, cur2, W
<1>19. /\ CallReady(g, cur2, a.cand, crit)
       /\ Stepped(g, cur, s, {}, cur2, WithTop(s, f), Within(cur2, a.cand),
                  Passed(cur, s, W))
  <2>1. /\ s \in Seq(Frames) /\ s # <<>> /\ NoVertex \notin cur
        /\ \A i \in 1 .. Len(s) : FrameOK(g, cur, s, i)
        /\ a = s[Len(s)] /\ f \in Frames
    BY <1>9, <1>11
  <2> QED
    BY ONLY <1>17, <2>1, ChooseStep
<1>20. MinimalCovers(g, theta) \cap Passed(cur, s, W) = {}
  <2>1. PICK th : th = theta
    OBVIOUS
  <2>2. /\ s \in Seq(Frames) /\ s # <<>> /\ NoVertex \notin cur
        /\ a = s[Len(s)] /\ a.v = NoVertex /\ FrameOK(g, cur, s, Len(s))
        /\ W \in SUBSET a.todo
        /\ \A w \in W : VertexWouldViolate(g, a.crit, w)
    BY <1>9, <1>18
  <2>3. MinimalCovers(g, th) \cap Passed(cur, s, W) = {}
    BY ONLY <2>2, PassedNotMinimal
  <2> QED
    BY <2>1, <2>3
<1>21. y.uncov = Uncovered(g, cur2)
  BY <1>9, <1>16, UncoveredUpdated DEF cur2
<1>22. ArgsOK(g, y)
  <2>1. GivenUp(g, cur, a)
    BY <1>9, <1>10 DEF ActivationsOK
  <2>2. Uncovered(g, cur2) \subseteq Uncovered(g, cur)
    BY DEF Uncovered, cur2
  <2>3. \A e \in Uncovered(g, cur2) \ a.can_hit : g[e] \cap a.cand = {}
    BY <2>1, <2>2 DEF GivenUp
  <2> QED
    BY <1>16, <1>19, <1>21, <2>3 DEF ArgsOK
<1>23. ActivationsOK(g, cur2, y.stack)
  <2>1. /\ IsHyperGraph(g)
        /\ f.cand \cup f.todo \cup {f.v} \subseteq a.cand \cup a.todo \cup {a.v, NoVertex}
        /\ cur2 \ {f.v} = cur \ {a.v}
    <3>1. IsHyperGraph(g)
      BY <1>4, GivenFacts DEF ControlOK
    <3> QED
      BY <1>9, <1>10, <1>11, <3>1 DEF cur2
  <2>2. \A i \in 1 .. Len(WithTop(s, f)) : FrameOK(g, cur2, WithTop(s, f), i)
    BY <1>19 DEF Stepped
  <2>3. /\ s \in Seq(Frames) /\ s # <<>> /\ ActivationsOK(g, cur, s)
        /\ a = s[Len(s)] /\ f \in Frames /\ f.can_hit = a.can_hit
    BY <1>9, <1>11
  <2>4. ActivationsOK(g, cur2, WithTop(s, f))
    BY ONLY <2>1, <2>2, <2>3, TopChangedOK
  <2> QED
    BY <1>16, <2>4
<1>24. CallsOf(y) = Within(cur2, a.cand) /\ CallsOf(run[r]) = {}
  BY <1>2, <1>16 DEF CallsOf, Tries, Calling
<1>25. Stepped(hyper_graph, run[r].cur, run[r].stack, CallsOf(run[r]),
               y.cur, y.stack, CallsOf(y), Passed(cur, s, W))
  BY <1>4, <1>7, <1>8, <1>16, <1>19, <1>24
<1>26. Advances(r)
  BY <1>4, <1>15, <1>16, <1>20, <1>21, <1>22, <1>23, <1>25, StepAdvances
<1>27. run'[r] = y
  BY <1>2, <1>15
<1> QED
  BY <1>2, <1>16, <1>26, <1>27 DEF Moves

\* The vertex chosen, if any, is taken back: nothing changes in what is ahead.
LEMMA ReturnMoves ==
  ASSUME ControlOK, NEW r \in Runners, Return(r)
  PROVE  Moves(r) /\ run[r].pc # "post" /\ run'[r].pc # "post"
<1> USE DEF given
<1>1. /\ run[r].pc = "return" /\ run[r].stack # <<>>
      /\ run' = [run EXCEPT
          ![r].pc = "loop",
          ![r].cur = IF active(r).v = NoVertex THEN @ ELSE Flip(@, active(r).v),
          ![r].uncov = @ \cup active(r).back,
          ![r].stack = WithTop(@, [active(r) EXCEPT
            !.cand = IF active(r).v = NoVertex THEN @ ELSE @ \cup {active(r).v},
            !.v = NoVertex, !.back = {}])]
      /\ UNCHANGED <<hyper_graph, theta, method, output, next_edge, index>>
      /\ index \in BOOLEAN /\ next_edge \in EdgeIds(hyper_graph) \cup {NoEdge}
      /\ run \in [Runners -> Runs] /\ run[r] \in Runs
  BY DEF Return, ControlOK, TypeOK
<1>2. RunnerOK(hyper_graph, run[r])
  BY RunnerFacts
<1>3. PICK g : g = hyper_graph
  OBVIOUS
<1>4. PICK x : x = run[r]
  OBVIOUS
<1>5. PICK a : a = active(r)
  OBVIOUS
<1>6. PICK s : s = run[r].stack
  OBVIOUS
<1>7. PICK cur : cur = run[r].cur
  OBVIOUS
<1> DEFINE f == [a EXCEPT !.cand = IF a.v = NoVertex THEN @ ELSE @ \cup {a.v},
                          !.v = NoVertex, !.back = {}]
           cur2 == IF a.v = NoVertex THEN cur ELSE Flip(cur, a.v)
           y == [x EXCEPT !.pc = "loop", !.cur = cur2, !.uncov = x.uncov \cup a.back,
                          !.stack = WithTop(s, f)]
<1>8. /\ s \in Seq(Frames) /\ s # <<>> /\ a = s[Len(s)]
      /\ NoVertex \notin cur /\ cur \subseteq Vertices(g) /\ Len(s) \in 1 .. Len(s)
      /\ ActivationsOK(g, cur, s)
      /\ \A i \in 1 .. Len(s) : FrameOK(g, cur, s, i)
      /\ a \in Frames /\ x.uncov = Uncovered(g, cur) /\ IsHyperGraph(g)
  BY <1>1, <1>2, <1>3, <1>4, <1>5, <1>6, <1>7, RunnerFacts, GivenFacts
  DEF RunnerOK, ControlOK
<1>9. /\ f \in Frames /\ f.todo = a.todo /\ f.crit = a.crit
      /\ f.can_hit = a.can_hit /\ f.v = NoVertex /\ f.back = {}
      /\ f.cand = IF a.v = NoVertex THEN a.cand ELSE a.cand \cup {a.v}
  BY <1>3, <1>8 DEF Frames
<1>10. WithTop(s, f) \in Seq(Frames) /\ WithTop(s, f) # <<>> /\ Top(WithTop(s, f)) = f
  <2> HIDE DEF f
  <2>1. /\ s \in Seq(Frames) /\ s # <<>> /\ f \in Frames
    BY <1>8, <1>9
  <2>2. /\ WithTop(s, f) \in Seq(Frames)
        /\ Len(WithTop(s, f)) = Len(s)
        /\ WithTop(s, f)[Len(s)] = f
        /\ \A i \in 1 .. Len(s) - 1 : WithTop(s, f)[i] = s[i]
        /\ WithTop(s, f) # <<>>
    BY ONLY <2>1, WithTopProperties
  <2> QED
    BY ONLY <2>2 DEF Top
<1>11. cur2 \subseteq Vertices(g) /\ x.uncov \cup a.back \subseteq EdgeIds(g)
  <2>1. a.v = NoVertex \/ a.v \in Vertices(g)
    BY <1>3, <1>8 DEF Frames
  <2>2. a.back \subseteq EdgeIds(g)
    BY <1>3, <1>8 DEF Frames
  <2>3. x.uncov \subseteq EdgeIds(g)
    BY <1>8 DEF Uncovered
  <2> QED
    BY <1>8, <2>1, <2>2, <2>3 DEF Flip
<1>12. y \in Runs /\ run' = [run EXCEPT ![r] = y]
  <2>1. run' = [run EXCEPT ![r].pc = "loop", ![r].cur = cur2,
                           ![r].uncov = x.uncov \cup a.back,
                           ![r].stack = WithTop(s, f)]
    BY <1>1, <1>4, <1>5, <1>6, <1>7
  <2> HIDE DEF f, cur2
  <2> QED
    BY <1>1, <1>3, <1>4, <1>10, <1>11, <2>1 DEF Runs
<1>13. /\ y.pc = "loop" /\ y.cur = cur2 /\ y.uncov = x.uncov \cup a.back
       /\ y.stack = WithTop(s, f)
  <2> HIDE DEF f, cur2
  <2> QED
    BY <1>1, <1>4 DEF Runs
<1> HIDE DEF f, y
<1>14. /\ Stepped(g, cur, s, {}, cur2, WithTop(s, f), {}, {})
       /\ y.uncov = Uncovered(g, cur2)
       /\ cur2 \ {f.v} = cur \ {a.v}
  <2>1. CASE a.v = NoVertex
    <3>1. cur2 = cur /\ f.cand = a.cand /\ f.todo = a.todo
      BY <1>9, <2>1
    <3>2. /\ s \in Seq(Frames) /\ s # <<>> /\ NoVertex \notin cur
          /\ a = s[Len(s)] /\ a.v = NoVertex /\ a.todo \in SUBSET a.todo
          /\ f \in Frames /\ f.cand = a.cand /\ f.todo = a.todo /\ f.crit = a.crit
          /\ f.v = NoVertex /\ f.back = {}
          /\ \A i \in 1 .. Len(s) : FrameOK(g, cur, s, i)
      BY <1>8, <1>9, <2>1, <3>1
    <3>3. Stepped(g, cur, s, {}, cur, WithTop(s, f), {},
                  Passed(cur, s, a.todo \ a.todo))
      BY ONLY <3>2, SkipStep
    <3>4. Passed(cur, s, a.todo \ a.todo) = {}
      BY DEF Passed
    <3>5. a.back = {}
      BY <1>8, <2>1 DEF FrameOK
    <3>6. y.uncov = Uncovered(g, cur2)
      BY <1>8, <1>13, <3>1, <3>5
    <3> HIDE DEF cur2
    <3>7. cur2 \ {f.v} = cur \ {a.v}
      BY <2>1, <3>1, <3>2
    <3> QED
      BY <3>1, <3>3, <3>4, <3>6, <3>7
  <2>2. CASE a.v # NoVertex
    <3>1. a.v \in cur
      <4>1. Left(cur, s, Len(s) + 1) = cur
        BY <1>8, LeftTop
      <4> QED
        BY <1>8, <2>2, <4>1 DEF FrameOK
    <3>2. cur2 = cur \ {a.v}
      BY <2>2, <3>1 DEF Flip
    <3>3. /\ s \in Seq(Frames) /\ s # <<>> /\ NoVertex \notin cur
          /\ a = s[Len(s)] /\ a.v # NoVertex
          /\ f \in Frames /\ f.cand = a.cand \cup {a.v} /\ f.todo = a.todo
          /\ f.crit = a.crit /\ f.v = NoVertex /\ f.back = {}
          /\ \A i \in 1 .. Len(s) : FrameOK(g, cur, s, i)
          /\ cur2 = cur \ {a.v}
      BY <1>8, <1>9, <2>2, <3>2
    <3> HIDE DEF cur2
    <3>4. /\ TakenBack(g, cur, a, cur2)
          /\ Stepped(g, cur, s, {}, cur2, WithTop(s, f), {}, {})
      BY ONLY <3>3, TakeBackStep
    <3>5. y.uncov = Uncovered(g, cur2)
      BY <1>8, <1>13, <3>4 DEF TakenBack
    <3>6. cur2 \ {f.v} = cur \ {a.v}
      BY <3>3
    <3> QED
      BY <3>4, <3>5, <3>6
  <2> QED
    BY <2>1, <2>2
<1> HIDE DEF cur2
<1>15. ActivationsOK(g, cur2, y.stack)
  <2>1. f.cand \cup f.todo \cup {f.v} \subseteq a.cand \cup a.todo \cup {a.v, NoVertex}
    BY <1>9
  <2>2. \A i \in 1 .. Len(WithTop(s, f)) : FrameOK(g, cur2, WithTop(s, f), i)
    BY <1>14 DEF Stepped
  <2>3. /\ s \in Seq(Frames) /\ s # <<>> /\ ActivationsOK(g, cur, s) /\ IsHyperGraph(g)
        /\ a = s[Len(s)] /\ f \in Frames /\ f.can_hit = a.can_hit
        /\ cur2 \ {f.v} = cur \ {a.v}
    BY <1>8, <1>9, <1>14
  <2>4. ActivationsOK(g, cur2, WithTop(s, f))
    BY ONLY <2>1, <2>2, <2>3, TopChangedOK
  <2> QED
    BY <1>13, <2>4
<1>16. CallsOf(y) = {} /\ CallsOf(run[r]) = {}
  BY <1>1, <1>13 DEF CallsOf, Calling
<1>17. Stepped(hyper_graph, run[r].cur, run[r].stack, CallsOf(run[r]),
               y.cur, y.stack, CallsOf(y), {})
  BY <1>3, <1>6, <1>7, <1>13, <1>14, <1>16
<1>18. y.stack # <<>> /\ Top(y.stack).v = NoVertex
  BY <1>9, <1>10, <1>13
<1>19. Advances(r)
  <2>1. MinimalCovers(hyper_graph, theta) \cap {} = {}
    OBVIOUS
  <2> QED
  BY <2>1, <1>3, <1>12, <1>13, <1>14, <1>15, <1>17, <1>18, StepAdvances DEF Calling
<1>20. run'[r] = y
  BY <1>1, <1>12
<1> QED
  BY <1>1, <1>13, <1>19, <1>20 DEF Moves

-----------------------------------------------------------------------------
(***************************************************************************)
(* The steps of the system.                                                *)
(***************************************************************************)
LEMMA PoolTypeNext == PoolInv' => Pool!PoolTypeOK'
<1>1. PoolInv => Pool!PoolTypeOK
  BY PoolFacts
<1> QED
  BY <1>1, PTL

\* What depends only on what is given.
LEMMA SameGiven ==
  ASSUME UNCHANGED given
  PROVE  /\ Vertices(hyper_graph)' = Vertices(hyper_graph)
         /\ EdgeIds(hyper_graph)' = EdgeIds(hyper_graph)
         /\ EdgeNum(hyper_graph)' = EdgeNum(hyper_graph)
         /\ Runs' = Runs /\ OwnTasks' = OwnTasks
         /\ MinimalCovers(hyper_graph, theta)' = MinimalCovers(hyper_graph, theta)
<1> USE DEF given
<1>1. /\ hyper_graph' = hyper_graph /\ theta' = theta
      /\ Vertices(hyper_graph)' = Vertices(hyper_graph)
      /\ EdgeIds(hyper_graph)' = EdgeIds(hyper_graph)
  BY DEF Vertices, EdgeIds
<1>2. EdgeNum(hyper_graph)' = EdgeNum(hyper_graph)
  BY <1>1 DEF EdgeNum
<1>3. Crits' = Crits
  BY <1>1 DEF Crits
<1>4. Frames' = Frames
  BY <1>1, <1>3 DEF Frames
<1>5. Runs' = Runs /\ OwnTasks' = OwnTasks
  BY <1>1, <1>3, <1>4 DEF Runs, OwnTasks
<1>6. MinimalCovers(hyper_graph, theta)' = MinimalCovers(hyper_graph, theta)
  BY <1>1 DEF MinimalCovers, IsApproximateCover, Uncovered, EdgeNum, EdgeIds, Vertices
<1> QED
  BY <1>1, <1>2, <1>5, <1>6

\* What each step has to show of the control: the types of what changes, and
\* the runners, the tasks and the pool in order.
LEMMA ControlKept ==
  ASSUME ControlOK, UNCHANGED given,
         next_edge' \in EdgeIds(hyper_graph) \cup {NoEdge}, index' \in BOOLEAN,
         run' \in [Runners -> Runs],
         output' \in Seq(SUBSET Vertices(hyper_graph)),
         PoolInv', \A q \in Runners : RunnerOK(hyper_graph, run'[q]),
         \A i \in 1 .. Len(posted') :
           posted'[i] \in OwnTasks /\ ArgsOK(hyper_graph, posted'[i]),
         Linked'
  PROVE  ControlOK'
<1>1. hyper_graph' = hyper_graph /\ theta' = theta /\ method' = method
  BY DEF given
<1>2. TypeOK'
  BY <1>1, SameGiven, PoolTypeNext DEF ControlOK, TypeOK
<1>3. RunnersOK' /\ TasksOK'
  BY <1>1, SameGiven DEF RunnersOK, TasksOK
<1> QED
  BY <1>2, <1>3 DEF ControlOK

\* A step that pushes nothing: what is left to try is divided anew.
LEMMA SearchKept ==
  ASSUME IInv, UNCHANGED <<given, output>>, NEW lost,
         Divided(run, posted, run', posted', lost)
  PROVE  /\ SearchOK' /\ OutputsOK'
         /\ MinimalCovers(hyper_graph, theta) \cap lost = {} /\ NothingMissed
              => NothingMissed'
<1>1. /\ MinimalCovers(hyper_graph, theta)' = MinimalCovers(hyper_graph, theta)
      /\ output' = output
  BY SameGiven
<1>2. Emitted' = Emitted
  BY <1>1 DEF Emitted
<1>3. /\ Apart(run, posted)' /\ Remaining(run, posted)' \subseteq Remaining(run, posted)
      /\ Remaining(run, posted) \subseteq Remaining(run, posted)' \cup lost
  BY DEF IInv, SearchOK, Divided
<1>4. SearchOK'
  BY <1>2, <1>3 DEF IInv, SearchOK
<1>5. OutputsOK'
  BY <1>1, <1>2 DEF IInv, OutputsOK
<1>6. MinimalCovers(hyper_graph, theta) \cap lost = {} /\ NothingMissed => NothingMissed'
  BY <1>1, <1>2, <1>3 DEF NothingMissed
<1> QED
  BY <1>4, <1>5, <1>6

\* A step that a runner takes on its own, the pool changing at most by the
\* slot it takes.
LEMMA MovesPreserves ==
  ASSUME IInv, NEW r \in Runners, Moves(r), run[r].pc # "post",
         \/ UNCHANGED pool_vars /\ run'[r].pc # "post"
         \/ Pool!Reserve(r) /\ run'[r].pc = "post"
  PROVE  IInv' /\ (EdgeNum(hyper_graph) > 0 /\ NothingMissed => NothingMissed')
<1>1. PICK lost : /\ GoesOn(r, lost)
                  /\ EdgeNum(hyper_graph) > 0 =>
                       MinimalCovers(hyper_graph, theta) \cap lost = {}
  BY DEF Moves, Advances
<1>2. /\ run' \in [Runners -> Runs] /\ \A q \in Runners \ {r} : run'[q] = run[q]
      /\ RunnerOK(hyper_graph, run'[r])
      /\ Region(run'[r]) \subseteq Region(run[r])
      /\ Region(run[r]) \subseteq Region(run'[r]) \cup lost
  BY <1>1 DEF GoesOn
<1>3. /\ UNCHANGED <<posted, running, ended, joined>>
      /\ \/ reserved' = reserved /\ run'[r].pc # "post"
         \/ reserved' = reserved \cup {r} /\ run'[r].pc = "post"
  BY DEF pool_vars, Pool!Reserve
<1>4. PoolInv'
  BY PoolReserve, PoolUnchanged DEF IInv, ControlOK
<1>5. /\ ControlOK /\ UNCHANGED <<given, output>>
      /\ next_edge' \in EdgeIds(hyper_graph) \cup {NoEdge} /\ index' \in BOOLEAN
      /\ (index => index')
      /\ run[r].pc \notin {"idle", "done"} /\ run'[r].pc \notin {"idle", "done"}
      /\ run'[r].pc \in {"offer", "post"} => index'
      /\ run'[r].pc = "scan" => ~Tolerated(Cardinality(run'[r].uncov))
  BY DEF IInv, Moves
<1>6. output' \in Seq(SUBSET Vertices(hyper_graph))
  BY <1>5 DEF ControlOK, TypeOK
<1>7. \A q \in Runners : RunnerOK(hyper_graph, run'[q])
  BY <1>2, <1>5 DEF ControlOK, RunnersOK
<1>8. \A i \in 1 .. Len(posted') :
        posted'[i] \in OwnTasks /\ ArgsOK(hyper_graph, posted'[i])
  BY <1>3, <1>5 DEF ControlOK, TasksOK
<1>9. Linked'
  BY <1>2, <1>3, <1>5 DEF ControlOK, Linked, Runners
<1>10. ControlOK'
  BY <1>2, <1>4, <1>5, <1>6, <1>7, <1>8, <1>9, ControlKept
<1>11. Indexed'
  <2>1. \A n : Tolerated(n)' <=> Tolerated(n)
    BY <1>5, SameGiven DEF Tolerated, given
  <2>2. ASSUME NEW q \in Runners
        PROVE  /\ run'[q].pc \in {"offer", "post"} => index'
               /\ run'[q].pc = "scan" => ~Tolerated(Cardinality(run'[q].uncov))
    <3>1. CASE q = r
      BY <1>5, <3>1
    <3>2. CASE q # r
      BY <1>2, <1>5, <3>2 DEF IInv, Indexed
    <3> QED
      BY <3>1, <3>2
  <2>3. ASSUME NEW q \in Runners
        PROVE  run'[q].pc = "scan" => ~Tolerated(Cardinality(run[q].uncov))'
    BY <2>1, <2>2
  <2> QED
    BY <2>2, <2>3 DEF Indexed
<1>12. IndexBeforeTasks'
  <2>1. \A w \in Threads : run[w].pc = "idle" => run'[w].pc = "idle"
    BY <1>2, <1>5 DEF Runners
  <2> QED
    BY <1>3, <1>5, <2>1 DEF IInv, IndexBeforeTasks
<1>13. Divided(run, posted, run', posted', lost)
  BY <1>2, <1>3, RunnerGoesOn
<1> QED
  BY <1>1, <1>5, <1>10, <1>11, <1>12, <1>13, SearchKept DEF IInv

\* What a runner has finished is left to nobody.
LEMMA FinishedApart ==
  ASSUME NEW rn, NEW rn2, NEW ps, NEW r \in Runners, NEW T, Apart(rn, ps),
         \A q \in Runners \ {r} : rn2[q] = rn[q],
         T \subseteq Region(rn[r]), Region(rn2[r]) \cap T = {}
  PROVE  Remaining(rn2, ps) \cap T = {}
<1>1. ASSUME NEW q \in Runners PROVE Region(rn2[q]) \cap T = {}
  <2>1. CASE q = r
    BY <2>1
  <2>2. CASE q # r
    <3>1. Region(rn2[q]) = Region(rn[q]) /\ Region(rn[q]) \cap Region(rn[r]) = {}
      BY <2>2 DEF Apart
    <3> QED
      BY <3>1
  <2> QED
    BY <2>1, <2>2
<1>2. ASSUME NEW i \in 1 .. Len(ps) PROVE Tries(ps[i]) \cap T = {}
  BY DEF Apart
<1> QED
  BY <1>1, <1>2 DEF Remaining

\* A call that finds few enough edges unhit pushes its cover if no vertex of
\* it can be left out, and no other minimal cover was to be tried by it.
LEMMA FoundPreserves ==
  ASSUME IInv, NEW r \in Runners, Found(r)
  PROVE  IInv' /\ (NothingMissed => NothingMissed')
<1>1. /\ run[r].pc = "call" /\ Goto(r, "return")
      /\ Tolerated(Cardinality(run[r].uncov))
      /\ output' = IF IsMinimal(run[r].crit, run[r].uncov)
                     THEN Append(output, run[r].cur) ELSE output
      /\ UNCHANGED <<given, index, next_edge, pool_vars>>
      /\ ControlOK
  BY DEF Found, IInv
<1> DEFINE x == run[r]
           calls == Tries(x)
<1>2. PICK g : g = hyper_graph
  OBVIOUS
<1>3. PICK th : th = theta
  OBVIOUS
<1>4. PICK cur : cur = run[r].cur
  OBVIOUS
<1>5. /\ GoesOn(r, calls) /\ Region(run'[r]) \cap calls = {}
      /\ calls \subseteq Region(run[r])
  BY <1>1, CallEnds
<1>6. /\ run' \in [Runners -> Runs] /\ \A q \in Runners \ {r} : run'[q] = run[q]
      /\ RunnerOK(hyper_graph, run'[r])
      /\ Region(run'[r]) \subseteq Region(run[r])
      /\ Region(run[r]) \subseteq Region(run'[r]) \cup calls
  BY <1>5 DEF GoesOn
<1>7. run'[r].pc = "return" /\ run[r] \in Runs
  BY <1>1 DEF Goto, ControlOK, TypeOK, Runs
<1>8. posted' = posted /\ PoolInv' /\ output \in Seq(SUBSET Vertices(hyper_graph))
      /\ cur \in SUBSET Vertices(g)
  BY <1>1, <1>2, <1>4, <1>7, PoolUnchanged DEF pool_vars, ControlOK, TypeOK, Runs
<1>9. output' \in Seq(SUBSET Vertices(hyper_graph))
  BY <1>1, <1>2, <1>4, <1>8
<1>10. ControlOK'
  <2>1. /\ next_edge' \in EdgeIds(hyper_graph) \cup {NoEdge} /\ index' \in BOOLEAN
    BY <1>1 DEF ControlOK, TypeOK
  <2>2. \A q \in Runners : RunnerOK(hyper_graph, run'[q])
    BY <1>1, <1>6 DEF ControlOK, RunnersOK
  <2>3. \A i \in 1 .. Len(posted') :
          posted'[i] \in OwnTasks /\ ArgsOK(hyper_graph, posted'[i])
    BY <1>1, <1>8 DEF ControlOK, TasksOK
  <2>4. Linked'
    BY <1>1, <1>6, <1>7 DEF ControlOK, Linked, Runners, pool_vars
  <2> QED
    BY <1>1, <1>6, <1>8, <1>9, <2>1, <2>2, <2>3, <2>4, ControlKept
<1>11. Indexed'
  <2>1. \A n : Tolerated(n)' <=> Tolerated(n)
    BY <1>1, SameGiven DEF Tolerated, given
  <2>2. ASSUME NEW q \in Runners
        PROVE  /\ run'[q].pc \in {"offer", "post"} => index'
               /\ run'[q].pc = "scan" => ~Tolerated(Cardinality(run[q].uncov))'
    BY <1>1, <1>6, <1>7, <2>1 DEF IInv, Indexed
  <2> QED
    BY <2>2 DEF Indexed
<1>12. IndexBeforeTasks'
  <2>1. \A w \in Threads : run[w].pc = "idle" => run'[w].pc = "idle"
    BY <1>1, <1>6 DEF Runners
  <2> QED
    BY <1>1, <1>8, <2>1 DEF IInv, IndexBeforeTasks
<1>13. Apart(run, posted) /\ Remaining(run, posted) \cap Emitted = {}
  BY DEF IInv, SearchOK
<1>14. /\ Apart(run', posted')
       /\ Remaining(run', posted') \subseteq Remaining(run, posted)
       /\ Remaining(run, posted) \subseteq Remaining(run', posted') \cup calls
       /\ Remaining(run', posted') \cap calls = {}
  <2> HIDE DEF calls
  <2>1. Divided(run, posted, run', posted, calls)
    BY <1>6, RunnerGoesOn
  <2>2. Remaining(run', posted) \cap calls = {}
    BY <1>5, <1>6, <1>13, FinishedApart
  <2> QED
    BY <1>8, <1>13, <2>1, <2>2 DEF Divided
<1>15. /\ cur \in calls /\ cur \in Remaining(run, posted)
  <2>1. cur \in calls
    BY <1>4 DEF Tries, Within
  <2>2. cur \in Region(run[r])
    BY <1>5, <2>1
  <2> QED
    BY <2>1, <2>2 DEF Remaining
<1>16. MinimalCovers(hyper_graph, theta)' = MinimalCovers(g, th)
  BY <1>1, <1>2, <1>3, SameGiven
<1>17. /\ IsFiniteSet(EdgeIds(g)) /\ th \in Nat
       /\ x.uncov = Uncovered(g, cur) /\ HoldsCritical(g, cur, x.crit)
       /\ IsApproximateCover(g, th, cur) /\ EdgeNum(g) > 0
  <2>1. IsFiniteSet(EdgeIds(g)) /\ th \in Nat
    BY <1>1, <1>2, <1>3, GivenFacts DEF ControlOK
  <2>2. x.uncov = Uncovered(g, cur) /\ HoldsCritical(g, cur, x.crit)
    BY <1>1, <1>2, <1>4, RunnerFacts DEF RunnerOK, Calling, ArgsOK, CallReady
  <2> QED
    BY <1>1, <1>2, <1>3, <2>1, <2>2 DEF Tolerated, IsApproximateCover
<1>18. cur \in MinimalCovers(g, th) <=> IsMinimal(x.crit, x.uncov)
  <2>1. PICK crit : crit = x.crit
    OBVIOUS
  <2>2. cur \in MinimalCovers(g, th) <=>
           \A k \in 1 .. Len(crit) :
             ~(100 * (Cardinality(Uncovered(g, cur)) + Cardinality(crit[k]))
                 <= th * EdgeNum(g))
    <3>1. HoldsCritical(g, cur, crit)
      BY <1>17, <2>1
    <3> QED
      BY ONLY <1>8, <1>17, <3>1, MinimalByCritical
  <2> QED
    BY <1>2, <1>3, <1>17, <2>1, <2>2 DEF IsMinimal, Tolerated
<1>19. MinimalCovers(g, th) \cap calls \subseteq {cur}
  <2>1. calls = Within(cur, run[r].cand)
    BY <1>4 DEF Tries
  <2> HIDE DEF calls
  <2> QED
    BY <1>17, <2>1, FoundWithin
<1> HIDE DEF x, calls
<1>20. /\ Emitted \subseteq MinimalCovers(g, th) /\ NoneTwice(output)
  BY <1>2, <1>3 DEF IInv, OutputsOK
<1>21. CASE IsMinimal(x.crit, x.uncov)
  <2>1. output' = Append(output, cur)
    BY <1>1, <1>4, <1>21 DEF x
  <2>2. /\ Emitted' = Emitted \cup {cur}
        /\ cur \notin Emitted /\ NoneTwice(output) => NoneTwice(output')
    BY <1>2, <1>8, <2>1, PushedOnce DEF Emitted
  <2>3. cur \notin Emitted
    BY <1>13, <1>15
  <2>4. OutputsOK'
    BY <1>16, <1>18, <1>20, <1>21, <2>2, <2>3 DEF OutputsOK
  <2>5. SearchOK'
    BY <1>13, <1>14, <1>15, <2>2 DEF SearchOK
  <2>6. NothingMissed => NothingMissed'
    BY <1>2, <1>3, <1>14, <1>16, <1>19, <2>2 DEF NothingMissed
  <2> QED
    BY <1>10, <1>11, <1>12, <2>4, <2>5, <2>6 DEF IInv
<1>22. CASE ~IsMinimal(x.crit, x.uncov)
  <2>1. output' = output
    BY <1>1, <1>22 DEF x
  <2>2. Emitted' = Emitted
    BY <2>1 DEF Emitted
  <2>3. OutputsOK'
    BY <1>16, <1>20, <2>1, <2>2 DEF OutputsOK
  <2>4. SearchOK'
    BY <1>13, <1>14, <2>2 DEF SearchOK
  <2>5. NothingMissed => NothingMissed'
    BY <1>2, <1>3, <1>14, <1>16, <1>18, <1>19, <1>22, <2>2 DEF NothingMissed
  <2> QED
    BY <1>10, <1>11, <1>12, <2>3, <2>4, <2>5 DEF IInv
<1> QED
  BY <1>21, <1>22

\* The tasks made for the hypergraph given are tasks the pool is made for.
LEMMA OwnTasksAreTasks == TypeOK => OwnTasks \subseteq Tasks
<1> SUFFICES ASSUME TypeOK, NEW t \in OwnTasks PROVE t \in Tasks
  OBVIOUS
<1>1. /\ Vertices(hyper_graph) \subseteq AnyVertices
      /\ EdgeIds(hyper_graph) \subseteq AnyEdges
  BY DEF TypeOK, AnyVertices, AnyEdges
<1>2. Crits \subseteq Seq(SUBSET AnyEdges)
  <2> SUFFICES ASSUME NEW s \in Crits PROVE s \in Seq(SUBSET AnyEdges)
    OBVIOUS
  <2>1. Len(s) \in Nat /\ s \in [1 .. Len(s) -> SUBSET EdgeIds(hyper_graph)]
    BY LenProperties DEF Crits
  <2>2. SUBSET EdgeIds(hyper_graph) \subseteq SUBSET AnyEdges
    BY <1>1
  <2>3. s \in [1 .. Len(s) -> SUBSET AnyEdges]
    BY ONLY <2>1, <2>2
  <2> QED
    BY <2>1, <2>3, SeqDef
<1> QED
  BY <1>1, <1>2 DEF OwnTasks, Tasks

\* The call becomes a task: the runner goes on with the rest of what it had.
LEMMA PostPreserves ==
  ASSUME IInv, NEW r \in Runners, Post(r)
  PROVE  IInv' /\ (NothingMissed => NothingMissed')
<1> DEFINE t == [cand |-> run[r].cand, crit |-> run[r].crit, cur |-> run[r].cur,
                 uncov |-> run[r].uncov, can_hit |-> run[r].can_hit]
           y == [run[r] EXCEPT !.pc = "loop"]
           n == Len(posted)
<1>1. /\ run[r].pc = "post" /\ Goto(r, "loop") /\ Pool!AddTask(r, t)
      /\ UNCHANGED <<given, index, next_edge, output>> /\ ControlOK
      /\ run \in [Runners -> Runs]
  BY DEF Post, IInv, ControlOK, TypeOK
<1>2. PICK x : x = run[r]
  OBVIOUS
<1>3. /\ x \in Runs /\ RunnerOK(hyper_graph, x) /\ x.pc = "post"
      /\ NoOverlap(x.cur, x.stack, CallsOf(x)) /\ CallsOf(x) = Tries(x)
  BY <1>1, <1>2, RunnerFacts DEF CallsOf, Calling
<1>4. /\ y \in Runs /\ y.pc = "loop" /\ y.cur = x.cur /\ y.uncov = x.uncov
      /\ y.stack = x.stack
  BY <1>2, <1>3 DEF Runs
<1>5. run' = [run EXCEPT ![r] = y]
  BY <1>1 DEF Goto
<1>6. /\ run' \in [Runners -> Runs] /\ run'[r] = y
      /\ \A q \in Runners \ {r} : run'[q] = run[q]
  BY <1>1, <1>4, <1>5
<1>7. t \in OwnTasks /\ t \in Tasks /\ posted \in Seq(Tasks)
  <2>1. t \in OwnTasks
    BY <1>1 DEF Runs, OwnTasks
  <2>2. Pool!PoolTypeOK
    BY <1>1 DEF ControlOK, TypeOK
  <2> QED
    BY <1>1, <2>1, <2>2, OwnTasksAreTasks DEF ControlOK, Pool!PoolTypeOK
<1>8. ArgsOK(hyper_graph, t) /\ Tries(t) = Tries(x)
  BY <1>2, <1>3 DEF RunnerOK, Calling, ArgsOK, Tries
<1>9. /\ posted' = Append(posted, t) /\ reserved' = reserved \ {r}
      /\ UNCHANGED <<running, ended, joined>>
  BY <1>1 DEF Pool!AddTask
<1> HIDE DEF t, y
<1>10. PoolInv'
  BY <1>1, <1>7, PoolAddTask DEF ControlOK
<1>11. /\ NoOverlap(x.cur, x.stack, {})
       /\ Whole(x.cur, x.stack, {}) \cap Tries(x) = {}
       /\ Whole(x.cur, x.stack, Tries(x)) = Whole(x.cur, x.stack, {}) \cup Tries(x)
  <2>1. NoOverlap(x.cur, x.stack, Tries(x))
    BY <1>3
  <2> QED
    BY <2>1, CallDone
<1>12. CallsOf(y) = {}
  BY <1>4 DEF CallsOf, Calling
<1>13. RunnerOK(hyper_graph, y)
  BY <1>3, <1>4, <1>11, <1>12 DEF RunnerOK, Calling
<1>14. Region(x) = Region(y) \cup Tries(t) /\ Region(y) \cap Tries(t) = {}
  BY <1>3, <1>4, <1>8, <1>11, <1>12 DEF Region
<1>15. /\ n \in Nat /\ Len(posted') = n + 1 /\ posted'[n + 1] = t
       /\ \A i \in 1 .. n : posted'[i] = posted[i]
  BY <1>7, <1>9, PushProperties
<1>16. ControlOK'
  <2>1. /\ next_edge' \in EdgeIds(hyper_graph) \cup {NoEdge} /\ index' \in BOOLEAN
        /\ output' \in Seq(SUBSET Vertices(hyper_graph))
    BY <1>1 DEF ControlOK, TypeOK
  <2>2. \A q \in Runners : RunnerOK(hyper_graph, run'[q])
    BY <1>1, <1>6, <1>13 DEF ControlOK, RunnersOK
  <2>3. ASSUME NEW i \in 1 .. Len(posted')
        PROVE  posted'[i] \in OwnTasks /\ ArgsOK(hyper_graph, posted'[i])
    <3>1. CASE i \in 1 .. n
      BY <1>1, <1>15, <3>1 DEF ControlOK, TasksOK
    <3>2. CASE i = n + 1
      BY <1>7, <1>8, <1>15, <3>2
    <3> QED
      BY <1>15, <3>1, <3>2
  <2>4. Linked'
    BY <1>1, <1>4, <1>6, <1>9 DEF ControlOK, Linked, Runners
  <2> QED
    BY <1>1, <1>6, <1>10, <2>1, <2>2, <2>3, <2>4, ControlKept
<1>17. Indexed'
  <2>1. \A k : Tolerated(k)' <=> Tolerated(k)
    BY <1>1, SameGiven DEF Tolerated, given
  <2>2. ASSUME NEW q \in Runners
        PROVE  /\ run'[q].pc \in {"offer", "post"} => index'
               /\ run'[q].pc = "scan" => ~Tolerated(Cardinality(run[q].uncov))'
    BY <1>1, <1>4, <1>6, <2>1 DEF IInv, Indexed
  <2> QED
    BY <2>2 DEF Indexed
<1>18. IndexBeforeTasks'
  BY <1>1 DEF IInv, Indexed, IndexBeforeTasks
<1>19. Divided(run, posted, run', posted', {})
  <2>1. /\ Region(run[r]) = Region(run'[r]) \cup Tries(t)
        /\ Region(run'[r]) \cap Tries(t) = {}
    BY <1>2, <1>6, <1>14
  <2> QED
    BY <1>6, <1>7, <1>9, <2>1, TaskPosted
<1> QED
  BY <1>1, <1>16, <1>17, <1>18, <1>19, SearchKept DEF IInv

\* What a runner with no activation has to try.
LEMMA NoActivation ==
  ASSUME NEW x, x.stack = <<>>
  PROVE  /\ Region(x) = CallsOf(x)
         /\ NoOverlap(x.cur, x.stack, CallsOf(x))
         /\ \A g : ActivationsOK(g, x.cur, x.stack)
<1>1. Len(x.stack) = 0 /\ 1 .. Len(x.stack) = {}
  OBVIOUS
<1> QED
  BY <1>1 DEF Region, Whole, NoOverlap, ActivationsOK

\* A pool thread takes a task, and what it was to try.
LEMMA RunTaskPreserves ==
  ASSUME IInv, NEW w \in Threads, NEW i \in 1 .. Len(posted), RunTask(w, i)
  PROVE  IInv' /\ (NothingMissed => NothingMissed')
<1> DEFINE t == posted[i]
           y == Called(t)
           n == Len(posted)
<1>1. /\ Pool!RunTask(w, i) /\ run' = [run EXCEPT ![w] = y]
      /\ UNCHANGED <<given, index, next_edge, output>> /\ ControlOK
      /\ run \in [Runners -> Runs] /\ w \in Runners
  BY DEF RunTask, IInv, ControlOK, TypeOK, Runners
<1>2. /\ posted' = SubSeq(posted, 1, i - 1) \o SubSeq(posted, i + 1, Len(posted))
      /\ running[w] = NoTask /\ running' = [running EXCEPT ![w] = posted[i]]
      /\ UNCHANGED <<reserved, ended, joined>>
  BY <1>1 DEF Pool!RunTask
<1>3. /\ posted \in Seq(Tasks) /\ w \notin ended
      /\ running \in [Threads -> Tasks \cup {NoTask}]
  BY <1>1, <1>2 DEF ControlOK, TypeOK, Pool!PoolTypeOK
<1>4. t \in OwnTasks /\ t \in Tasks /\ ArgsOK(hyper_graph, t)
  BY <1>1, OwnTasksAreTasks DEF ControlOK, TasksOK
<1>5. /\ y.pc = "call" /\ y.cur = t.cur /\ y.uncov = t.uncov /\ y.cand = t.cand
      /\ y.crit = t.crit /\ y.can_hit = t.can_hit /\ y.stack = <<>> /\ y \in Runs
  BY <1>4 DEF Called, Runs, OwnTasks, Crits
<1>6. run[w].pc = "idle" /\ run[w].stack = <<>>
  BY <1>1, <1>2, RunnerFacts DEF ControlOK, Linked, RunnerOK
<1> HIDE DEF y
<1>7. /\ run' \in [Runners -> Runs] /\ run'[w] = y
      /\ \A q \in Runners \ {w} : run'[q] = run[q]
  BY <1>1, <1>5
<1>8. Region(run[w]) = {} /\ Region(run'[w]) = Tries(t)
  <2>1. CallsOf(run[w]) = {} /\ CallsOf(y) = Tries(t)
    BY <1>5, <1>6 DEF CallsOf, Calling, Tries
  <2> QED
    BY <1>5, <1>6, <1>7, <2>1, NoActivation
<1>9. RunnerOK(hyper_graph, y)
  BY <1>4, <1>5, NoActivation DEF RunnerOK, Calling, ArgsOK, CallReady
<1>10. PoolInv'
  BY <1>1, PoolRunTask DEF ControlOK
<1>11. /\ n \in Nat /\ Len(posted') = n - 1
       /\ \A k \in 1 .. n - 1 :
            posted'[k] = IF k < i THEN posted[k] ELSE posted[k + 1]
  <2>1. posted \in Seq(Tasks) /\ i \in 1 .. Len(posted)
    BY <1>3
  <2>2. PICK s : s = posted'
    OBVIOUS
  <2>3. s = SubSeq(posted, 1, i - 1) \o SubSeq(posted, i + 1, Len(posted))
    BY <1>2, <2>2
  <2>4. /\ Len(posted) \in Nat /\ Len(s) = Len(posted) - 1
        /\ \A k \in 1 .. Len(posted) - 1 :
             s[k] = IF k < i THEN posted[k] ELSE posted[k + 1]
    BY ONLY <2>1, <2>3, WithoutOne
  <2> QED
    BY <2>2, <2>4
<1>12. ControlOK'
  <2>1. /\ next_edge' \in EdgeIds(hyper_graph) \cup {NoEdge} /\ index' \in BOOLEAN
        /\ output' \in Seq(SUBSET Vertices(hyper_graph))
    BY <1>1 DEF ControlOK, TypeOK
  <2>2. \A q \in Runners : RunnerOK(hyper_graph, run'[q])
    BY <1>1, <1>7, <1>9 DEF ControlOK, RunnersOK
  <2>3. ASSUME NEW k \in 1 .. Len(posted')
        PROVE  posted'[k] \in OwnTasks /\ ArgsOK(hyper_graph, posted'[k])
    <3>1. /\ k \in 1 .. n /\ k + 1 \in 1 .. n
          /\ posted'[k] = posted[k] \/ posted'[k] = posted[k + 1]
      BY <1>11
    <3> QED
      BY <1>1, <3>1 DEF ControlOK, TasksOK
  <2>4. Linked'
    <3>1. /\ reserved' = {r \in Runners : run'[r].pc = "post"}
          /\ \A v \in Threads : run'[v].pc # "done"
          /\ run'[Main].pc # "idle"
          /\ joined' <=> run'[Main].pc = "done"
      BY <1>1, <1>2, <1>5, <1>6, <1>7, RunnersAssumption DEF ControlOK, Linked, Runners
    <3>2. ASSUME NEW v \in Threads
          PROVE  run'[v].pc = "idle" <=> running'[v] = NoTask \/ v \in ended'
      <4>1. CASE v = w
        BY <1>2, <1>3, <1>4, <1>5, <1>7, <4>1, NoTaskAssumption
      <4>2. CASE v # w
        BY <1>1, <1>2, <1>3, <1>7, <4>2 DEF ControlOK, Linked, Runners
      <4> QED
        BY <4>1, <4>2
    <3> QED
      BY <3>1, <3>2 DEF Linked
  <2> QED
    BY <1>1, <1>7, <1>10, <2>1, <2>2, <2>3, <2>4, ControlKept
<1>13. Indexed'
  <2>1. \A k : Tolerated(k)' <=> Tolerated(k)
    BY <1>1, SameGiven DEF Tolerated, given
  <2>2. ASSUME NEW q \in Runners
        PROVE  /\ run'[q].pc \in {"offer", "post"} => index'
               /\ run'[q].pc = "scan" => ~Tolerated(Cardinality(run[q].uncov))'
    BY <1>1, <1>5, <1>7, <2>1 DEF IInv, Indexed
  <2> QED
    BY <2>2 DEF Indexed
<1>14. IndexBeforeTasks'
  <2>1. posted # <<>>
    BY <1>11
  <2> QED
    BY <1>1, <2>1 DEF IInv, IndexBeforeTasks
<1>15. Divided(run, posted, run', posted', {})
  <2>1. PICK ps : ps = posted'
    OBVIOUS
  <2>2. /\ posted \in Seq(Tasks) /\ i \in 1 .. Len(posted) /\ w \in Runners
        /\ ps = SubSeq(posted, 1, i - 1) \o SubSeq(posted, i + 1, Len(posted))
        /\ \A q \in Runners \ {w} : run'[q] = run[q]
        /\ Region(run[w]) = {} /\ Region(run'[w]) = Tries(posted[i])
    BY <1>1, <1>2, <1>3, <1>7, <1>8, <2>1
  <2>3. Divided(run, posted, run', ps, {})
    BY ONLY <2>2, TaskStarted
  <2> QED
    BY <2>1, <2>3
<1>16. SearchOK' /\ OutputsOK' /\ (NothingMissed => NothingMissed')
  <2>1. MinimalCovers(hyper_graph, theta) \cap {} = {}
    OBVIOUS
  <2> QED
    BY <1>1, <1>15, <2>1, SearchKept
<1> QED
  BY <1>12, <1>13, <1>14, <1>16 DEF IInv

\* A step that leaves everybody with what they had to try.
LEMMA RestPreserves ==
  ASSUME IInv, UNCHANGED <<given, index, next_edge, output, posted>>,
         PoolInv', Linked', run' \in [Runners -> Runs], NEW r \in Runners,
         \A q \in Runners \ {r} : run'[q] = run[q],
         RunnerOK(hyper_graph, run'[r]), Region(run'[r]) = Region(run[r]),
         run'[r] = run[r] \/ run'[r].pc \in {"idle", "done"},
         \A w \in Threads : run[w].pc = "idle" => run'[w].pc = "idle"
  PROVE  IInv' /\ (NothingMissed => NothingMissed')
<1>1. ControlOK'
  <2>1. /\ next_edge' \in EdgeIds(hyper_graph) \cup {NoEdge} /\ index' \in BOOLEAN
        /\ output' \in Seq(SUBSET Vertices(hyper_graph))
    BY DEF IInv, ControlOK, TypeOK
  <2>2. \A q \in Runners : RunnerOK(hyper_graph, run'[q])
    BY DEF IInv, ControlOK, RunnersOK
  <2>3. \A i \in 1 .. Len(posted') :
          posted'[i] \in OwnTasks /\ ArgsOK(hyper_graph, posted'[i])
    BY DEF IInv, ControlOK, TasksOK
  <2> QED
    BY <2>1, <2>2, <2>3, ControlKept DEF IInv
<1>2. Indexed'
  <2>1. \A n : Tolerated(n)' <=> Tolerated(n)
    BY SameGiven DEF Tolerated, given
  <2>2. ASSUME NEW q \in Runners
        PROVE  /\ run'[q].pc \in {"offer", "post"} => index'
               /\ run'[q].pc = "scan" => ~Tolerated(Cardinality(run[q].uncov))'
    BY <2>1 DEF IInv, Indexed
  <2> QED
    BY <2>2 DEF Indexed
<1>3. IndexBeforeTasks'
  BY DEF IInv, IndexBeforeTasks
<1>4. Divided(run, posted, run', posted', {})
  <2>1. Divided(run, posted, run', posted, {})
    BY RunnerGoesOn
  <2> QED
    BY <2>1
<1>5. SearchOK' /\ OutputsOK' /\ (NothingMissed => NothingMissed')
  <2>1. MinimalCovers(hyper_graph, theta) \cap {} = {}
    OBVIOUS
  <2> QED
    BY <1>4, <2>1, SearchKept
<1> QED
  BY <1>1, <1>2, <1>3, <1>5 DEF IInv

\* A task is over.
LEMMA TaskEndPreserves ==
  ASSUME IInv, NEW w \in Threads, TaskEnd(w)
  PROVE  IInv' /\ (NothingMissed => NothingMissed')
<1>1. /\ run[w].pc = "return" /\ run[w].stack = <<>>
      /\ Pool!TaskEnd(w) /\ run' = [run EXCEPT ![w] = Idle]
      /\ UNCHANGED <<given, index, next_edge, output>> /\ ControlOK
      /\ run \in [Runners -> Runs] /\ w \in Runners
  BY DEF TaskEnd, IInv, ControlOK, TypeOK, Runners
<1>2. /\ ended' = ended \cup {w} /\ UNCHANGED <<reserved, posted, running, joined>>
  BY <1>1 DEF Pool!TaskEnd
<1>3. PoolInv'
  BY <1>1, PoolThreadFree DEF ControlOK
<1>4. Idle \in Runs /\ Idle.pc = "idle" /\ Idle.stack = <<>>
  BY DEF Idle, Runs, Crits
<1>5. /\ run' \in [Runners -> Runs] /\ run'[w] = Idle
      /\ \A q \in Runners \ {w} : run'[q] = run[q]
  BY <1>1, <1>4
<1>6. Linked'
  BY <1>1, <1>2, <1>4, <1>5, RunnersAssumption DEF ControlOK, Linked, Runners
<1>7. CallsOf(run[w]) = {} /\ CallsOf(run'[w]) = {}
  BY <1>1, <1>4, <1>5 DEF CallsOf, Calling
<1>8. Region(run'[w]) = Region(run[w])
  BY <1>1, <1>4, <1>5, <1>7, NoActivation
<1>9. RunnerOK(hyper_graph, run'[w])
  BY <1>4, <1>5, NoActivation DEF RunnerOK, Calling
<1>10. \A v \in Threads : run[v].pc = "idle" => run'[v].pc = "idle"
  BY <1>4, <1>5 DEF Runners
<1> QED
  BY <1>1, <1>2, <1>3, <1>4, <1>5, <1>6, <1>8, <1>9, <1>10, RestPreserves

\* Nobody is left with anything to try when the main thread has waited.
LEMMA WaitPreserves ==
  ASSUME IInv, Wait
  PROVE  IInv' /\ (NothingMissed => NothingMissed')
<1>1. /\ run[Main].pc = "return" /\ run[Main].stack = <<>>
      /\ Pool!Wait /\ Goto(Main, "done")
      /\ UNCHANGED <<given, index, next_edge, output>> /\ ControlOK
      /\ run \in [Runners -> Runs] /\ Main \in Runners
      /\ run[Main] \in Runs
  BY DEF Wait, IInv, ControlOK, TypeOK, Runners
<1> DEFINE y == [run[Main] EXCEPT !.pc = "done"]
<1>2. joined' = TRUE /\ UNCHANGED <<task_num, reserved, posted, running, ended>>
  BY <1>1 DEF Pool!Wait
<1>3. PoolInv'
  BY <1>1, PoolWait DEF ControlOK
<1>4. /\ y \in Runs /\ y.pc = "done" /\ y.stack = <<>> /\ y.cur = run[Main].cur
      /\ y.uncov = run[Main].uncov /\ run' = [run EXCEPT ![Main] = y]
  BY <1>1 DEF Runs, Goto
<1> HIDE DEF y
<1>5. /\ run' \in [Runners -> Runs] /\ run'[Main] = y
      /\ \A q \in Runners \ {Main} : run'[q] = run[q]
  BY <1>1, <1>4
<1>6. Linked'
  BY <1>1, <1>2, <1>4, <1>5, RunnersAssumption DEF ControlOK, Linked, Runners
<1>7. CallsOf(run[Main]) = {} /\ CallsOf(y) = {}
  BY <1>1, <1>4 DEF CallsOf, Calling
<1>8. Region(run'[Main]) = Region(run[Main])
  BY <1>1, <1>4, <1>5, <1>7, NoActivation
<1>9. RunnerOK(hyper_graph, run'[Main])
  <2>1. y.uncov = Uncovered(hyper_graph, y.cur)
    BY <1>1, <1>4, RunnerFacts DEF RunnerOK
  <2> QED
    BY <1>4, <1>5, <2>1, NoActivation DEF RunnerOK, Calling
<1>10. \A v \in Threads : run[v].pc = "idle" => run'[v].pc = "idle"
  BY <1>5, RunnersAssumption DEF Runners
<1> QED
  BY <1>1, <1>2, <1>3, <1>4, <1>5, <1>6, <1>8, <1>9, <1>10, RestPreserves

\* A pool thread returns to asio, or nothing happens.
LEMMA RunUnchangedPreserves ==
  ASSUME IInv, (\E w \in Threads : TaskReturn(w)) \/ UNCHANGED vars
  PROVE  IInv' /\ (NothingMissed => NothingMissed')
<1>1. /\ UNCHANGED <<given, index, next_edge, run, output>> /\ ControlOK
      /\ run \in [Runners -> Runs] /\ Main \in Runners
  BY DEF TaskReturn, vars, IInv, ControlOK, TypeOK, Runners
<1>2. run' \in [Runners -> Runs]
  BY <1>1, SameGiven
<1>3. PoolInv' /\ Linked' /\ posted' = posted
  <2>1. CASE \E w \in Threads : TaskReturn(w)
    <3>1. PICK w \in Threads : Pool!TaskReturn(w)
      BY <2>1 DEF TaskReturn
    <3>2. PoolInv'
      BY <1>1, <3>1, PoolThreadFree DEF ControlOK
    <3>3. /\ w \in ended /\ running' = [running EXCEPT ![w] = NoTask]
          /\ ended' = ended \ {w} /\ UNCHANGED <<task_num, reserved, posted, joined>>
      BY <3>1 DEF Pool!TaskReturn
    <3>4. running \in [Threads -> Tasks \cup {NoTask}]
      BY <1>1 DEF ControlOK, TypeOK, Pool!PoolTypeOK
    <3>5. Linked'
      BY <1>1, <3>3, <3>4 DEF ControlOK, Linked
    <3> QED
      BY <3>2, <3>3, <3>5
  <2>2. CASE UNCHANGED vars
    <3>1. UNCHANGED pool_vars
      BY <2>2 DEF vars
    <3>2. PoolInv'
      BY <1>1, <3>1, PoolUnchanged DEF ControlOK
    <3>3. Linked' /\ posted' = posted
      BY <1>1, <3>1 DEF ControlOK, Linked, pool_vars
    <3> QED
      BY <3>2, <3>3
  <2> QED
    BY <2>1, <2>2
<1>4. RunnerOK(hyper_graph, run'[Main])
  BY <1>1, RunnerFacts
<1> QED
  BY <1>1, <1>2, <1>3, <1>4, RestPreserves

-----------------------------------------------------------------------------
\* The main thread starts with all there is to try.
LEMMA InitEstablishes == Init => IInv /\ NothingMissed
<1> SUFFICES ASSUME Init PROVE IInv /\ NothingMissed
  OBVIOUS
<1> DEFINE g == hyper_graph
           x == Called([cand |-> Vertices(g), crit |-> <<>>, cur |-> {},
                        uncov |-> EdgeIds(g), can_hit |-> EdgeIds(g)])
<1>1. /\ g \in HyperGraphs /\ theta \in Thetas /\ method \in Methods
      /\ next_edge = NoEdge /\ index = FALSE /\ output = <<>> /\ Pool!PoolInit
      /\ run = [r \in Runners |-> IF r # Main THEN Idle ELSE x]
  BY DEF Init
<1>2. /\ x.pc = "call" /\ x.cur = {} /\ x.uncov = EdgeIds(g) /\ x.cand = Vertices(g)
      /\ x.crit = <<>> /\ x.can_hit = EdgeIds(g) /\ x.stack = <<>> /\ x \in Runs
  BY DEF Called, Runs, Crits
<1>3. Idle \in Runs /\ Idle.pc = "idle" /\ Idle.stack = <<>>
  BY DEF Idle, Runs, Crits
<1> HIDE DEF x
<1>4. /\ run \in [Runners -> Runs] /\ Main \in Runners /\ run[Main] = x
      /\ \A w \in Threads : w \in Runners /\ w # Main /\ run[w] = Idle
      /\ \A r \in Runners : r = Main \/ r \in Threads
  BY <1>1, <1>2, <1>3, RunnersAssumption DEF Runners
<1>5. /\ posted = <<>> /\ Len(posted) = 0 /\ 1 .. Len(posted) = {} /\ reserved = {}
      /\ running = [w \in Threads |-> NoTask] /\ ended = {} /\ joined = FALSE
  BY <1>1 DEF Pool!PoolInit
<1>6. PoolInv /\ Pool!PoolTypeOK
  BY <1>1, PoolInitially, PoolFacts
<1>7. TypeOK
  <2>1. <<>> \in Seq(SUBSET Vertices(hyper_graph)) /\ FALSE \in BOOLEAN
    OBVIOUS
  <2> QED
    BY <1>1, <1>4, <1>6, <2>1 DEF TypeOK
<1>8. EdgeIds(g) = Uncovered(g, {})
  BY DEF Uncovered
<1>9. RunnerOK(g, x)
  <2>1. ArgsOK(g, x)
    <3>1. HoldsCritical(g, {}, x.crit)
      BY <1>2 DEF HoldsCritical
    <3> QED
      BY <1>2, <1>8, <3>1 DEF ArgsOK, CallReady
  <2> QED
    BY <1>2, <1>8, <2>1, NoActivation DEF RunnerOK
<1>10. RunnerOK(g, Idle)
  BY <1>3, NoActivation DEF RunnerOK, Calling
<1>11. RunnersOK
  BY <1>4, <1>9, <1>10 DEF RunnersOK
<1>12. TasksOK
  BY <1>5 DEF TasksOK
<1>13. Linked
  BY <1>2, <1>3, <1>4, <1>5 DEF Linked
<1>14. ControlOK
  BY <1>6, <1>7, <1>11, <1>12, <1>13 DEF ControlOK
<1>15. Indexed
  BY <1>2, <1>3, <1>4 DEF Indexed
<1>16. IndexBeforeTasks
  BY <1>3, <1>4, <1>5 DEF IndexBeforeTasks
<1>17. Region(x) = SUBSET Vertices(g) /\ Region(Idle) = {}
  <2>1. CallsOf(x) = SUBSET Vertices(g) /\ CallsOf(Idle) = {}
    BY <1>2, <1>3 DEF CallsOf, Calling, Tries, Within
  <2> QED
    BY <1>2, <1>3, <2>1, NoActivation
<1>18. Apart(run, posted)
  <2>1. \A r, q \in Runners : r # q => Region(run[r]) \cap Region(run[q]) = {}
    BY <1>4, <1>17
  <2> QED
    BY <1>5, <2>1 DEF Apart
<1>19. Emitted = {} /\ NoneTwice(output)
  BY <1>1 DEF Emitted, Elements, NoneTwice
<1>20. NothingMissed
  <2>1. MinimalCovers(g, theta) \subseteq Region(run[Main])
    BY <1>4, <1>17 DEF MinimalCovers
  <2> QED
    BY <1>4, <2>1 DEF NothingMissed, Remaining
<1> QED
  BY <1>14, <1>15, <1>16, <1>18, <1>19, <1>20 DEF IInv, SearchOK, OutputsOK

\* One step of a runner of the algorithm.
LEMMA AlgorithmPreserves ==
  ASSUME IInv, NEW r \in Runners, Algorithm(r)
  PROVE  IInv' /\ (EdgeNum(hyper_graph) > 0 /\ NothingMissed => NothingMissed')
<1>1. ControlOK
  BY DEF IInv
<1>2. CASE Found(r)
  BY <1>2, FoundPreserves
<1>3. CASE Expand(r)
  <2>1. UNCHANGED pool_vars
    BY <1>3 DEF Expand
  <2>2. Moves(r) /\ run[r].pc # "post" /\ run'[r].pc # "post"
    BY <1>1, <1>3, ExpandMoves
  <2> QED
    BY <2>1, <2>2, MovesPreserves
<1>4. CASE StartScan(r)
  <2>1. UNCHANGED pool_vars
    BY <1>4 DEF StartScan
  <2>2. Moves(r) /\ run[r].pc # "post" /\ run'[r].pc # "post"
    BY <1>1, <1>4, StartScanMoves
  <2> QED
    BY <2>1, <2>2, MovesPreserves
<1>5. CASE Write(r)
  <2>1. UNCHANGED pool_vars
    BY <1>5 DEF Write
  <2>2. Moves(r) /\ run[r].pc # "post" /\ run'[r].pc # "post"
    BY <1>1, <1>5, WriteMoves DEF IInv
  <2> QED
    BY <2>1, <2>2, MovesPreserves
<1>6. CASE Read(r)
  <2>1. UNCHANGED pool_vars
    BY <1>6 DEF Read
  <2>2. Moves(r) /\ run[r].pc # "post" /\ run'[r].pc # "post"
    BY <1>1, <1>6, ReadMoves DEF IInv
  <2> QED
    BY <2>1, <2>2, MovesPreserves
<1>7. CASE Offer(r)
  <2>1. Pool!Reserve(r)
    BY <1>7 DEF Offer
  <2>2. Moves(r) /\ run[r].pc # "post" /\ run'[r].pc = "post"
    BY <1>1, <1>7, OfferMoves DEF IInv
  <2> QED
    BY <2>1, <2>2, MovesPreserves
<1>8. CASE Post(r)
  BY <1>8, PostPreserves
<1>9. CASE Recurse(r)
  <2>1. UNCHANGED pool_vars
    BY <1>9 DEF Recurse
  <2>2. Moves(r) /\ run[r].pc # "post" /\ run'[r].pc # "post"
    BY <1>1, <1>9, RecurseMoves DEF IInv
  <2> QED
    BY <2>1, <2>2, MovesPreserves
<1>10. CASE Descend(r)
  <2>1. UNCHANGED pool_vars
    BY <1>10 DEF Descend
  <2>2. Moves(r) /\ run[r].pc # "post" /\ run'[r].pc # "post"
    BY <1>1, <1>10, DescendMoves
  <2> QED
    BY <2>1, <2>2, MovesPreserves
<1>11. CASE Leave(r)
  <2>1. UNCHANGED pool_vars
    BY <1>11 DEF Leave
  <2>2. Moves(r) /\ run[r].pc # "post" /\ run'[r].pc # "post"
    BY <1>1, <1>11, LeaveMoves DEF IInv
  <2> QED
    BY <2>1, <2>2, MovesPreserves
<1>12. CASE Return(r)
  <2>1. UNCHANGED pool_vars
    BY <1>12 DEF Return
  <2>2. Moves(r) /\ run[r].pc # "post" /\ run'[r].pc # "post"
    BY <1>1, <1>12, ReturnMoves
  <2> QED
    BY <2>1, <2>2, MovesPreserves
<1> QED
  BY <1>2, <1>3, <1>4, <1>5, <1>6, <1>7, <1>8, <1>9, <1>10, <1>11, <1>12
  DEF Algorithm

LEMMA InvNext ==
  IInv /\ [Next]_vars
    => IInv' /\ (EdgeNum(hyper_graph) > 0 /\ NothingMissed => NothingMissed')
<1> SUFFICES ASSUME IInv, [Next]_vars
             PROVE  /\ IInv'
                    /\ EdgeNum(hyper_graph) > 0 /\ NothingMissed => NothingMissed'
  OBVIOUS
<1>1. CASE \E r \in Runners : Algorithm(r)
  BY <1>1, AlgorithmPreserves
<1>2. CASE \E w \in Threads : \E i \in 1 .. Len(posted) : RunTask(w, i)
  BY <1>2, RunTaskPreserves
<1>3. CASE \E w \in Threads : TaskEnd(w)
  BY <1>3, TaskEndPreserves
<1>4. CASE Wait
  BY <1>4, WaitPreserves
<1>5. CASE (\E w \in Threads : TaskReturn(w)) \/ UNCHANGED vars
  BY <1>5, RunUnchangedPreserves
<1> QED
  BY <1>1, <1>2, <1>3, <1>4, <1>5 DEF Next, PoolThread, Terminated

-----------------------------------------------------------------------------
(***************************************************************************)
(* The theorems.                                                           *)
(***************************************************************************)

\* The inductive invariant: what the runners and the tasks that wait in the
\* pool have still to try does not overlap, nothing emitted lies in it, and
\* what each of them works on is in order.
THEOREM Inductive == Spec => []IInv
<1>1. Init => IInv
  BY InitEstablishes
<1>2. IInv /\ [Next]_vars => IInv'
  BY InvNext
<1> QED
  BY <1>1, <1>2, PTL DEF Spec

\* Every variable has its type, with any number of pool threads and at any
\* depth of the recursion.
THEOREM TypeCorrect == Spec => []TypeOK
<1>1. IInv => TypeOK
  BY DEF IInv, ControlOK
<1> QED
  BY <1>1, Inductive, PTL

\* Every runner's uncov is exact, whatever the others do: the copies a task
\* gets are enough.
THEOREM BookkeepingExact == Spec => []UncovExact
<1>1. IInv => UncovExact
  BY DEF IInv, ControlOK, RunnersOK, RunnerOK, UncovExact
<1> QED
  BY <1>1, Inductive, PTL

\* The index of GetVertexHitting, built without a lock on its first use, is
\* there before there is a second runner that could build it.
THEOREM IndexBuiltFirst == Spec => []IndexBeforeTasks
<1>1. IInv => IndexBeforeTasks
  BY DEF IInv
<1> QED
  BY <1>1, Inductive, PTL

\* When RunApproximate returns every task has run and its slot is back.
THEOREM NoTaskLeft == Spec => []AllGivenBack
<1>1. IInv => AllGivenBack
  BY PoolFacts DEF IInv, ControlOK, Linked, AllGivenBack
<1> QED
  BY <1>1, Inductive, PTL

\* Whatever edges the race on next_edge_ makes the runners pick, everything
\* pushed to the output queue is a minimal approximate cover, and nothing is
\* pushed twice.
THEOREM Sound == Spec => []OutputsOK
<1>1. IInv => OutputsOK
  BY DEF IInv
<1> QED
  BY <1>1, Inductive, PTL

-----------------------------------------------------------------------------
(***************************************************************************)
(* AdvancedADCEnum implements the abstract enumeration, if there is an     *)
(* edge.  Without one f1 divides by zero and no cover is good enough.      *)
(***************************************************************************)

LEMMA SameCovers ==
  /\ Enumeration!MinimalCovers(hyper_graph, theta) = MinimalCovers(hyper_graph, theta)
  /\ Enumeration!Emitted = Emitted
<1>1. \A S : Enumeration!Cardinality(S) = Cardinality(S)
  BY DEF Enumeration!Cardinality, Cardinality
<1>2. \A g : Enumeration!EdgeIds(g) = EdgeIds(g)
  BY DEF Enumeration!EdgeIds, EdgeIds
<1>3. \A g : Enumeration!EdgeNum(g) = EdgeNum(g)
  BY <1>1, <1>2 DEF Enumeration!EdgeNum, EdgeNum
<1>4. \A g : Enumeration!Vertices(g) = Vertices(g)
  BY <1>2 DEF Enumeration!Vertices, Vertices
<1>5. \A g, S : Enumeration!Uncovered(g, S) = Uncovered(g, S)
  BY <1>2 DEF Enumeration!Uncovered, Uncovered
<1>6. \A g, th, S :
        Enumeration!IsApproximateCover(g, th, S) <=> IsApproximateCover(g, th, S)
  BY <1>1, <1>3, <1>5 DEF Enumeration!IsApproximateCover, IsApproximateCover
<1>7. Enumeration!MinimalCovers(hyper_graph, theta) = MinimalCovers(hyper_graph, theta)
  BY <1>4, <1>6 DEF Enumeration!MinimalCovers, MinimalCovers
<1> QED
  BY <1>7 DEF Enumeration!Emitted, Emitted, Elements

\* What is pushed is a minimal cover not pushed before.
LEMMA EmitsNew ==
  ASSUME IInv, IInv', NEW r \in Runners, Found(r), output' # output
  PROVE  /\ output' = Append(output, run[r].cur)
         /\ run[r].cur \in MinimalCovers(hyper_graph, theta) \ Emitted
<1>1. PICK cur : cur = run[r].cur
  OBVIOUS
<1>2. output' = Append(output, cur) /\ UNCHANGED given
  BY <1>1 DEF Found
<1> DEFINE n == Len(output)
<1>3. /\ n \in Nat /\ Len(output') = n + 1 /\ output'[n + 1] = cur
      /\ \A i \in 1 .. n : output'[i] = output[i]
  BY <1>2 DEF IInv, ControlOK, TypeOK
<1>4. /\ \A i \in 1 .. n : i \in 1 .. n + 1 /\ i # n + 1
      /\ n + 1 \in 1 .. n + 1
  BY <1>3
<1>5. MinimalCovers(hyper_graph, theta)' = MinimalCovers(hyper_graph, theta)
  BY <1>2, SameGiven
<1>6. cur \in MinimalCovers(hyper_graph, theta)
  BY <1>3, <1>4, <1>5 DEF IInv, OutputsOK, Emitted, Elements
<1>7. ASSUME NEW i \in 1 .. n PROVE output[i] # cur
  BY <1>3, <1>4 DEF IInv, OutputsOK, NoneTwice
<1> QED
  BY <1>1, <1>2, <1>6, <1>7 DEF Emitted, Elements

\* When Wait returns nothing is left to try.
LEMMA AllEmitted ==
  ASSUME IInv, NothingMissed, Wait
  PROVE  Emitted = MinimalCovers(hyper_graph, theta)
<1>1. /\ run[Main].pc = "return" /\ run[Main].stack = <<>>
      /\ posted = <<>> /\ \A w \in Threads : running[w] = NoTask
  BY DEF Wait, Pool!Wait
<1>2. ASSUME NEW r \in Runners PROVE Region(run[r]) = {}
  <2>1. run[r].stack = <<>> /\ run[r].pc \in {"idle", "return"}
    <3>1. CASE r = Main
      BY <1>1, <3>1
    <3>2. CASE r \in Threads
      <4>1. run[r].pc = "idle"
        BY <1>1, <3>2 DEF IInv, ControlOK, Linked
      <4> QED
        BY <4>1, RunnerFacts DEF IInv, RunnerOK
    <3> QED
      BY <3>1, <3>2 DEF Runners
  <2>2. CallsOf(run[r]) = {}
    BY <2>1 DEF CallsOf, Calling
  <2> QED
    BY <2>1, <2>2, NoActivation
<1>3. Len(posted) = 0 /\ 1 .. Len(posted) = {}
  BY <1>1
<1>4. Remaining(run, posted) = {}
  BY <1>2, <1>3 DEF Remaining
<1> QED
  BY <1>4 DEF NothingMissed, IInv, OutputsOK

\* A runner's step other than Found pushes nothing and is not the last.
LEMMA QuietStep ==
  ASSUME IInv, NEW r \in Runners, Algorithm(r), ~Found(r)
  PROVE  /\ UNCHANGED <<given, output>>
         /\ run'[Main].pc = "done" <=> run[Main].pc = "done"
<1>1. ControlOK /\ Indexed /\ run \in [Runners -> Runs] /\ Main \in Runners
  BY DEF IInv, ControlOK, TypeOK, Runners
<1>2. CASE Post(r)
  BY <1>1, <1>2 DEF Post, Goto, Runs
<1>3. CASE ~Post(r)
  <2>1. Moves(r)
    <3>1. CASE Expand(r)
      BY <1>1, <3>1, ExpandMoves
    <3>2. CASE StartScan(r)
      BY <1>1, <3>2, StartScanMoves
    <3>3. CASE Write(r)
      BY <1>1, <3>3, WriteMoves
    <3>4. CASE Read(r)
      BY <1>1, <3>4, ReadMoves
    <3>5. CASE Offer(r)
      BY <1>1, <3>5, OfferMoves
    <3>6. CASE Recurse(r)
      BY <1>1, <3>6, RecurseMoves
    <3>7. CASE Descend(r)
      BY <1>1, <3>7, DescendMoves
    <3>8. CASE Leave(r)
      BY <1>1, <3>8, LeaveMoves
    <3>9. CASE Return(r)
      BY <1>1, <3>9, ReturnMoves
    <3> QED
      BY <1>3, <3>1, <3>2, <3>3, <3>4, <3>5, <3>6, <3>7, <3>8, <3>9 DEF Algorithm
  <2> QED
    BY <1>1, <2>1 DEF Moves, Advances, GoesOn
<1> QED
  BY <1>2, <1>3

\* Nobody runs any more when the main thread has waited.
LEMMA NobodyRuns ==
  ASSUME IInv, run[Main].pc = "done", NEW r \in Runners
  PROVE  run[r].pc \in {"idle", "done"}
<1>1. \A w \in Threads : running[w] = NoTask
  BY DEF IInv, ControlOK, Linked, PoolInv, PoolProofs!PoolInv, PoolProofs!JoinedIdle
<1> QED
  BY <1>1 DEF IInv, ControlOK, Linked, Runners

LEMMA EnumerationStep ==
  ASSUME IInv, IInv', NothingMissed, [Next]_vars
  PROVE  [Enumeration!Next]_(Enumeration!vars)
<1> USE DEF given
<1>1. run \in [Runners -> Runs] /\ Main \in Runners /\ Main \notin Threads
  BY RunnersAssumption DEF IInv, ControlOK, TypeOK, Runners
<1>2. ASSUME NEW r \in Runners, Found(r)
      PROVE  [Enumeration!Next]_(Enumeration!vars)
  <2>1. /\ run[r].pc = "call" /\ run' = [run EXCEPT ![r].pc = "return"]
        /\ hyper_graph' = hyper_graph /\ theta' = theta
    BY <1>2 DEF Found, Goto
  <2>2. run[Main].pc # "done"
    BY <2>1, NobodyRuns
  <2>3. run'[Main].pc # "done"
    BY <1>1, <2>1, <2>2 DEF Runs
  <2>4. CASE output' = output
    BY <2>1, <2>2, <2>3, <2>4 DEF Enumeration!vars
  <2>5. CASE output' # output
    <3>1. /\ output' = Append(output, run[r].cur)
          /\ run[r].cur
               \in Enumeration!MinimalCovers(hyper_graph, theta) \ Enumeration!Emitted
      BY <1>2, <2>5, EmitsNew, SameCovers
    <3>2. Enumeration!Emit
      BY <2>1, <2>2, <2>3, <3>1 DEF Enumeration!Emit
    <3> QED
      BY <3>2 DEF Enumeration!Next
  <2> QED
    BY <2>4, <2>5
<1>3. CASE Wait
  <2>1. /\ hyper_graph' = hyper_graph /\ theta' = theta /\ output' = output
        /\ run[Main].pc = "return" /\ run' = [run EXCEPT ![Main].pc = "done"]
    BY <1>3 DEF Wait, Goto
  <2>2. run[Main].pc # "done" /\ run'[Main].pc = "done"
    BY <1>1, <2>1 DEF Runs
  <2>3. Enumeration!Emitted = Enumeration!MinimalCovers(hyper_graph, theta)
    BY <1>3, AllEmitted, SameCovers
  <2>4. Enumeration!Finish
    BY <2>1, <2>2, <2>3 DEF Enumeration!Finish
  <2> QED
    BY <2>4 DEF Enumeration!Next
<1>4. ASSUME NEW r \in Runners, Algorithm(r), ~Found(r)
      PROVE  UNCHANGED Enumeration!vars
  BY <1>4, QuietStep DEF Enumeration!vars
<1>5. ASSUME NEW w \in Threads, PoolThread(w)
      PROVE  UNCHANGED Enumeration!vars
  <2>1. /\ hyper_graph' = hyper_graph /\ theta' = theta /\ output' = output
        /\ run'[Main] = run[Main]
    BY <1>1, <1>5 DEF PoolThread, RunTask, TaskEnd, TaskReturn
  <2> QED
    BY <2>1 DEF Enumeration!vars
<1>6. CASE UNCHANGED vars
  BY <1>6 DEF vars, Enumeration!vars
<1> QED
  BY <1>2, <1>3, <1>4, <1>5, <1>6 DEF Next, Terminated

\* Every minimal approximate cover is pushed exactly once before
\* RunApproximate returns, and nothing else is, whatever the threads
\* interleave and whichever edge a runner reads from next_edge_.
THEOREM Exact == Spec /\ EdgeNum(hyper_graph) > 0 => ImplementsEnumeration
<1>1. Init => IInv /\ NothingMissed /\ Enumeration!Init
  <2>1. Init => Enumeration!Init
    <3> SUFFICES ASSUME Init PROVE Enumeration!Init
      OBVIOUS
    <3>1. run[Main].pc = "call"
      BY DEF Init, Runners, Called
    <3> QED
      BY <3>1 DEF Init, Enumeration!Init
  <2> QED
    BY <2>1, InitEstablishes
<1>2. IInv /\ [Next]_vars => IInv'
  BY InvNext
<1>3. IInv /\ EdgeNum(hyper_graph) > 0 /\ [Next]_vars => (EdgeNum(hyper_graph) > 0)'
  <2> SUFFICES ASSUME IInv, [Next]_vars PROVE UNCHANGED given
    BY SameGiven
  <2>1. ASSUME NEW r \in Runners, Algorithm(r) PROVE UNCHANGED given
    BY <2>1, QuietStep DEF Found
  <2>2. ASSUME NEW w \in Threads, PoolThread(w) PROVE UNCHANGED given
    BY <2>2 DEF PoolThread, RunTask, TaskEnd, TaskReturn
  <2>3. CASE Wait \/ UNCHANGED vars
    BY <2>3 DEF Wait, vars
  <2> QED
    BY <2>1, <2>2, <2>3 DEF Next, Terminated
<1>4. IInv /\ EdgeNum(hyper_graph) > 0 /\ NothingMissed /\ [Next]_vars => NothingMissed'
  BY InvNext
<1>5. IInv /\ IInv' /\ NothingMissed /\ [Next]_vars
        => [Enumeration!Next]_(Enumeration!vars)
  BY EnumerationStep
<1> QED
  BY <1>1, <1>2, <1>3, <1>4, <1>5, PTL
  DEF Spec, ImplementsEnumeration, Enumeration!Safety

=============================================================================
