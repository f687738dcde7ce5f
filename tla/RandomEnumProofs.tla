-------------------------- MODULE RandomEnumProofs --------------------------
(***************************************************************************)
(* The two random classes, whatever is drawn and shuffled: wherever a      *)
(* search goes on its members are exact, so that what it records for a     *)
(* component is one of its minimal hitting sets, one for each search; the  *)
(* choice RandomEnumAutoInc pushes is greedy, and at least half as diverse *)
(* as any other, if no search failed; with MIN none fails; and with the    *)
(* certain way back a repair finds nothing.                                *)
(***************************************************************************)
EXTENDS RandomEnumAutoInc, CoverSearchProofs

-----------------------------------------------------------------------------
(***************************************************************************)
(* The repair of a dead end.  list holds the vertices chosen, the one that *)
(* would violate last, and S is the set of them.                           *)
(***************************************************************************)

ListedStates(list) ==
  [cur : SUBSET Vertices(hyper_graph),
   crit : [1 .. Len(list) -> SUBSET EdgeIds(hyper_graph)]]

\* s is what the first n releases make of S: it hits what S does, the edges of
\* each vertex that remains are exact, and those of the others are none.
ReleasedSome(list, S, s, n) ==
  /\ s.cur \subseteq S
  /\ list[Len(list)] \in s.cur
  /\ Uncovered(hyper_graph, s.cur) = Uncovered(hyper_graph, S)
  /\ \A i \in 1 .. Len(list) :
       /\ list[i] \in s.cur =>
            s.crit[i] = Critical(hyper_graph, s.cur, list[i])
       /\ list[i] \notin s.cur => i <= n /\ s.crit[i] = {}
  /\ \A i \in 1 .. n : list[i] \in s.cur => s.crit[i] # {}

LEMMA PositionProperties ==
  ASSUME NEW V, NEW list \in Seq(V), Distinct(list), NEW i \in 1 .. Len(list)
  PROVE  Position(list, list[i]) = i
<1>1. DOMAIN list = 1 .. Len(list)
  OBVIOUS
<1>2. list[i] \in ToSet(list)
  BY <1>1 DEF ToSet
<1>3. \A j \in DOMAIN list : list[j] = list[i] => j = i
  BY <1>1 DEF Distinct
<1>4. (CHOOSE j \in DOMAIN list : list[j] = list[i]) = i
  BY <1>1, <1>3
<1> QED
  BY <1>2, <1>4 DEF Position

\* The edges only u and w hit.
Shared(g, S, w, u) == {e \in VertexHitting(g, w) : g[e] \cap S = {u, w}}

\* A vertex without a critical edge is not missed: its edges are hit by
\* others, and critical for these if two hit them.
LEMMA CriticalReleased ==
  ASSUME NEW g, NEW S, NEW w \in S, Critical(g, S, w) = {}
  PROVE  /\ Uncovered(g, S \ {w}) = Uncovered(g, S)
         /\ \A u \in S \ {w} :
              Critical(g, S \ {w}, u) =
                Critical(g, S, u)
                  \cup Shared(g, S, w, u)
<1>1. \A e \in EdgeIds(g) : g[e] \cap S # {w}
  BY DEF Critical
<1>2. ASSUME NEW e \in EdgeIds(g)
      PROVE  g[e] \cap (S \ {w}) = {} <=> g[e] \cap S = {}
  BY <1>1
<1>3. ASSUME NEW e \in EdgeIds(g), NEW u \in S \ {w}
      PROVE  g[e] \cap (S \ {w}) = {u}
               <=> \/ g[e] \cap S = {u}
                   \/ w \in g[e] /\ g[e] \cap S = {u, w}
  <2>1. CASE w \in g[e]
    BY <2>1
  <2>2. CASE w \notin g[e]
    BY <2>2
  <2> QED
    BY <2>1, <2>2
<1>4. Uncovered(g, S \ {w}) = Uncovered(g, S)
  BY <1>2 DEF Uncovered
<1>5. ASSUME NEW u \in S \ {w}
      PROVE  Critical(g, S \ {w}, u) =
               Critical(g, S, u)
                 \cup Shared(g, S, w, u)
  BY <1>3 DEF Critical, VertexHitting, Shared
<1> QED
  BY <1>4, <1>5

LEMMA ReleaseStep ==
  ASSUME NEW list \in Seq(Vertices(hyper_graph)), Distinct(list),
         NEW s \in ListedStates(list), NEW n \in 1 .. Len(list) - 1,
         ReleasedSome(list, ToSet(list), s, n - 1)
  PROVE  /\ Released(list, s, n) \in ListedStates(list)
         /\ ReleasedSome(list, ToSet(list), Released(list, s, n), n)
<1> DEFINE g == hyper_graph
           S == ToSet(list)
           d == Len(list)
           w == list[n]
           t == Released(list, s, n)
<1>1. /\ d \in Nat /\ d \in 1 .. d /\ n \in 1 .. d /\ n # d
      /\ DOMAIN list = 1 .. d
      /\ \A i \in 1 .. d : list[i] \in Vertices(g) /\ list[i] \in S
      /\ \A u \in S : \E i \in 1 .. d : list[i] = u
  <2>1. d \in Nat /\ DOMAIN list = 1 .. d
    OBVIOUS
  <2>2. \A i \in 1 .. d : list[i] \in Vertices(g)
    OBVIOUS
  <2>3. S = {list[i] : i \in 1 .. d}
    BY <2>1 DEF ToSet
  <2>4. d \in 1 .. d /\ n \in 1 .. d /\ n # d
    <3>1. n \in 1 .. d - 1
      OBVIOUS
    <3> HIDE DEF d
    <3> QED
      BY <2>1, <3>1
  <2> HIDE DEF d, S
  <2> QED
    BY <2>1, <2>2, <2>3, <2>4
<1>a. /\ s.cur \subseteq S /\ list[d] \in s.cur
      /\ Uncovered(g, s.cur) = Uncovered(g, S)
      /\ \A i \in 1 .. d :
           /\ list[i] \in s.cur => s.crit[i] = Critical(g, s.cur, list[i])
           /\ list[i] \notin s.cur => i <= n - 1 /\ s.crit[i] = {}
      /\ \A i \in 1 .. n - 1 : list[i] \in s.cur => s.crit[i] # {}
  BY DEF ReleasedSome
<1>b. n \in Nat /\ \A i \in 1 .. d : i <= n - 1 => i <= n /\ i # n
  <2> HIDE DEF d
  <2> QED
    BY <1>1
<1>2. /\ s.cur \in SUBSET Vertices(g) /\ DOMAIN s.crit = 1 .. d
      /\ s.crit \in [1 .. d -> SUBSET EdgeIds(g)]
  BY DEF ListedStates
<1>3. CASE s.crit[n] # {}
  <2>1. t = s
    BY <1>3 DEF Released
  <2>3. \A i \in 1 .. n : i = n \/ i \in 1 .. n - 1
    BY <1>b
  <2>4. \A i \in 1 .. n : list[i] \in s.cur => s.crit[i] # {}
    BY <1>3, <1>a, <2>3
  <2>5. ReleasedSome(list, S, s, n)
    BY <1>a, <1>b, <2>4 DEF ReleasedSome
  <2> QED
    BY <2>1, <2>5
<1>4. CASE s.crit[n] = {}
  <2> DEFINE C == s.cur \ {w}
             Freed(j) == {e \in VertexHitting(g, w) :
                            \E u \in s.cur \ {w} :
                              /\ g[e] \cap s.cur = {u, w}
                              /\ Position(list, u) = j}
             K == [j \in 1 .. d |-> s.crit[j] \cup Freed(j)]
  <2>1. w \in s.cur
    BY <1>1, <1>a, <1>b
  <2>2. Critical(g, s.cur, w) = {}
    BY <1>1, <1>4, <1>a, <2>1
  <2>3. Flip(s.cur, w) = C
    BY <2>1 DEF Flip
  <2>4. t = [cur |-> C, crit |-> K]
    <3>1. t = [cur |-> Flip(s.cur, w),
               crit |-> [j \in DOMAIN s.crit |-> s.crit[j] \cup Freed(j)]]
      BY <1>4 DEF Released
    <3> QED
      BY <1>2, <2>3, <3>1
  <2>5. t.cur = C /\ t.crit = K /\ \A j \in 1 .. d : K[j] = s.crit[j] \cup Freed(j)
    BY <2>4
  <2>6. /\ Uncovered(g, C) = Uncovered(g, s.cur)
        /\ \A u \in C :
             Critical(g, C, u) =
               Critical(g, s.cur, u)
                 \cup Shared(g, s.cur, w, u)
    <3> HIDE DEF w
    <3> QED
      BY <2>1, <2>2, CriticalReleased
  <2>7. ASSUME NEW j \in 1 .. d
        PROVE  \A u \in s.cur \ {w} : Position(list, u) = j <=> u = list[j]
    <3> TAKE u \in s.cur \ {w}
    <3>1. u \in S
      BY DEF ReleasedSome
    <3>2. PICK i \in 1 .. d : list[i] = u
      BY <1>1, <3>1
    <3>3. Position(list, u) = i
      BY <3>2, PositionProperties
    <3> QED
      BY <3>2, <3>3 DEF Distinct
  <2>8. ASSUME NEW j \in 1 .. d, list[j] \in C
        PROVE  K[j] = Critical(g, C, list[j])
    <3>1. Freed(j) = Shared(g, s.cur, w, list[j])
      BY <2>7, <2>8 DEF Shared
    <3>2. s.crit[j] = Critical(g, s.cur, list[j])
      BY <2>8 DEF ReleasedSome
    <3> HIDE DEF K, Freed, C
    <3> QED
      BY <2>5, <2>6, <2>8, <3>1, <3>2
  <2>9. ASSUME NEW j \in 1 .. d, list[j] \notin C
        PROVE  j <= n /\ K[j] = {}
    <3>1. Freed(j) = {}
      BY <2>7, <2>9
    <3>2. CASE j = n
      BY <1>4, <2>5, <3>1, <3>2
    <3>3. CASE j # n
      <4>1. list[j] # w
        BY <1>1, <3>3 DEF Distinct
      <4>2. list[j] \notin s.cur
        BY <2>9, <4>1
      <4>3. j <= n - 1 /\ s.crit[j] = {}
        BY <4>2 DEF ReleasedSome
      <4> QED
        BY <2>5, <3>1, <4>3
    <3> QED
      BY <3>2, <3>3
  <2>10. ASSUME NEW j \in 1 .. n, list[j] \in C
         PROVE  K[j] # {}
    <3>1. j # n
      BY <2>10
    <3>2. j \in 1 .. n - 1 /\ j \in 1 .. d
      <4> HIDE DEF d
      <4> QED
        BY <1>1, <1>b, <3>1
    <3>3. s.crit[j] # {}
      BY <2>10, <3>2 DEF ReleasedSome
    <3> QED
      BY <2>5, <3>2, <3>3
  <2>11. list[d] \in C
    <3>1. list[d] # w
      BY <1>1 DEF Distinct
    <3> QED
      BY <3>1 DEF ReleasedSome
  <2>12. t \in ListedStates(list)
    <3>1. C \in SUBSET Vertices(g)
      BY <1>2
    <3>2. \A j \in 1 .. d : Freed(j) \in SUBSET EdgeIds(g)
      BY DEF VertexHitting
    <3>3. K \in [1 .. d -> SUBSET EdgeIds(g)]
      BY <1>2, <3>2
    <3> HIDE DEF C, K, t
    <3> QED
      BY <2>4, <3>1, <3>3 DEF ListedStates
  <2>13. C \subseteq S /\ Uncovered(g, C) = Uncovered(g, S)
    BY <2>6 DEF ReleasedSome
  <2>14. ReleasedSome(list, S, t, n)
    <3> HIDE DEF C, K, t, Freed, S
    <3> QED
      BY <2>5, <2>8, <2>9, <2>10, <2>11, <2>13 DEF ReleasedSome
  <2> QED
    BY <2>12, <2>14
<1> QED
  BY <1>3, <1>4

\* The loop over the vertices chosen before.
LEMMA ReleasedAllProperties ==
  ASSUME NEW list \in Seq(Vertices(hyper_graph)), Distinct(list), list # <<>>,
         NEW s \in ListedStates(list), ReleasedSome(list, ToSet(list), s, 0)
  PROVE  /\ ReleasedAll(list, s) \in ListedStates(list)
         /\ ReleasedSome(list, ToSet(list), ReleasedAll(list, s), Len(list) - 1)
<1> DEFINE T == ListedStates(list)
           n == Len(list) - 1
           step == [i \in 1 .. n |-> [p \in T |->
                      IF Released(list, p, i) \in T
                      THEN Released(list, p, i) ELSE p]]
           Is(f) == f = [i \in 0 .. n |->
                           IF i = 0 THEN s ELSE Released(list, f[i - 1], i)]
<1>1. n \in Nat
  <2>1. Len(list) \in Nat \ {0}
    BY EmptySeq
  <2> QED
    BY <2>1
<1>2. PICK f \in [0 .. n -> T] : Iterates(f, s, n, step)
  <2>1. step \in [1 .. n -> [T -> T]]
    OBVIOUS
  <2>2. s \in T
    OBVIOUS
  <2> HIDE DEF step, T, n
  <2> QED
    BY <1>1, <2>1, <2>2, IterationExists
<1>3. \A p \in T, i \in 1 .. n :
        step[i][p] = IF Released(list, p, i) \in T
                         THEN Released(list, p, i) ELSE p
  OBVIOUS
<1> DEFINE G == {i \in 0 .. n :
                   ReleasedSome(list, ToSet(list), f[i], i)}
<1>4. 0 \in G
  <2>1. f[0] = s
    BY <1>1, <1>2 DEF Iterates
  <2> QED
    BY <1>1, <2>1
<1>5. ASSUME NEW i \in 0 .. n - 1, i \in G
      PROVE  i + 1 \in G /\ f[i + 1] = Released(list, f[i], i + 1)
  <2>1. i + 1 \in 1 .. n /\ i + 1 \in 1 .. Len(list) - 1
        /\ (i + 1) - 1 = i /\ i \in 0 .. n /\ i + 1 \in 0 .. n /\ i + 1 # 0
    BY <1>1
  <2>2. f[i] \in T /\ ReleasedSome(list, ToSet(list), f[i], i)
    BY <1>2, <1>5, <2>1
  <2>3. /\ Released(list, f[i], i + 1) \in T
        /\ ReleasedSome(list, ToSet(list), Released(list, f[i], i + 1), i + 1)
    <3> HIDE DEF n, G
    <3> QED
      BY <2>1, <2>2, ReleaseStep
  <2>4. f[i + 1] = step[i + 1][f[i]]
    <3> HIDE DEF step, T, n, G
    <3> QED
      BY <1>2, <2>1 DEF Iterates
  <2>5. f[i + 1] = Released(list, f[i], i + 1)
    <3> HIDE DEF step, T, n, G
    <3> QED
      BY <1>3, <2>1, <2>2, <2>3, <2>4
  <2> QED
    BY <2>1, <2>3, <2>5
<1>6. \A i \in 0 .. n : i \in G
  <2> HIDE DEF G, n, T
  <2> QED
    BY <1>1, <1>4, <1>5, UpTo
<1>7. Is(f)
  <2>1. \A i \in 1 .. n : f[i] = Released(list, f[i - 1], i)
    <3> TAKE i \in 1 .. n
    <3>1. i - 1 \in 0 .. n - 1 /\ i - 1 \in 0 .. n /\ (i - 1) + 1 = i
      BY <1>1
    <3>2. i - 1 \in G
      BY <1>6, <3>1
    <3> HIDE DEF G, n, T
    <3>3. f[(i - 1) + 1] = Released(list, f[i - 1], (i - 1) + 1)
      BY <1>5, <3>1, <3>2
    <3> QED
      BY <3>1, <3>3
  <2>2. f[0] = s
    BY <1>1, <1>2 DEF Iterates
  <2>3. \A i \in 0 .. n : i # 0 => i \in 1 .. n
    BY <1>1
  <2>4. f = [i \in 0 .. n |-> f[i]]
    BY <1>2
  <2> HIDE DEF G, n, T
  <2> QED
    BY <2>1, <2>2, <2>3, <2>4
<1>8. \A h : Is(h) => h = f
  <2> SUFFICES ASSUME NEW h, Is(h) PROVE h = f
    OBVIOUS
  <2> DEFINE H == {i \in 0 .. n : h[i] = f[i]}
  <2>1. 0 \in H
    BY <1>1, <1>7
  <2>2. ASSUME NEW i \in 0 .. n - 1, i \in H
        PROVE  i + 1 \in H
    <3>1. i + 1 \in 0 .. n /\ i + 1 # 0 /\ (i + 1) - 1 = i
      BY <1>1
    <3>2. h[i + 1] = Released(list, h[(i + 1) - 1], i + 1)
      <4> HIDE DEF n
      <4> QED
        BY <3>1
    <3>3. f[i + 1] = Released(list, f[(i + 1) - 1], i + 1)
      <4> HIDE DEF n
      <4> QED
        BY <1>7, <3>1
    <3>4. h[i] = f[i]
      BY <2>2
    <3> HIDE DEF n
    <3> QED
      BY <3>1, <3>2, <3>3, <3>4
  <2>3. \A i \in 0 .. n : i \in H
    <3> HIDE DEF H, n
    <3> QED
      BY <1>1, <2>1, <2>2, UpTo
  <2>4. h = [i \in 0 .. n |-> h[i]] /\ f = [i \in 0 .. n |-> f[i]]
    <3> HIDE DEF n
    <3> QED
      BY <1>7
  <2> QED
    BY <2>3, <2>4
<1>9. ReleasedAll(list, s) = f[n]
  <2> DEFINE After == CHOOSE h : Is(h)
  <2>1. ReleasedAll(list, s) = After[n]
    BY DEF ReleasedAll
  <2>2. After = f
    <3> HIDE DEF Is
    <3> QED
      BY <1>7, <1>8
  <2> HIDE DEF After
  <2> QED
    BY <2>1, <2>2
<1>10. n \in 0 .. n
  BY <1>1
<1> QED
  BY <1>2, <1>6, <1>9, <1>10

\* K is crit without the edges v hits, and then those of uncov it hits.
IsUpdated(g, crit, U, v, K) ==
  /\ K \in Seq(SUBSET EdgeIds(g)) /\ Len(K) = Len(crit) + 1
  /\ K[Len(crit) + 1] = NewCrit(g, U, v)
  /\ \A i \in 1 .. Len(crit) : K[i] = crit[i] \ VertexHitting(g, v)

LEMMA CritOfCall ==
  ASSUME NEW g, NEW crit, NEW U, NEW v,
         crit \in Seq(SUBSET EdgeIds(g)), U \in SUBSET EdgeIds(g)
  PROVE  IsUpdated(g, crit, U, v, UpdatedCrit(g, crit, U, v))
<1> DEFINE E == EdgeIds(g)
           n == Len(crit)
           old == [i \in 1 .. n |-> crit[i] \ VertexHitting(g, v)]
<1>1. n \in Nat /\ \A i \in 1 .. n : crit[i] \in SUBSET E
  OBVIOUS
<1>2. \A i \in 1 .. n : crit[i] \ VertexHitting(g, v) \in SUBSET E
  BY <1>1
<1>3. NewCrit(g, U, v) \in SUBSET E
  BY DEF NewCrit
<1>4. UpdatedCrit(g, crit, U, v) = Append(old, NewCrit(g, U, v))
  BY DEF UpdatedCrit
<1>5. old \in Seq(SUBSET E) /\ Len(old) = n
  <2> HIDE DEF n
  <2> QED
    BY <1>1, <1>2
<1>6. \A i \in 1 .. n : old[i] = crit[i] \ VertexHitting(g, v)
  OBVIOUS
<1> HIDE DEF old
<1> DEFINE K == Append(old, NewCrit(g, U, v))
<1>7. /\ K \in Seq(SUBSET E) /\ Len(K) = n + 1
      /\ K[n + 1] = NewCrit(g, U, v)
      /\ \A i \in 1 .. n : K[i] = old[i]
  <2> HIDE DEF n, E
  <2> QED
    BY <1>1, <1>3, <1>5, PushProperties
<1> HIDE DEF K
<1> QED
  BY <1>4, <1>6, <1>7 DEF IsUpdated, K

\* With the members m, crit is exact: SearchExact, and no vertex is in the
\* list twice.
ExactAt(g, m, crit) ==
  /\ m.cur \in SUBSET Vertices(g)
  /\ m.cur_list \in Seq(Vertices(g))
  /\ crit \in Seq(SUBSET EdgeIds(g))
  /\ m.uncov = Uncovered(g, m.cur)
  /\ Distinct(m.cur_list)
  /\ Len(crit) = Len(m.cur_list)
  /\ \A i \in 1 .. Len(crit) :
       /\ m.cur_list[i] \in m.cur
       /\ crit[i] = Critical(g, m.cur, m.cur_list[i])

\* What the releases leave when v is chosen in a dead end, the positions of
\* the list that are kept, and the members and crit of the call then made.
Repaired(m, crit, v) ==
  ReleasedAll(Append(m.cur_list, v),
              [cur |-> Flip(m.cur, v),
               crit |-> UpdatedCrit(hyper_graph, crit, m.uncov, v)])

Kept(list, s) == Ascending({i \in DOMAIN list : s.crit[i] # {}})

KeptList(list, kept) == [i \in DOMAIN kept |-> list[kept[i]]]

\* The members n and crit K made of m by a repair with v: exact again, every
\* vertex in the list critical, and the list holds every vertex chosen if v
\* hits an edge that was not hit.
RepairedAt(g, m, v, n, K) ==
  /\ ExactAt(g, n, K)
  /\ v \in n.cur
  /\ n.cur \subseteq m.cur \cup {v}
  /\ \A i \in 1 .. Len(K) : K[i] # {}
  /\ NewCrit(g, m.uncov, v) # {} => ToSet(n.cur_list) = n.cur

LEMMA RepairedExact ==
  ASSUME NEW m, NEW crit, ExactAt(hyper_graph, m, crit), ToSet(m.cur_list) = m.cur,
         NEW v \in Vertices(hyper_graph) \ m.cur,
         NEW list, list = Append(m.cur_list, v),
         NEW s, s = Repaired(m, crit, v),
         NEW kept, kept = Kept(list, s),
         NEW n, n.cur = s.cur, n.uncov = UpdatedUncov(hyper_graph, m.uncov, v),
         n.cur_list = KeptList(list, kept),
         NEW K, K = KeptList(s.crit, kept)
  PROVE  RepairedAt(hyper_graph, m, v, n, K)
<1> DEFINE g == hyper_graph
           S == m.cur \cup {v}
           d == Len(list)
           start == [cur |-> Flip(m.cur, v),
                     crit |-> UpdatedCrit(g, crit, m.uncov, v)]
<1>1. /\ m.cur_list \in Seq(Vertices(g)) /\ v \in Vertices(g)
      /\ Len(m.cur_list) \in Nat
  BY DEF ExactAt
<1>2. /\ list \in Seq(Vertices(g)) /\ list # <<>> /\ d = Len(m.cur_list) + 1
      /\ list[d] = v
      /\ \A i \in 1 .. d - 1 : list[i] = m.cur_list[i]
      /\ DOMAIN list = 1 .. d /\ d \in Nat
  BY <1>1, AppendProperties, LenProperties
<1>3. \A i \in 1 .. d : i \in 1 .. d - 1 \/ i = d
  BY <1>2
<1>4. m.cur = {m.cur_list[i] : i \in 1 .. d - 1}
  <2>1. DOMAIN m.cur_list = 1 .. Len(m.cur_list)
    BY <1>1
  <2>2. d - 1 = Len(m.cur_list)
    BY <1>1, <1>2
  <2> QED
    BY <2>1, <2>2 DEF ToSet
<1>5. \A i \in 1 .. d - 1 : list[i] \in m.cur
  BY <1>2, <1>4
<1>6. ToSet(list) = S
  <2>1. ToSet(list) = {list[i] : i \in 1 .. d}
    BY <1>2 DEF ToSet
  <2>2. \A u \in m.cur : \E i \in 1 .. d : list[i] = u
    <3> TAKE u \in m.cur
    <3>1. PICK i \in 1 .. d - 1 : m.cur_list[i] = u
      BY <1>4
    <3>2. i \in 1 .. d
      BY <1>2
    <3> QED
      BY <1>2, <3>1, <3>2
  <2>3. d \in 1 .. d
    BY <1>1, <1>2
  <2> HIDE DEF d
  <2> QED
    BY <1>2, <1>3, <1>5, <2>1, <2>2, <2>3
<1>7. Distinct(list)
  <2> SUFFICES ASSUME NEW i \in 1 .. d, NEW j \in 1 .. d, list[i] = list[j]
               PROVE  i = j
    BY DEF Distinct
  <2>1. CASE i \in 1 .. d - 1 /\ j \in 1 .. d - 1
    <3>1. Distinct(m.cur_list) /\ d - 1 = Len(m.cur_list)
      BY <1>1, <1>2 DEF ExactAt
    <3>2. m.cur_list[i] = m.cur_list[j]
      BY <1>2, <2>1
    <3> HIDE DEF d
    <3> QED
      BY <2>1, <3>1, <3>2 DEF Distinct
  <2>2. CASE i = d \/ j = d
    <3> HIDE DEF d
    <3> QED
      BY <1>2, <1>3, <1>5, <2>2
  <2> QED
    BY <1>3, <2>1, <2>2
<1>8. /\ Flip(m.cur, v) = S
      /\ UpdatedUncov(g, m.uncov, v) = Uncovered(g, S)
      /\ NewCrit(g, m.uncov, v) = Critical(g, S, v)
  <2>1. Flip(m.cur, v) = S
    BY DEF Flip
  <2>2. m.uncov = Uncovered(g, m.cur) /\ v \notin m.cur
    BY DEF ExactAt
  <2> QED
    BY <2>1, <2>2, UncoveredUpdated, CriticalNew
<1>9. /\ start.crit \in Seq(SUBSET EdgeIds(g)) /\ Len(start.crit) = d
      /\ start.crit[d] = NewCrit(g, m.uncov, v)
      /\ \A i \in 1 .. d - 1 : start.crit[i] = crit[i] \ VertexHitting(g, v)
  <2>1. /\ crit \in Seq(SUBSET EdgeIds(g)) /\ m.uncov \in SUBSET EdgeIds(g)
        /\ Len(crit) = d - 1 /\ Len(crit) + 1 = d
    BY <1>1, <1>2 DEF ExactAt, Uncovered
  <2>2. start.crit = UpdatedCrit(g, crit, m.uncov, v)
    OBVIOUS
  <2> HIDE DEF start, d
  <2> DEFINE U == UpdatedCrit(g, crit, m.uncov, v)
  <2>3. /\ U \in Seq(SUBSET EdgeIds(g)) /\ Len(U) = Len(crit) + 1
        /\ U[Len(crit) + 1] = NewCrit(g, m.uncov, v)
        /\ \A i \in 1 .. Len(crit) : U[i] = crit[i] \ VertexHitting(g, v)
    <3> HIDE DEF g, U
    <3>1. IsUpdated(g, crit, m.uncov, v, U)
      BY <2>1, CritOfCall DEF U
    <3> QED
      BY <3>1 DEF IsUpdated
  <2> QED
    BY <2>1, <2>2, <2>3
<1>10. \A i \in 1 .. d : start.crit[i] = Critical(g, S, list[i])
  <2> TAKE i \in 1 .. d
  <2>1. CASE i = d
    BY <1>2, <1>8, <1>9, <2>1
  <2>2. CASE i \in 1 .. d - 1
    <3>1. i \in 1 .. Len(crit)
      BY <1>1, <1>2, <2>2 DEF ExactAt
    <3>2. crit[i] = Critical(g, m.cur, list[i])
      BY <1>2, <2>2, <3>1 DEF ExactAt
    <3>3. v \notin m.cur /\ list[i] \in m.cur
      BY <1>5, <2>2
    <3>4. Critical(g, m.cur, list[i]) \ VertexHitting(g, v)
            = Critical(g, S, list[i])
      BY <3>3, CriticalUpdated
    <3> HIDE DEF start
    <3> QED
      BY <1>9, <2>2, <3>2, <3>4
  <2> QED
    BY <1>3, <2>1, <2>2
<1>11. start \in ListedStates(list)
  <2>1. start.crit \in [1 .. d -> SUBSET EdgeIds(g)]
    <3> HIDE DEF start, d
    <3> QED
      BY <1>9, LenProperties
  <2>2. S \in SUBSET Vertices(g)
    BY DEF ExactAt
  <2> QED
    BY <1>8, <2>1, <2>2 DEF ListedStates
<1>12. ReleasedSome(list, ToSet(list), start, 0)
  <2>1. start.cur = S
    BY <1>8
  <2>2. \A i \in 1 .. d : list[i] \in S
    <3> HIDE DEF d
    <3> QED
      BY <1>2, <1>3, <1>5
  <2>3. d \in 1 .. d
    BY <1>1, <1>2
  <2> HIDE DEF start, S
  <2> QED
    BY <1>6, <1>10, <2>1, <2>2, <2>3 DEF ReleasedSome
<1>13. /\ s \in ListedStates(list)
       /\ ReleasedSome(list, S, s, d - 1)
  <2>1. s = ReleasedAll(list, start)
    BY DEF Repaired
  <2> HIDE DEF start, S
  <2> QED
    BY <1>2, <1>6, <1>7, <1>11, <1>12, <2>1, ReleasedAllProperties
<1> DEFINE D == {i \in 1 .. d : s.crit[i] # {}}
           c == Cardinality(D)
<1>14. /\ c \in Nat /\ kept \in [1 .. c -> D]
       /\ \A i, j \in 1 .. c : i < j => kept[i] < kept[j]
       /\ \A x \in D : \E i \in 1 .. c : kept[i] = x
  <2>1. IsFiniteSet(D) /\ D \in SUBSET Nat
    <3>1. IsFiniteSet(1 .. d) /\ D \in SUBSET (1 .. d)
      BY <1>2, FS_Interval
    <3>2. 1 .. d \in SUBSET Nat
      OBVIOUS
    <3> HIDE DEF D, d
    <3> QED
      BY <3>1, <3>2, FS_Subset
  <2>2. kept = Ascending(D)
    BY <1>2 DEF Kept
  <2>3. Increasing(kept, D)
    <3> HIDE DEF D
    <3> QED
      BY <2>1, <2>2, AscendingProperties
  <2> HIDE DEF D
  <2> QED
    BY <2>3 DEF Increasing
<1>15. /\ DOMAIN kept = 1 .. c
       /\ \A i \in 1 .. c : kept[i] \in 1 .. d /\ s.crit[kept[i]] # {}
       /\ \A x \in 1 .. d : s.crit[x] # {} => \E i \in 1 .. c : kept[i] = x
  <2> HIDE DEF c
  <2> QED
    BY <1>14
<1>16. /\ s.cur \subseteq S /\ v \in s.cur
       /\ s.cur \in SUBSET Vertices(g)
       /\ Uncovered(g, s.cur) = Uncovered(g, S)
       /\ s.crit \in [1 .. d -> SUBSET EdgeIds(g)]
       /\ \A i \in 1 .. d :
            /\ list[i] \in s.cur => s.crit[i] = Critical(g, s.cur, list[i])
            /\ list[i] \notin s.cur => s.crit[i] = {}
       /\ \A i \in 1 .. d - 1 : list[i] \in s.cur => s.crit[i] # {}
  <2> HIDE DEF S
  <2> QED
    BY <1>2, <1>13 DEF ReleasedSome, ListedStates
<1> DEFINE l == n.cur_list
<1>17. /\ l = [i \in 1 .. c |-> list[kept[i]]]
       /\ K = [i \in 1 .. c |-> s.crit[kept[i]]]
  <2> HIDE DEF c
  <2> QED
    BY <1>15 DEF KeptList
<1>18. \A i \in 1 .. c : l[i] = list[kept[i]] /\ K[i] = s.crit[kept[i]]
  <2> HIDE DEF c, l
  <2> QED
    BY <1>17
<1>19. /\ l \in Seq(Vertices(g)) /\ Len(l) = c
       /\ K \in Seq(SUBSET EdgeIds(g)) /\ Len(K) = c
  <2>1. \A i \in 1 .. c : list[kept[i]] \in Vertices(g)
                          /\ s.crit[kept[i]] \in SUBSET EdgeIds(g)
    <3>1. \A i \in 1 .. d : list[i] \in Vertices(g)
      BY <1>2
    <3> HIDE DEF c, d
    <3> QED
      BY <1>15, <1>16, <3>1
  <2> HIDE DEF c, l
  <2> QED
    BY <1>14, <1>17, <2>1
<1>20. \A i \in 1 .. c : l[i] \in s.cur /\ K[i] = Critical(g, s.cur, l[i])
                         /\ K[i] # {}
  <2> TAKE i \in 1 .. c
  <2>1. kept[i] \in 1 .. d /\ s.crit[kept[i]] # {}
    BY <1>15
  <2>2. l[i] = list[kept[i]] /\ K[i] = s.crit[kept[i]]
    BY <1>18
  <2>3. list[kept[i]] \in s.cur
    BY <1>16, <2>1
  <2>4. s.crit[kept[i]] = Critical(g, s.cur, list[kept[i]])
    BY <1>16, <2>1, <2>3
  <2> HIDE DEF c, d, l
  <2> QED
    BY <2>1, <2>2, <2>3, <2>4
<1>21. Distinct(l)
  <2> SUFFICES ASSUME NEW i \in 1 .. c, NEW j \in 1 .. c, l[i] = l[j], i < j
               PROVE  FALSE
    <3>1. \A i, j \in 1 .. c : i = j \/ i < j \/ j < i
      BY <1>14
    <3> QED
      BY <1>19, <3>1 DEF Distinct
  <2>1. kept[i] < kept[j] /\ kept[i] \in 1 .. d /\ kept[j] \in 1 .. d
    <3> HIDE DEF c, d, l
    <3> QED
      BY <1>14, <1>15
  <2>2. list[kept[i]] = list[kept[j]]
    BY <1>18
  <2>3. kept[i] = kept[j]
    BY <1>7, <2>1, <2>2 DEF Distinct
  <2> QED
    BY <2>1, <2>3
<1>22. ASSUME NewCrit(g, m.uncov, v) # {}
       PROVE  ToSet(l) = s.cur
  <2>1. s.crit[d] # {}
    <3>1. s.crit[d] = Critical(g, s.cur, v)
      <4>1. d \in 1 .. d
        BY <1>1, <1>2
      <4> QED
        BY <1>2, <1>16, <4>1
    <3>2. Critical(g, S, v) # {}
      BY <1>8, <1>22
    <3>3. PICK e \in EdgeIds(g) : g[e] \cap S = {v}
      BY <3>2 DEF Critical
    <3>4. g[e] \cap s.cur = {v}
      BY <1>16, <3>3
    <3> QED
      BY <3>1, <3>4 DEF Critical
  <2>2. \A u \in s.cur : \E i \in 1 .. c : l[i] = u
    <3> TAKE u \in s.cur
    <3>1. PICK x \in 1 .. d : list[x] = u
      <4>1. u \in ToSet(list)
        BY <1>6, <1>16
      <4> QED
        BY <1>2, <4>1 DEF ToSet
    <3>2. s.crit[x] # {}
      BY <1>3, <1>16, <2>1, <3>1
    <3>3. PICK i \in 1 .. c : kept[i] = x
      BY <1>15, <3>2
    <3> QED
      BY <1>18, <3>1, <3>3
  <2>3. DOMAIN l = 1 .. c
    <3> HIDE DEF c, l
    <3> QED
      BY <1>17
  <2>4. ToSet(l) = {l[i] : i \in 1 .. c}
    BY <2>3 DEF ToSet
  <2> HIDE DEF c, l
  <2> QED
    BY <1>20, <2>2, <2>4
<1>23. ExactAt(g, n, K)
  <2> HIDE DEF c, d, l, S
  <2> QED
    BY <1>8, <1>16, <1>19, <1>20, <1>21 DEF ExactAt, l
<1> QED
  BY <1>16, <1>19, <1>20, <1>22, <1>23 DEF RepairedAt

-----------------------------------------------------------------------------
(***************************************************************************)
(* The invariant of a search.  m holds, for each activation of the stack   *)
(* s, the members it goes on with when a call it made has returned, and,   *)
(* where the innermost activation waits for a call, those of the call.     *)
(***************************************************************************)

\* The next edge chosen is the stale one, and no candidate is in it; with
\* MAX none is in any edge that is not hit.
Barren(g, q, next, cand, U, S) ==
  /\ S # {} /\ q \in {"MAX", "PRIORITY"}
  /\ cand \cap g[next] = {}
  /\ q = "MAX" => \A e \in U : cand \cap g[e] = {}

\* The candidates of activation f are those of an edge that is not hit.
Edged(g, f, m) == \E e \in m.uncov : f.c \subseteq g[e]

Stale(g, f, m) == f.loop # "tried" /\ ~Edged(g, f, m)

\* Activation f has nothing to try.
Empty(f) == f.loop = "untried" /\ f.c = {} /\ f.todo = {}

\* Activation f goes on with the members m.
FrameAt(g, f, m) ==
  /\ ExactAt(g, m, f.crit)
  /\ m.uncov # {}
  /\ (f.cand \cup f.todo \cup f.c) \cap m.cur = {}
  /\ f.cand \cap (f.todo \cup f.c) = {}
  /\ f.todo \cup f.c # {} => ToSet(m.cur_list) = m.cur
  /\ f.loop = "tried" => f.c = {}
  /\ f.loop # "tried" => f.todo \subseteq f.c
  /\ f.loop = "untried" /\ f.todo # f.c => m.cur # {}
  /\ f.loop = "repair" => m.cur # {}

\* It waits for a call with the members n.
Waits(g, f, m, n) ==
  /\ f.loop \in {"tried", "repair"}
  /\ f.v \in Vertices(g) \ m.cur
  /\ f.v \in n.cur
  /\ f.loop = "tried" =>
       /\ f.v \notin f.cand \cup f.todo
       /\ f.back = NewCrit(g, m.uncov, f.v)
       /\ n.cur = m.cur \cup {f.v}
       /\ n.uncov = UpdatedUncov(g, m.uncov, f.v)
       /\ n.cur_list = Append(m.cur_list, f.v)
  /\ f.loop = "repair" => f.old = m /\ n.uncov \subseteq m.uncov

\* The vertices chosen are as many as the calls since the last repair.
Deep(s, m, i) ==
  \E k \in 0 .. i - 1 :
    /\ k = 0 \/ s[k].loop = "repair"
    /\ Cardinality(m[i].cur) >= i - k - 1

Linked(g, s, m) ==
  /\ \A i \in 1 .. Len(s) : FrameAt(g, s[i], m[i])
  /\ \A i \in 1 .. Len(m) - 1 : Waits(g, s[i], m[i], m[i + 1])
  /\ \A i \in 1 .. Len(m) : IsFiniteSet(m[i].cur) /\ Deep(s, m, i)

\* An activation is entered.
LEMMA LinkedPushed ==
  ASSUME NEW g, NEW F, NEW s \in Seq(F), NEW M, NEW m \in Seq(M), NEW f \in F,
         Linked(g, s, m), Len(m) = Len(s) + 1, FrameAt(g, f, m[Len(m)]),
         NEW t, t = Append(s, f)
  PROVE  Linked(g, t, m)
<1> DEFINE d == Len(s)
<1>1. d \in Nat /\ Len(m) = d + 1
  OBVIOUS
<1>2. /\ Len(t) = d + 1 /\ t[d + 1] = f
      /\ \A i \in 1 .. d : t[i] = s[i]
  BY PushProperties
<1> HIDE DEF d
<1>3. ASSUME NEW i \in 1 .. Len(t) PROVE FrameAt(g, t[i], m[i])
  <2>1. CASE i = d + 1
    BY <1>1, <1>2, <2>1
  <2>2. CASE i \in 1 .. d
    BY <1>2, <2>2 DEF Linked, d
  <2> QED
    BY <1>1, <1>2, <2>1, <2>2
<1>4. ASSUME NEW i \in 1 .. Len(m) - 1 PROVE Waits(g, t[i], m[i], m[i + 1])
  <2>1. i \in 1 .. d
    BY <1>1
  <2> QED
    BY <1>2, <2>1 DEF Linked
<1>5. ASSUME NEW i \in 1 .. Len(m) PROVE Deep(t, m, i)
  <2>1. PICK k \in 0 .. i - 1 :
          (k = 0 \/ s[k].loop = "repair") /\ Cardinality(m[i].cur) >= i - k - 1
    BY DEF Linked, Deep
  <2>2. k # 0 => k \in 1 .. d
    BY <1>1
  <2> QED
    BY <1>2, <2>1, <2>2 DEF Deep
<1> QED
  BY <1>3, <1>4, <1>5 DEF Linked

\* The innermost activation becomes f and goes on with what it had.
LEMMA LinkedTop ==
  ASSUME NEW g, NEW F, NEW s \in Seq(F), s # <<>>, NEW M, NEW m \in Seq(M),
         NEW f \in F,
         Linked(g, s, m), Len(m) = Len(s), FrameAt(g, f, m[Len(s)]),
         NEW t, t = WithTop(s, f)
  PROVE  Linked(g, t, m)
<1> DEFINE d == Len(s)
<1>1. d \in Nat /\ d \in 1 .. d /\ Len(m) = d
  BY TopProperties
<1>2. /\ Len(t) = d /\ t[d] = f
      /\ \A i \in 1 .. d - 1 : t[i] = s[i]
  <2>1. /\ WithTop(s, f) \in Seq(F) /\ Len(WithTop(s, f)) = Len(s)
        /\ WithTop(s, f)[Len(s)] = f
        /\ \A i \in 1 .. Len(s) - 1 : WithTop(s, f)[i] = s[i]
        /\ WithTop(s, f) # <<>>
    BY ONLY s # <<>>, WithTopProperties
  <2> QED
    BY <2>1
<1> HIDE DEF d
<1>3. ASSUME NEW i \in 1 .. Len(t) PROVE FrameAt(g, t[i], m[i])
  <2>1. CASE i = d
    BY <1>1, <1>2, <2>1 DEF d
  <2>2. CASE i \in 1 .. d - 1
    <3>1. i \in 1 .. Len(s)
      BY <1>1, <2>2 DEF d
    <3> QED
      BY <1>2, <2>2, <3>1 DEF Linked
  <2> QED
    BY <1>1, <1>2, <2>1, <2>2
<1>4. ASSUME NEW i \in 1 .. Len(m) - 1 PROVE Waits(g, t[i], m[i], m[i + 1])
  <2>1. i \in 1 .. d - 1
    BY <1>1
  <2> QED
    BY <1>2, <2>1 DEF Linked
<1>5. ASSUME NEW i \in 1 .. Len(m) PROVE Deep(t, m, i)
  <2>1. PICK k \in 0 .. i - 1 :
          (k = 0 \/ s[k].loop = "repair") /\ Cardinality(m[i].cur) >= i - k - 1
    BY DEF Linked, Deep
  <2>2. k # 0 => k \in 1 .. d - 1
    BY <1>1
  <2> QED
    BY <1>2, <2>1, <2>2 DEF Deep
<1> QED
  BY <1>3, <1>4, <1>5 DEF Linked

\* It becomes f and makes a call with the members n.
LEMMA LinkedCall ==
  ASSUME NEW g, NEW F, NEW s \in Seq(F), s # <<>>, NEW M, NEW m \in Seq(M),
         NEW f \in F, NEW n \in M,
         Linked(g, s, m), Len(m) = Len(s), FrameAt(g, f, m[Len(s)]),
         Waits(g, f, m[Len(s)], n), IsFiniteSet(n.cur),
         NEW t, t = WithTop(s, f),
         NEW l, l = Append(m, n)
  PROVE  Linked(g, t, l)
<1> DEFINE d == Len(s)
<1>1. d \in Nat /\ d \in 1 .. d /\ Len(m) = d
  BY TopProperties
<1>2. /\ Len(t) = d /\ t[d] = f
      /\ \A i \in 1 .. d - 1 : t[i] = s[i]
  <2>1. /\ WithTop(s, f) \in Seq(F) /\ Len(WithTop(s, f)) = Len(s)
        /\ WithTop(s, f)[Len(s)] = f
        /\ \A i \in 1 .. Len(s) - 1 : WithTop(s, f)[i] = s[i]
        /\ WithTop(s, f) # <<>>
    BY ONLY s # <<>>, WithTopProperties
  <2> QED
    BY <2>1
<1>3. Linked(g, t, m)
  BY LinkedTop
<1>4. /\ Len(l) = d + 1 /\ l[d + 1] = n
      /\ \A i \in 1 .. d : l[i] = m[i]
  BY <1>1, PushProperties
<1> HIDE DEF d
<1>5. ASSUME NEW i \in 1 .. Len(t) PROVE FrameAt(g, t[i], l[i])
  BY <1>2, <1>3, <1>4 DEF Linked
<1>6. ASSUME NEW i \in 1 .. Len(l) - 1 PROVE Waits(g, t[i], l[i], l[i + 1])
  <2>1. CASE i = d
    BY <1>1, <1>2, <1>4, <2>1 DEF d
  <2>2. CASE i \in 1 .. d - 1
    <3>1. i \in 1 .. d /\ i + 1 \in 1 .. d /\ i \in 1 .. Len(m) - 1
      BY <1>1, <2>2
    <3> QED
      BY <1>3, <1>4, <3>1 DEF Linked
  <2> QED
    BY <1>1, <1>4, <2>1, <2>2
<1>7. ASSUME NEW i \in 1 .. d PROVE Deep(t, l, i)
  <2>1. i \in 1 .. Len(m) /\ l[i] = m[i]
    BY <1>1, <1>4
  <2> QED
    BY <1>3, <2>1 DEF Linked, Deep
<1>8. Deep(t, l, d + 1)
  <2>1. CASE f.loop = "repair"
    <3>1. Cardinality(n.cur) \in Nat
      BY FS_CardinalityType
    <3>2. d \in 0 .. (d + 1) - 1 /\ (d + 1) - d - 1 = 0
      BY <1>1
    <3>3. t[d].loop = "repair" /\ Cardinality(l[d + 1].cur) >= (d + 1) - d - 1
      BY <1>2, <1>4, <2>1, <3>1, <3>2
    <3> QED
      BY <3>2, <3>3 DEF Deep
  <2>2. CASE f.loop = "tried"
    <3> DEFINE c == m[d].cur
    <3>1. n.cur = c \cup {f.v} /\ f.v \notin c
      BY <2>2 DEF Waits, d
    <3>2. IsFiniteSet(c) /\ Deep(t, m, d)
      BY <1>1, <1>3 DEF Linked
    <3>3. Cardinality(n.cur) = Cardinality(c) + 1 /\ Cardinality(c) \in Nat
      <4> HIDE DEF c
      <4> QED
        BY <3>1, <3>2, FS_AddElement, FS_CardinalityType
    <3>4. PICK k \in 0 .. d - 1 :
            (k = 0 \/ t[k].loop = "repair") /\ Cardinality(c) >= d - k - 1
      BY <3>2 DEF Deep
    <3> HIDE DEF c
    <3>5. k \in 0 .. (d + 1) - 1 /\ Cardinality(n.cur) >= (d + 1) - k - 1
      BY <1>1, <3>3, <3>4
    <3> QED
      BY <1>4, <3>4, <3>5 DEF Deep
  <2> QED
    BY <2>1, <2>2 DEF Waits
<1>9. ASSUME NEW i \in 1 .. Len(l) PROVE IsFiniteSet(l[i].cur) /\ Deep(t, l, i)
  <2>1. CASE i = d + 1
    BY <1>4, <1>8, <2>1
  <2>2. CASE i \in 1 .. d
    <3>1. IsFiniteSet(m[i].cur) /\ l[i] = m[i]
      BY <1>1, <1>3, <1>4, <2>2 DEF Linked
    <3> QED
      BY <1>7, <2>2, <3>1
  <2> QED
    BY <1>1, <1>4, <2>1, <2>2
<1> QED
  BY <1>5, <1>6, <1>9 DEF Linked

\* The call it made has returned, and it becomes f.
LEMMA LinkedReturn ==
  ASSUME NEW g, NEW F, NEW s \in Seq(F), s # <<>>, NEW M, NEW m \in Seq(M),
         NEW f \in F,
         Linked(g, s, m), Len(m) = Len(s) + 1, FrameAt(g, f, m[Len(s)]),
         NEW t, t = WithTop(s, f),
         NEW l, l = Popped(m)
  PROVE  /\ Linked(g, t, l)
         /\ l \in Seq(M) /\ Len(l) = Len(s) /\ l[Len(s)] = m[Len(s)]
<1> DEFINE d == Len(s)
<1>1. d \in Nat /\ d \in 1 .. d /\ Len(m) = d + 1 /\ m # <<>>
  <2>1. d \in Nat /\ d \in 1 .. d
    BY TopProperties
  <2> QED
    BY <2>1
<1>2. /\ l \in Seq(M) /\ Len(l) = d
      /\ \A i \in 1 .. d : l[i] = m[i]
  <2>1. /\ Popped(m) \in Seq(M) /\ Len(Popped(m)) = Len(m) - 1
        /\ \A i \in 1 .. Len(m) - 1 : Popped(m)[i] = m[i]
    BY <1>1, PoppedProperties
  <2>2. Len(m) - 1 = d
    BY <1>1
  <2> HIDE DEF d
  <2> QED
    BY <2>1, <2>2
<1> HIDE DEF d
<1>3. Linked(g, s, l)
  <2>1. \A i \in 1 .. Len(s) : FrameAt(g, s[i], l[i])
    BY <1>2 DEF Linked, d
  <2>2. ASSUME NEW i \in 1 .. Len(l) - 1 PROVE Waits(g, s[i], l[i], l[i + 1])
    <3>1. i \in 1 .. Len(m) - 1 /\ i \in 1 .. d /\ i + 1 \in 1 .. d
      BY <1>1, <1>2
    <3> QED
      BY <1>2, <3>1 DEF Linked
  <2>3. ASSUME NEW i \in 1 .. Len(l) PROVE IsFiniteSet(l[i].cur) /\ Deep(s, l, i)
    <3>1. i \in 1 .. Len(m) /\ i \in 1 .. d
      BY <1>1, <1>2
    <3> QED
      BY <1>2, <3>1 DEF Linked, Deep
  <2> QED
    BY <2>1, <2>2, <2>3 DEF Linked
<1>4. l[d] = m[d]
  BY <1>1, <1>2
<1>5. Linked(g, t, l)
  BY <1>2, <1>3, <1>4, LinkedTop DEF d
<1> QED
  BY <1>2, <1>4, <1>5 DEF d

\* It is left.
LEMMA LinkedPopped ==
  ASSUME NEW g, NEW F, NEW s \in Seq(F), s # <<>>, NEW M, NEW m \in Seq(M),
         Linked(g, s, m), Len(m) = Len(s),
         NEW t, t = Popped(s)
  PROVE  /\ Linked(g, t, m)
         /\ t \in Seq(F) /\ Len(m) = Len(t) + 1
         /\ \A i \in 1 .. Len(t) : t[i] = s[i]
<1> DEFINE d == Len(s)
<1>1. d \in Nat /\ d \in 1 .. d /\ Len(m) = d
  BY TopProperties
<1>2. /\ t \in Seq(F) /\ Len(t) = d - 1
      /\ \A i \in 1 .. d - 1 : t[i] = s[i]
  BY PoppedProperties
<1>3. ASSUME NEW i \in 1 .. Len(t) PROVE FrameAt(g, t[i], m[i])
  <2>1. i \in 1 .. d /\ i \in 1 .. d - 1
    BY <1>1, <1>2
  <2> QED
    BY <1>2, <2>1 DEF Linked
<1>4. ASSUME NEW i \in 1 .. Len(m) - 1 PROVE Waits(g, t[i], m[i], m[i + 1])
  BY <1>1, <1>2 DEF Linked
<1>5. ASSUME NEW i \in 1 .. Len(m) PROVE IsFiniteSet(m[i].cur) /\ Deep(t, m, i)
  <2>1. PICK k \in 0 .. i - 1 :
          (k = 0 \/ s[k].loop = "repair") /\ Cardinality(m[i].cur) >= i - k - 1
    BY DEF Linked, Deep
  <2>2. k # 0 => k \in 1 .. d - 1
    BY <1>1
  <2>3. IsFiniteSet(m[i].cur)
    BY DEF Linked
  <2> QED
    BY <1>2, <2>1, <2>2, <2>3 DEF Deep
<1>6. Len(m) = Len(t) + 1
  BY <1>1, <1>2
<1> QED
  BY <1>2, <1>3, <1>4, <1>5, <1>6 DEF Linked

-----------------------------------------------------------------------------
Now == [cur |-> cur, uncov |-> uncov, cur_list |-> cur_list]

\* An activation goes on when the next step is done.
Live == pc \in {"call", "loop"} \/ (pc = "return" /\ stack # <<>> /\ ~stop_flag)

\* Only the innermost activation that has made a call may have taken a stale
\* edge, and what it calls has nothing to try.
Stales(g, q, next, s, m, p) ==
  \A i \in 1 .. Len(s) : Stale(g, s[i], m[i]) =>
    /\ Barren(g, q, next, s[i].cand, m[i].uncov, m[i].cur)
    /\ i = Len(s) \/ (i = Len(s) - 1 /\ p = "loop" /\ Empty(s[Len(s)]))

ChainOK(m) ==
  /\ Len(m) = IF pc = "loop" THEN Len(stack) ELSE Len(stack) + 1
  /\ m[Len(m)] = Now
  /\ Linked(hyper_graph, stack, m)
  /\ Stales(hyper_graph, method, next_edge, stack, m, pc)

Chain == Live => \E m \in Seq(Members) : ChainOK(m)

\* What a call finds.
CallOK ==
  pc = "call" =>
    /\ args.cand \in SUBSET Vertices(hyper_graph)
    /\ ExactAt(hyper_graph, Now, args.crit)
    /\ args.cand \cap cur = {}
    /\ stack # <<>> => args.cand = stack[Len(stack)].cand
    /\ uncov = {} => \A i \in 1 .. Len(args.crit) : args.crit[i] # {}
    /\ \/ ToSet(cur_list) = cur
       \/ uncov # {}
          /\ Barren(hyper_graph, method, next_edge, args.cand, uncov, cur)

\* A search that goes back makes no call, and has steps left for all the
\* activations since the outermost or one that repairs.
GoesBack ==
  (object.certain /\ Live /\ (found # 0 \/ back_steps # 0)) =>
    /\ pc # "call"
    /\ \E k \in 0 .. Len(stack) :
         /\ k = 0 \/ stack[k].loop = "repair"
         /\ Len(stack) - k <= back_steps
         /\ pc = "loop" => k < Len(stack)

Shape ==
  /\ object \in Objects
  /\ component \in 0 .. Len(sub_graphs)
  /\ cover_index \in Nat
  /\ found \in Nat
  /\ back_steps \in Nat
  /\ stop_flag \in BOOLEAN
  /\ vc_list \in Seq(SUBSET Vertices(object.hyper_graph))
  /\ pc \in {"call", "loop", "return", "done"}
  /\ next_edge \in EdgeIds(object.hyper_graph) \cup {Inherited!NoEdge}
  /\ stack \in Seq(Frames)
  /\ pc # "call" => args = NoArgs
  /\ (pc \in {"call", "loop"} \/ stack # <<>>) => component # 0
  /\ pc = "loop" => stack # <<>> /\ ~stop_flag
  /\ pc = "call" /\ stop_flag => stack = <<>>
  /\ pc = "done" => stack = <<>>

IInv == Shape /\ CallOK /\ Chain /\ GoesBack /\ OnePerSearch

-----------------------------------------------------------------------------
\* The component searched is a hypergraph, part of that of the object.
LEMMA GraphFacts ==
  ASSUME SubGraphsAreComponents, Shape, component # 0
  PROVE  /\ IsHyperGraph(hyper_graph)
         /\ Vertices(hyper_graph) \subseteq Vertices(object.hyper_graph)
         /\ EdgeIds(hyper_graph) \subseteq EdgeIds(object.hyper_graph)
         /\ component \in DOMAIN sub_graphs
         /\ IsFiniteSet(Vertices(hyper_graph))
         /\ NoVertex \notin Vertices(hyper_graph)
         /\ \A S \in SUBSET Vertices(hyper_graph) : IsFiniteSet(S)
<1> DEFINE g == hyper_graph
<1>1. component \in DOMAIN sub_graphs
  BY DEF Shape, SubGraphsAreComponents, AreComponents
<1>2. /\ IsHyperGraph(g) /\ EdgeIds(g) \subseteq EdgeIds(object.hyper_graph)
      /\ \A e \in EdgeIds(g) :
           \E f \in EdgeIds(object.hyper_graph) : g[e] = object.hyper_graph[f]
  BY <1>1 DEF SubGraphsAreComponents, AreComponents, hyper_graph
<1>3. Vertices(g) \subseteq Vertices(object.hyper_graph)
  BY <1>2 DEF Vertices
<1>4. NoVertex \notin Vertices(g) /\ EdgeIds(g) = 0 .. EdgeNum(g) - 1
  BY <1>2, IsHyperGraphProperties
<1>5. Vertices(g) \in SUBSET (0 .. MaxBit - 1)
  BY <1>2, <1>4 DEF IsHyperGraph, Vertices
<1>6. IsFiniteSet(0 .. MaxBit - 1)
  <2>1. 0 \in Int /\ MaxBit - 1 \in Int
    BY DEF MaxBit
  <2> QED
    BY <2>1, FS_Interval
<1>7. IsFiniteSet(Vertices(g))
  BY <1>5, <1>6, FS_Subset
<1>8. \A S \in SUBSET Vertices(g) : IsFiniteSet(S)
  BY <1>7, FS_Subset
<1> QED
  BY <1>1, <1>2, <1>3, <1>4, <1>7, <1>8

LEMMA SameComponent ==
  ASSUME UNCHANGED <<given, component>>
  PROVE  /\ hyper_graph' = hyper_graph /\ method' = method
         /\ Members' = Members /\ Frames' = Frames
         /\ object' = object /\ sub_graphs' = sub_graphs
<1>1. object' = object /\ sub_graphs' = sub_graphs /\ component' = component
  BY DEF given
<1>2. hyper_graph' = hyper_graph /\ method' = method
  BY <1>1 DEF hyper_graph, method
<1>3. Members' = Members
  BY <1>2 DEF Members
<1>4. Frames' = Frames
  BY <1>2, <1>3 DEF Frames, Crits
<1> QED
  BY <1>1, <1>2, <1>3, <1>4

LEMMA InheritedCardinality ==
  ASSUME NEW S PROVE Inherited!Cardinality(S) = Cardinality(S)
BY DEF Inherited!Cardinality, Cardinality

\* The edge GetGoodEdgeToCover returns is one that is not hit, or stale.
LEMMA ChoiceProperties ==
  ASSUME SubGraphsAreComponents, Shape, component # 0,
         uncov \in SUBSET EdgeIds(hyper_graph), uncov # {}, NEW cand,
         NEW choice \in Inherited!GoodEdgesToCover(cand)
  PROVE  /\ choice.next \in EdgeIds(object.hyper_graph) \cup {Inherited!NoEdge}
         /\ \/ choice.edge \in uncov
            \/ /\ cur # {} /\ method \in {"MAX", "PRIORITY"}
               /\ choice.edge = next_edge /\ choice.next = next_edge
               /\ method = "MAX" =>
                    \A e \in uncov : cand \cap hyper_graph[e] = {}
         /\ Barren(hyper_graph, method, next_edge, cand, uncov, cur) =>
              choice.edge = next_edge /\ choice.next = next_edge
<1> DEFINE g == hyper_graph
           E == EdgeIds(g)
           N(e) == Cardinality(cand \cap g[e])
<1>1. /\ E \subseteq Nat /\ IsFiniteSet(E) /\ Cardinality(E) \in Nat
      /\ E = 0 .. Cardinality(E) - 1 /\ uncov \subseteq E
      /\ IsHyperGraph(g) /\ E \subseteq EdgeIds(object.hyper_graph)
  <2>1. IsHyperGraph(g) /\ E \subseteq EdgeIds(object.hyper_graph)
    BY GraphFacts
  <2> HIDE DEF g
  <2>2. /\ IsFiniteSet(EdgeIds(g)) /\ EdgeNum(g) \in Nat
        /\ EdgeIds(g) = 0 .. EdgeNum(g) - 1 /\ EdgeIds(g) \subseteq Nat
    BY <2>1, IsHyperGraphProperties
  <2>3. uncov \subseteq EdgeIds(g)
    BY DEF g
  <2>4. EdgeNum(g) = Cardinality(EdgeIds(g))
    BY DEF EdgeNum
  <2> HIDE DEF E
  <2> QED
    BY <2>1, <2>2, <2>3, <2>4 DEF E
<1>2. \A S \in SUBSET uncov : S # {} => Least(S) \in S
  <2> TAKE S \in SUBSET uncov
  <2>1. S \in SUBSET Nat
    BY <1>1
  <2> QED
    BY <2>1, LeastProperties
<1>3. method \in {"ORDER", "RANDOM", "MIN", "MAX", "PRIORITY"}
  BY ObjectsAssumption DEF Shape, IsObject, method
<1>m. MaxBit \in Nat
  BY DEF MaxBit
<1>4. \A e \in uncov : N(e) \in 0 .. MaxBit /\ (N(e) = 0 <=> cand \cap g[e] = {})
  <2> TAKE e \in uncov
  <2>1. e \in E
    BY <1>1
  <2>2. N(e) \in 0 .. MaxBit /\ (N(e) = 0 <=> g[e] \cap cand = {})
    BY <1>1, <2>1, CandidateCount
  <2> QED
    BY <2>2
<1>5. CASE method = "ORDER"
  <2>1. choice.edge = Least(uncov) /\ choice.next = Least(uncov)
    BY <1>5 DEF Inherited!GoodEdgesToCover, Inherited!Choice,
                Inherited!Least, Least
  <2>2. Least(uncov) \in uncov
    BY <1>2
  <2> QED
    BY <1>1, <1>5, <2>1, <2>2 DEF Barren
<1>6. CASE method = "RANDOM" \/ (method # "ORDER" /\ cur = {})
  <2>1. PICK e \in uncov :
          choice.edge = e /\ choice.next = Cardinality({f \in uncov : f < e})
    <3>1. choice \in Inherited!RandomChoices
      BY <1>6 DEF Inherited!GoodEdgesToCover
    <3> QED
      BY <3>1, InheritedCardinality DEF Inherited!RandomChoices, Inherited!Choice
  <2> DEFINE before == {f \in uncov : f < e}
  <2>2. e \in E /\ e \in Nat /\ before \in SUBSET (E \ {e})
    BY <1>1
  <2>3. IsFiniteSet(E \ {e}) /\ Cardinality(E \ {e}) = Cardinality(E) - 1
    BY <1>1, <2>2, FS_RemoveElement
  <2>4. /\ IsFiniteSet(before)
        /\ Cardinality(before) <= Cardinality(E \ {e})
    BY <2>2, <2>3, FS_Subset
  <2>5. Cardinality(before) \in Nat
    BY <2>4, FS_CardinalityType
  <2>6. Cardinality(before) \in 0 .. Cardinality(E) - 1
    BY <1>1, <2>3, <2>4, <2>5
  <2>7. choice.next \in EdgeIds(object.hyper_graph)
    BY <1>1, <2>1, <2>6
  <2> QED
    BY <1>6, <2>1, <2>7 DEF Barren
<1>7. CASE method \in {"MIN", "MAX", "PRIORITY"} /\ cur # {}
  <2> DEFINE best == CASE method = "MIN" -> Inherited!FewestCand(cand)
                       [] method = "MAX" -> Inherited!MostCand(cand)
                       [] OTHER -> {}
             edge == IF best = {} THEN next_edge ELSE Least(best)
  <2>1. best \in SUBSET uncov
    BY DEF Inherited!FewestCand, Inherited!MostCand
  <2>2. choice.edge = edge /\ choice.next = edge
    <3>1. choice = Inherited!ScanChoice(cand)
      BY <1>7 DEF Inherited!GoodEdgesToCover
    <3>2. Inherited!ScanChoice(cand) = [edge |-> edge, next |-> edge]
      BY DEF Inherited!ScanChoice, Inherited!Choice, Inherited!Least, Least
    <3> QED
      BY <3>1, <3>2
  <2>3. best # {} => edge \in uncov
    <3> HIDE DEF best
    <3> QED
      BY <1>2, <2>1
  <2>4. choice.next \in EdgeIds(object.hyper_graph) \cup {Inherited!NoEdge}
    <3> HIDE DEF best
    <3> QED
      BY <1>1, <2>2, <2>3 DEF Shape
  <2>5. method = "MIN" => best # {}
    <3> SUFFICES ASSUME method = "MIN" PROVE best # {}
      OBVIOUS
    <3> DEFINE F == [e \in uncov |-> N(e)]
    <3>1. F \in [uncov -> Nat]
      BY <1>4, <1>m
    <3>2. PICK x \in uncov : \A y \in uncov : F[x] <= F[y]
      <4> HIDE DEF F
      <4> QED
        BY <3>1, CheapestExists
    <3>3. \A y \in uncov : N(x) <= N(y)
      BY <3>2
    <3>4. best = Inherited!FewestCand(cand)
      OBVIOUS
    <3> HIDE DEF best, F
    <3>5. x \in best
      BY <3>3, <3>4, InheritedCardinality
         DEF Inherited!FewestCand, Inherited!CandNum
    <3> QED
      BY <3>5
  <2>6. method = "MAX" => (best = {} <=> \A e \in uncov : cand \cap g[e] = {})
    <3> SUFFICES ASSUME method = "MAX"
                 PROVE  best = {} <=> \A e \in uncov : cand \cap g[e] = {}
      OBVIOUS
    <3>1. best = Inherited!MostCand(cand)
      OBVIOUS
    <3> HIDE DEF best
    <3> DEFINE F == [e \in uncov |-> N(e)]
    <3>2. F \in [uncov -> 0 .. MaxBit]
      BY <1>4
    <3>3. PICK x \in uncov : \A y \in uncov : F[x] >= F[y]
      <4> HIDE DEF F
      <4> QED
        BY <1>m, <3>2, DearestExists
    <3>4. \A y \in uncov : N(x) >= N(y)
      BY <3>3
    <3>5. x \in best <=> N(x) > 0
      <4> HIDE DEF F
      <4> QED
        BY <3>1, <3>4, InheritedCardinality
           DEF Inherited!MostCand, Inherited!CandNum
    <3>6. \A e \in best : e \in uncov /\ N(e) > 0
      <4> HIDE DEF F
      <4> QED
        BY <3>1, InheritedCardinality
           DEF Inherited!MostCand, Inherited!CandNum
    <3> HIDE DEF N, F
    <3>7. best = {} <=> \A e \in uncov : N(e) = 0
      BY <1>4, <1>m, <3>4, <3>5, <3>6
    <3> QED
      BY <1>4, <3>7
  <2>7. method = "PRIORITY" => best = {}
    OBVIOUS
  <2> HIDE DEF best
  <2> QED
    BY <1>7, <2>2, <2>3, <2>4, <2>5, <2>6, <2>7 DEF Barren
<1> QED
  BY <1>3, <1>5, <1>6, <1>7

-----------------------------------------------------------------------------
(***************************************************************************)
(* Every step of a search keeps the invariant.                             *)
(***************************************************************************)
LEMMA ChainNext ==
  ASSUME UNCHANGED <<given, component>>, NEW m \in Seq(Members),
         Len(m) = IF pc' = "loop" THEN Len(stack') ELSE Len(stack') + 1,
         m[Len(m)] = Now',
         Linked(hyper_graph, stack', m),
         Stales(hyper_graph, method, next_edge', stack', m, pc')
  PROVE  Chain'
<1>1. ChainOK(m)'
  BY SameComponent DEF ChainOK
<1>2. m \in Seq(Members')
  BY SameComponent
<1> QED
  BY <1>1, <1>2 DEF Chain

\* The members, if they are exact, and a frame, have their types.
LEMMA NowTyped ==
  ASSUME NEW m, NEW K, ExactAt(hyper_graph, m, K),
         m = [cur |-> m.cur, uncov |-> m.uncov, cur_list |-> m.cur_list]
  PROVE  m \in Members
<1> DEFINE V == Vertices(hyper_graph)
           E == EdgeIds(hyper_graph)
<1>1. m.cur \in SUBSET V /\ m.cur_list \in Seq(V) /\ m.uncov \in SUBSET E
  BY DEF ExactAt, Uncovered
<1>2. m \in [cur : SUBSET V, uncov : SUBSET E, cur_list : Seq(V)]
  <2> HIDE DEF V, E
  <2> QED
    BY <1>1
<1> QED
  BY <1>2 DEF Members

LEMMA ExpandInv ==
  ASSUME SubGraphsAreComponents, IInv, Expand
  PROVE  IInv'
<1> DEFINE g == hyper_graph
           d == Len(stack)
<1>1. /\ pc = "call" /\ ~stop_flag /\ uncov # {} /\ component # 0 /\ Live
      /\ pc' = "loop" /\ args' = NoArgs
      /\ UNCHANGED <<given, place, chosen, back_steps, stop_flag, results>>
      /\ stack \in Seq(Frames) /\ d \in Nat
  BY DEF Expand, IInv, Shape, Live
<1>2. PICK m \in Seq(Members) : ChainOK(m)
  BY <1>1 DEF IInv, Chain
<1>3. PICK choice \in Inherited!GoodEdgesToCover(args.cand) :
        LET c == args.cand \cap hyper_graph[choice.edge]
        IN /\ next_edge' = choice.next
           /\ stack' = Append(stack,
                         [cand |-> args.cand \ c, c |-> c, todo |-> c,
                          crit |-> args.crit, loop |-> "untried",
                          v |-> NoVertex, back |-> {}, old |-> NoMembers])
  BY DEF Expand
<1> DEFINE c == args.cand \cap g[choice.edge]
           f == [cand |-> args.cand \ c, c |-> c, todo |-> c,
                 crit |-> args.crit, loop |-> "untried",
                 v |-> NoVertex, back |-> {}, old |-> NoMembers]
<1>4. /\ args.cand \in SUBSET Vertices(g)
      /\ ExactAt(g, Now, args.crit)
      /\ args.cand \cap cur = {}
      /\ d # 0 => args.cand = stack[d].cand
      /\ ToSet(cur_list) = cur
           \/ Barren(g, method, next_edge, args.cand, uncov, cur)
      /\ args.crit \in Seq(SUBSET EdgeIds(g))
      /\ uncov \in SUBSET EdgeIds(g)
  <2>1. CallOK /\ (d # 0 => stack # <<>>)
    BY DEF IInv
  <2>2. ExactAt(g, Now, args.crit)
    BY <1>1, <2>1 DEF CallOK
  <2>3. args.crit \in Seq(SUBSET EdgeIds(g)) /\ uncov \in SUBSET EdgeIds(g)
    BY <2>2 DEF ExactAt, Now, Uncovered
  <2> QED
    BY <1>1, <2>1, <2>2, <2>3 DEF CallOK
<1>5. /\ choice.next \in EdgeIds(object.hyper_graph) \cup {Inherited!NoEdge}
      /\ \/ choice.edge \in uncov
         \/ /\ cur # {} /\ method \in {"MAX", "PRIORITY"}
            /\ choice.edge = next_edge /\ choice.next = next_edge
            /\ method = "MAX" => \A e \in uncov : args.cand \cap g[e] = {}
      /\ Barren(g, method, next_edge, args.cand, uncov, cur) =>
           choice.edge = next_edge /\ choice.next = next_edge
  <2>1. PICK cand : cand = args.cand
    OBVIOUS
  <2>2. choice \in Inherited!GoodEdgesToCover(cand)
    BY <2>1
  <2>3. Shape
    BY DEF IInv
  <2> QED
    BY <1>1, <1>4, <2>1, <2>2, <2>3, ChoiceProperties
<1>6. f \in Frames /\ f.c = c /\ f.cand = args.cand \ c /\ f.loop = "untried"
      /\ f.todo = c /\ f.crit = args.crit
  <2>1. NoMembers \in Members
    BY DEF Members
  <2>2. f \in Frames
    BY <1>4, <2>1 DEF Frames, Crits
  <2> QED
    BY <2>2
<1>7. stack' = Append(stack, f) /\ next_edge' = choice.next
  BY <1>3
<1> HIDE DEF f
<1>8. /\ stack' \in Seq(Frames) /\ Len(stack') = d + 1 /\ stack'[d + 1] = f
      /\ \A i \in 1 .. d : stack'[i] = stack[i]
      /\ stack' # <<>>
  BY <1>1, <1>6, <1>7, PushProperties
<1>9. Barren(g, method, next_edge, args.cand, uncov, cur) => c = {}
  BY <1>5 DEF Barren
<1>10. FrameAt(g, f, Now)
  <2>1. c # {} => ToSet(cur_list) = cur
    BY <1>4, <1>9
  <2> QED
    BY <1>1, <1>4, <1>6, <2>1 DEF FrameAt, Now
<1>11. /\ Len(m) = d + 1 /\ m[d + 1] = Now /\ Linked(g, stack, m)
       /\ Stales(g, method, next_edge, stack, m, "call")
  BY <1>1, <1>2 DEF ChainOK
<1>12. Linked(g, stack', m)
  <2> HIDE DEF g
  <2> QED
    BY <1>1, <1>6, <1>7, <1>10, <1>11, LinkedPushed
<1>13. Stales(g, method, next_edge', stack', m, "loop")
  <2> SUFFICES ASSUME NEW i \in 1 .. d + 1, Stale(g, stack'[i], m[i])
               PROVE  /\ Barren(g, method, next_edge', stack'[i].cand,
                                m[i].uncov, m[i].cur)
                      /\ i = d + 1 \/ (i = d /\ Empty(f))
    BY <1>8 DEF Stales
  <2>1. CASE i = d + 1
    <3>1. choice.edge \notin uncov
      BY <1>6, <1>8, <1>11, <2>1 DEF Stale, Edged, Now
    <3>2. Barren(g, method, next_edge', f.cand, uncov, cur)
      BY <1>5, <1>6, <1>7, <3>1 DEF Barren
    <3> QED
      BY <1>8, <1>11, <2>1, <3>2 DEF Now
  <2>2. CASE i \in 1 .. d
    <3>1. i = d /\ Barren(g, method, next_edge, stack[i].cand, m[i].uncov, m[i].cur)
      BY <1>8, <1>11, <2>2 DEF Stales
    <3>2. d # 0 /\ Waits(g, stack[d], m[d], m[d + 1]) /\ Stale(g, stack[d], m[d])
      BY <1>1, <1>8, <1>11, <2>2, <3>1 DEF Linked
    <3>3. uncov \subseteq m[d].uncov /\ cur # {}
      BY <1>11, <3>2 DEF Stale, Waits, Now
    <3>4. Barren(g, method, next_edge, args.cand, uncov, cur)
      BY <1>4, <3>1, <3>2, <3>3 DEF Barren
    <3>5. next_edge' = next_edge /\ Empty(f)
      BY <1>5, <1>6, <1>7, <1>9, <3>4 DEF Empty
    <3> QED
      BY <1>8, <3>1, <3>5
  <2> QED
    BY <2>1, <2>2
<1>14. Chain'
  <2>1. UNCHANGED <<given, component>> /\ Now' = Now
    BY <1>1 DEF place, chosen, Now
  <2> QED
    BY <1>1, <1>6, <1>8, <1>11, <1>12, <1>13, <2>1, ChainNext
<1>15. Shape'
  <2>1. Frames' = Frames /\ object' = object /\ sub_graphs' = sub_graphs
    BY <1>1, SameComponent DEF place
  <2>2. next_edge' \in EdgeIds(object.hyper_graph) \cup {Inherited!NoEdge}
    BY <1>5, <1>7
  <2> QED
    BY <1>1, <1>8, <2>1, <2>2 DEF IInv, Shape, place, results
<1>16. CallOK'
  BY <1>1 DEF CallOK
<1>17. GoesBack'
  <2>1. object' = object /\ found' = found /\ back_steps' = back_steps
    BY <1>1 DEF given, results
  <2> QED
    BY <1>1, <2>1 DEF IInv, GoesBack
<1>18. OnePerSearch'
  BY <1>1 DEF IInv, OnePerSearch, given, results
<1> QED
  BY <1>14, <1>15, <1>16, <1>17, <1>18 DEF IInv

\* What is known where an activation runs.
LEMMA LoopFacts ==
  ASSUME SubGraphsAreComponents, IInv, pc = "loop"
  PROVE  /\ stack \in Seq(Frames) /\ stack # <<>> /\ Len(stack) \in Nat
         /\ Len(stack) \in 1 .. Len(stack)
         /\ active = stack[Len(stack)] /\ active \in Frames
         /\ component # 0 /\ Live /\ ~stop_flag /\ args = NoArgs
         /\ \E m \in Seq(Members) : ChainOK(m)
         /\ FrameAt(hyper_graph, active, Now)
<1>1. /\ stack \in Seq(Frames) /\ stack # <<>>
      /\ component # 0 /\ Live /\ ~stop_flag /\ args = NoArgs
  BY DEF IInv, Shape, Live
<1>2. /\ Len(stack) \in 1 .. Len(stack) /\ Len(stack) \in Nat
      /\ active = stack[Len(stack)] /\ active \in Frames
  BY <1>1, TopProperties DEF active
<1>3. PICK m \in Seq(Members) : ChainOK(m)
  BY <1>1 DEF IInv, Chain
<1>4. Len(m) = Len(stack) /\ m[Len(m)] = Now /\ Linked(hyper_graph, stack, m)
  BY <1>2, <1>3 DEF ChainOK
<1>5. FrameAt(hyper_graph, active, Now)
  BY <1>2, <1>4 DEF Linked
<1> QED
  BY <1>1, <1>2, <1>3, <1>4, <1>5

\* The innermost activation changes, and nothing else.
LEMMA TopChanged ==
  ASSUME SubGraphsAreComponents, IInv, pc = "loop",
         NEW f, f \in Frames, stack' = WithTop(stack, f),
         FrameAt(hyper_graph, f, Now), ~Empty(active),
         f.c = active.c, f.cand = active.cand,
         f.loop = active.loop \/ (active.loop = "untried" /\ f.loop = "repair"),
         UNCHANGED <<given, place, chosen, next_edge, back_steps, stop_flag, pc,
                     args, results>>
  PROVE  IInv'
<1> DEFINE g == hyper_graph
           d == Len(stack)
<1>1. /\ stack \in Seq(Frames) /\ stack # <<>> /\ d \in Nat /\ d \in 1 .. d
      /\ active = stack[d] /\ active \in Frames
      /\ component # 0 /\ Live /\ ~stop_flag
      /\ \E m \in Seq(Members) : ChainOK(m)
  BY LoopFacts
<1>2. PICK m \in Seq(Members) : ChainOK(m)
  BY <1>1
<1>3. PICK s \in Seq(Frames), h \in Frames : s = stack /\ h = f
  BY <1>1
<1>4. /\ stack' \in Seq(Frames) /\ Len(stack') = d /\ stack'[d] = f
      /\ \A i \in 1 .. d - 1 : stack'[i] = stack[i]
      /\ stack' # <<>>
  <2>1. /\ WithTop(s, h) \in Seq(Frames) /\ Len(WithTop(s, h)) = Len(s)
        /\ WithTop(s, h)[Len(s)] = h
        /\ \A i \in 1 .. Len(s) - 1 : WithTop(s, h)[i] = s[i]
        /\ WithTop(s, h) # <<>>
    <3>1. s # <<>>
      BY <1>1, <1>3
    <3> QED
      BY ONLY <3>1, WithTopProperties
  <2> QED
    BY <1>3, <2>1
<1>5. /\ Len(m) = d /\ m[d] = Now /\ Linked(g, stack, m)
      /\ Stales(g, method, next_edge, stack, m, "loop")
  BY <1>2 DEF ChainOK
<1>6. Linked(g, stack', m)
  <2> HIDE DEF g
  <2> QED
    BY <1>1, <1>5, LinkedTop DEF g
<1>7. Stales(g, method, next_edge', stack', m, "loop")
  <2> SUFFICES ASSUME NEW i \in 1 .. d, Stale(g, stack'[i], m[i])
               PROVE  /\ Barren(g, method, next_edge, stack'[i].cand,
                                m[i].uncov, m[i].cur)
                      /\ i = d
    BY <1>4 DEF Stales
  <2>1. Stale(g, stack[i], m[i]) /\ stack'[i].cand = stack[i].cand
    <3>1. CASE i = d
      BY <1>1, <1>4, <3>1 DEF Stale, Edged
    <3>2. CASE i \in 1 .. d - 1
      BY <1>4, <3>2
    <3> QED
      BY <1>1, <3>1, <3>2
  <2>2. /\ Barren(g, method, next_edge, stack[i].cand, m[i].uncov, m[i].cur)
        /\ i = d \/ Empty(stack[d])
    BY <1>5, <2>1 DEF Stales
  <2> QED
    BY <1>1, <2>1, <2>2
<1>8. Chain'
  <2>1. UNCHANGED <<given, component>> /\ Now' = Now /\ pc' = "loop"
    BY DEF place, chosen, Now
  <2> QED
    BY <1>4, <1>5, <1>6, <1>7, <2>1, ChainNext
<1>9. Shape'
  <2>1. Frames' = Frames /\ object' = object /\ sub_graphs' = sub_graphs
    BY SameComponent DEF place
  <2> QED
    BY <1>1, <1>4, <2>1 DEF IInv, Shape, place, results
<1>10. CallOK'
  BY DEF CallOK
<1>11. GoesBack'
  <2> SUFFICES ASSUME object.certain, found # 0 \/ back_steps # 0
               PROVE  \E k \in 0 .. d :
                        /\ k = 0 \/ stack'[k].loop = "repair"
                        /\ d - k <= back_steps
                        /\ k < d
    BY <1>4 DEF GoesBack, given, results
  <2>1. PICK k \in 0 .. d :
          /\ k = 0 \/ stack[k].loop = "repair"
          /\ d - k <= back_steps
          /\ k < d
    BY <1>1 DEF IInv, GoesBack
  <2>2. k # 0 => k \in 1 .. d - 1
    BY <1>1, <2>1
  <2> QED
    BY <1>4, <2>1, <2>2
<1>12. OnePerSearch'
  BY DEF IInv, OnePerSearch, given, results
<1> QED
  BY <1>8, <1>9, <1>10, <1>11, <1>12 DEF IInv

\* Where a vertex would violate, some vertex has been chosen.
LEMMA SkipInv ==
  ASSUME SubGraphsAreComponents, IInv, Skip
  PROVE  IInv'
<1> DEFINE g == hyper_graph
<1>1. /\ pc = "loop" /\ active.loop \in {"untried", "tried"}
      /\ UNCHANGED <<given, place, chosen, next_edge, back_steps, stop_flag, pc,
                     args, results>>
  BY DEF Skip, Trying
<1>2. PICK v \in active.todo :
        /\ VertexWouldViolate(g, active.crit, v)
        /\ stack' = WithTop(stack, [active EXCEPT !.todo = @ \ {v}])
  BY DEF Skip
<1> DEFINE f == [active EXCEPT !.todo = @ \ {v}]
<1>3. active \in Frames /\ FrameAt(g, active, Now)
  BY <1>1, LoopFacts
<1>4. /\ f \in Frames /\ f.todo = active.todo \ {v}
      /\ f.cand = active.cand /\ f.c = active.c /\ f.loop = active.loop
      /\ f.crit = active.crit
  BY <1>3 DEF Frames
<1>5. cur # {}
  <2>1. PICK i \in 1 .. Len(active.crit) : active.crit[i] \ VertexHitting(g, v) = {}
    BY <1>2 DEF VertexWouldViolate
  <2>2. cur_list[i] \in cur
    BY <1>3 DEF FrameAt, ExactAt, Now
  <2> QED
    BY <2>2
<1>6. FrameAt(g, f, Now)
  <2> HIDE DEF f
  <2> QED
    BY <1>3, <1>4, <1>5 DEF FrameAt, Now
<1>7. ~Empty(active)
  BY DEF Empty
<1> HIDE DEF f
<1>8. stack' = WithTop(stack, f)
  BY <1>2 DEF f
<1> QED
  BY <1>1, <1>4, <1>6, <1>7, <1>8, TopChanged

LEMMA StartRepairInv ==
  ASSUME SubGraphsAreComponents, IInv, StartRepair
  PROVE  IInv'
<1> DEFINE g == hyper_graph
           f == [active EXCEPT !.todo = active.c, !.loop = "repair"]
<1>1. /\ pc = "loop" /\ active.loop = "untried"
      /\ active.todo = {} /\ active.c # {}
      /\ stack' = WithTop(stack, f)
      /\ UNCHANGED <<given, place, chosen, next_edge, back_steps, stop_flag, pc,
                     args, results>>
  BY DEF StartRepair
<1>2. active \in Frames /\ FrameAt(g, active, Now)
  BY <1>1, LoopFacts
<1>3. /\ f \in Frames /\ f.todo = active.c /\ f.loop = "repair"
      /\ f.cand = active.cand /\ f.c = active.c
      /\ f.crit = active.crit
  BY <1>2 DEF Frames
<1> HIDE DEF f
<1>4. FrameAt(g, f, Now)
  BY <1>1, <1>2, <1>3 DEF FrameAt, Now
<1>5. ~Empty(active)
  BY <1>1 DEF Empty
<1> QED
  BY <1>1, <1>3, <1>4, <1>5, TopChanged

-----------------------------------------------------------------------------
\* The innermost activation is left; what remains of the way back outlasts
\* the others.
LEMMA PopInv ==
  ASSUME SubGraphsAreComponents, IInv, pc = "loop", pc' = "return",
         stack' = Popped(stack),
         back_steps' \in Nat,
         found # 0 \/ back_steps' # 0 => found # 0 \/ back_steps # 0,
         \A k \in 0 .. Len(stack) - 1 :
           Len(stack) - k <= back_steps => Len(stack) - 1 - k <= back_steps',
         UNCHANGED <<given, place, chosen, next_edge, stop_flag, args, results>>
  PROVE  IInv'
<1> DEFINE g == hyper_graph
           d == Len(stack)
<1>1. /\ stack \in Seq(Frames) /\ stack # <<>> /\ d \in Nat /\ d \in 1 .. d
      /\ component # 0 /\ Live /\ ~stop_flag /\ args = NoArgs
      /\ \E m \in Seq(Members) : ChainOK(m)
  BY LoopFacts
<1>2. PICK m \in Seq(Members) : ChainOK(m)
  BY <1>1
<1>3. /\ Len(m) = d /\ m[d] = Now /\ Linked(g, stack, m)
      /\ Stales(g, method, next_edge, stack, m, "loop")
  BY <1>2 DEF ChainOK
<1>4. /\ stack' \in Seq(Frames) /\ Len(stack') = d - 1
      /\ \A i \in 1 .. d - 1 : stack'[i] = stack[i]
  BY <1>1, PoppedProperties
<1>5. Linked(g, stack', m)
  <2> HIDE DEF g
  <2> QED
    BY <1>1, <1>3, LinkedPopped DEF g
<1>6. Stales(g, method, next_edge', stack', m, "return")
  <2> SUFFICES ASSUME NEW i \in 1 .. d - 1, Stale(g, stack'[i], m[i])
               PROVE  /\ Barren(g, method, next_edge, stack'[i].cand,
                                m[i].uncov, m[i].cur)
                      /\ i = d - 1
    BY <1>4 DEF Stales
  <2>1. i \in 1 .. d /\ i # d /\ stack'[i] = stack[i]
    BY <1>1, <1>4
  <2> QED
    BY <1>3, <2>1 DEF Stales
<1>7. Chain'
  <2>1. UNCHANGED <<given, component>> /\ Now' = Now
    BY DEF place, chosen, Now
  <2>2. Len(m) = Len(stack') + 1 /\ m[Len(m)] = Now'
    BY <1>1, <1>3, <1>4, <2>1
  <2> QED
    BY <1>4, <1>5, <1>6, <2>1, <2>2, ChainNext
<1>8. Shape'
  <2>1. Frames' = Frames /\ object' = object /\ sub_graphs' = sub_graphs
    BY SameComponent DEF place
  <2> QED
    BY <1>1, <1>4, <2>1 DEF IInv, Shape, place, results
<1>9. CallOK'
  BY DEF CallOK
<1>10. GoesBack'
  <2> SUFFICES ASSUME object.certain, found # 0 \/ back_steps' # 0
               PROVE  \E k \in 0 .. d - 1 :
                        /\ k = 0 \/ stack'[k].loop = "repair"
                        /\ d - 1 - k <= back_steps'
    BY <1>4 DEF GoesBack, given, results
  <2>1. PICK k \in 0 .. d :
          /\ k = 0 \/ stack[k].loop = "repair"
          /\ d - k <= back_steps
          /\ k < d
    BY <1>1 DEF IInv, GoesBack
  <2>2. k \in 0 .. d - 1 /\ (k # 0 => k \in 1 .. d - 1)
    BY <1>1, <2>1
  <2> QED
    BY <1>4, <2>1, <2>2
<1>11. OnePerSearch'
  BY DEF IInv, OnePerSearch, given, results
<1> QED
  BY <1>7, <1>8, <1>9, <1>10, <1>11 DEF IInv

LEMMA BackOutInv ==
  ASSUME SubGraphsAreComponents, IInv, BackOut
  PROVE  IInv'
<1> DEFINE d == Len(stack)
<1>1. /\ pc = "loop" /\ pc' = "return" /\ stack' = Popped(stack)
      /\ back_steps' = back_steps
      /\ UNCHANGED <<given, place, chosen, next_edge, stop_flag, args, results>>
  BY DEF BackOut, Trying
<1>2. d \in Nat /\ back_steps \in Nat
  BY <1>1, LoopFacts DEF IInv, Shape
<1>3. \A k \in 0 .. d - 1 : d - k <= back_steps => d - 1 - k <= back_steps'
  <2> HIDE DEF d
  <2> QED
    BY <1>1, <1>2
<1> QED
  BY <1>1, <1>2, <1>3, PopInv

LEMMA LeaveInv ==
  ASSUME SubGraphsAreComponents, IInv, Leave
  PROVE  IInv'
<1> DEFINE d == Len(stack)
<1>1. /\ pc = "loop" /\ pc' = "return" /\ stack' = Popped(stack)
      /\ back_steps' = IF back_steps = 0 THEN 0 ELSE back_steps - 1
      /\ UNCHANGED <<given, place, chosen, next_edge, stop_flag, args, results>>
  BY DEF Leave
<1>2. d \in Nat /\ back_steps \in Nat
  BY <1>1, LoopFacts DEF IInv, Shape
<1>3. \A k \in 0 .. d - 1 : d - k <= back_steps => d - 1 - k <= back_steps'
  <2> HIDE DEF d
  <2> QED
    BY <1>1, <1>2
<1>4. back_steps' \in Nat /\ (back_steps' # 0 => back_steps # 0)
  BY <1>1, <1>2
<1> QED
  BY <1>1, <1>3, <1>4, PopInv

-----------------------------------------------------------------------------
LEMMA StepsBackProperties ==
  ASSUME Shape, NEW n \in Nat
  PROVE  /\ StepsBack(n) \subseteq Nat
         /\ object.certain => StepsBack(n) = {n}
<1>1. object.share \in 0 .. 100 /\ object.certain \in BOOLEAN
  BY ObjectsAssumption DEF Shape, IsObject
<1>2. CASE object.certain
  BY <1>2 DEF StepsBack
<1>3. CASE ~object.certain
  <2> DEFINE steps == (object.share * n) \div 100
             top == (IF steps > 1 THEN steps ELSE 1) - 1
  <2>1. object.share * n \in Nat
    BY <1>1
  <2>2. steps \in Int
    <3> HIDE DEF steps
    <3> QED
      BY <2>1 DEF steps
  <2>3. top \in Int
    <3> HIDE DEF steps
    <3> QED
      BY <2>2
  <2>4. StepsBack(n) = 0 .. top
    BY <1>3 DEF StepsBack
  <2> HIDE DEF top
  <2> QED
    BY <1>3, <2>3, <2>4
<1> QED
  BY <1>1, <1>2, <1>3

\* Once the search is stopped the activations only return.
LEMMA StoppedInv ==
  ASSUME SubGraphsAreComponents, IInv, EnterStopped \/ ReturnStopped
  PROVE  IInv'
<1>1. CASE EnterStopped
  <2>1. /\ pc = "call" /\ stop_flag /\ stack = <<>> /\ component # 0
        /\ pc' = "return" /\ args' = NoArgs
        /\ UNCHANGED <<given, place, chosen, next_edge, back_steps, stop_flag,
                       stack, results>>
    BY <1>1 DEF EnterStopped, IInv, Shape
  <2>2. Frames' = Frames /\ object' = object /\ sub_graphs' = sub_graphs
    BY <2>1, SameComponent DEF place
  <2>3. Shape'
    BY <2>1, <2>2 DEF IInv, Shape, place, results
  <2>4. CallOK' /\ Chain' /\ GoesBack'
    BY <2>1 DEF CallOK, Chain, GoesBack, Live
  <2>5. OnePerSearch'
    BY <2>1 DEF IInv, OnePerSearch, given, results
  <2> QED
    BY <2>3, <2>4, <2>5 DEF IInv
<1>2. CASE ReturnStopped
  <2>1. /\ pc = "return" /\ stop_flag /\ stack # <<>> /\ component # 0
        /\ stack' = Popped(stack) /\ stack \in Seq(Frames)
        /\ UNCHANGED <<given, place, chosen, next_edge, back_steps, stop_flag,
                       pc, args, results>>
    BY <1>2 DEF ReturnStopped, IInv, Shape
  <2>2. Frames' = Frames /\ object' = object /\ sub_graphs' = sub_graphs
    BY <2>1, SameComponent DEF place
  <2>3. stack' \in Seq(Frames)
    BY <2>1, PoppedProperties
  <2>4. Shape'
    BY <2>1, <2>2, <2>3 DEF IInv, Shape, place, results
  <2>5. CallOK' /\ Chain' /\ GoesBack'
    BY <2>1 DEF CallOK, Chain, GoesBack, Live
  <2>6. OnePerSearch'
    BY <2>1 DEF IInv, OnePerSearch, given, results
  <2> QED
    BY <2>4, <2>5, <2>6 DEF IInv
<1> QED
  BY <1>1, <1>2

\* What RunDiverse_ finds every edge hit with is a minimal hitting set.
LEMMA FoundMinimal ==
  ASSUME SubGraphsAreComponents, IInv, pc = "call", ~stop_flag, uncov = {}
  PROVE  IsMinimalHittingSet(hyper_graph, cur)
<1> DEFINE g == hyper_graph
<1>1. /\ ExactAt(g, Now, args.crit) /\ ToSet(cur_list) = cur
      /\ \A i \in 1 .. Len(args.crit) : args.crit[i] # {}
  BY DEF IInv, CallOK
<1>2. /\ cur \subseteq Vertices(g) /\ Uncovered(g, cur) = {}
      /\ cur_list \in Seq(Vertices(g)) /\ Len(args.crit) = Len(cur_list)
      /\ \A i \in 1 .. Len(args.crit) :
           args.crit[i] = Critical(g, cur, cur_list[i])
  BY <1>1 DEF ExactAt, Now
<1>3. \A u \in cur : Critical(g, cur, u) # {}
  <2> TAKE u \in cur
  <2>1. DOMAIN cur_list = 1 .. Len(cur_list)
    BY <1>2
  <2>2. PICK i \in 1 .. Len(cur_list) : cur_list[i] = u
    BY <1>1, <2>1 DEF ToSet
  <2> QED
    BY <1>1, <1>2, <2>2
<1> HIDE DEF g
<1> QED
  BY <1>2, <1>3, CriticalMinimal DEF g

\* A search that records a cover has recorded one.
LEMMA FoundCounted ==
  ASSUME IInv, Found
  PROVE  found' # 0
<1>1. found \in Nat /\ found' = found + 1
  BY DEF Found, IInv, Shape
<1> QED
  BY <1>1

LEMMA FoundInv ==
  ASSUME SubGraphsAreComponents, IInv, Found
  PROVE  IInv'
<1> DEFINE g == hyper_graph
           d == Len(stack)
           n == Cardinality(cur)
           V == Vertices(object.hyper_graph)
           slots == IF object.is_auto_inc /\ cover_index = Len(vc_list)
                    THEN Append(vc_list, {}) ELSE vc_list
<1>1. /\ pc = "call" /\ ~stop_flag /\ uncov = {} /\ component # 0 /\ Live
      /\ pc' = "return" /\ args' = NoArgs
      /\ UNCHANGED <<given, component, chosen, next_edge, stack, output>>
      /\ cover_index < Len(slots)
      /\ vc_list' = [slots EXCEPT ![cover_index + 1] = @ \cup cur]
      /\ back_steps' \in StepsBack(n) /\ found' = found + 1
      /\ stack \in Seq(Frames) /\ d \in Nat
  BY DEF Found, IInv, Shape, Live
<1>2. /\ Frames' = Frames /\ object' = object /\ sub_graphs' = sub_graphs
      /\ hyper_graph' = hyper_graph /\ method' = method /\ Now' = Now
  BY <1>1, SameComponent DEF chosen, Now
<1>3. cur \in SUBSET Vertices(g) /\ IsFiniteSet(cur) /\ n \in Nat /\ cur \in SUBSET V
  <2>1. cur \in SUBSET Vertices(g)
    BY <1>1 DEF IInv, CallOK, ExactAt, Now
  <2>2. IsFiniteSet(cur) /\ Vertices(g) \subseteq V
    BY <1>1, <2>1, GraphFacts DEF IInv
  <2> QED
    BY <2>1, <2>2, FS_CardinalityType
<1>4. back_steps' \in Nat /\ (object.certain => back_steps' = n)
  <2>1. StepsBack(n) \subseteq Nat /\ (object.certain => StepsBack(n) = {n})
    <3> HIDE DEF n
    <3> QED
      BY <1>3, StepsBackProperties DEF IInv
  <2> QED
    BY <1>1, <2>1
<1>5. cover_index' \in Nat /\ stop_flag' \in BOOLEAN
  <2>1. cover_index \in Nat
    BY DEF IInv, Shape
  <2>2. CASE object.is_auto_inc
    <3>1. stop_flag' = TRUE /\ cover_index' = cover_index
      BY <2>2 DEF Found
    <3> QED
      BY <2>1, <3>1
  <2>3. CASE ~object.is_auto_inc
    <3>1. cover_index' = cover_index + 1
      BY <2>3 DEF Found
    <3>2. stop_flag' = (cover_index + 1 = object.number_of_vc)
      BY <2>3 DEF Found
    <3>3. stop_flag' \in BOOLEAN
      BY <3>2
    <3> QED
      BY <2>1, <3>1, <3>3
  <2> QED
    BY <2>2, <2>3
<1>6. vc_list' \in Seq(SUBSET V)
  <2>1. vc_list \in Seq(SUBSET V) /\ cover_index \in Nat
    BY DEF IInv, Shape
  <2> HIDE DEF V
  <2>2. slots \in Seq(SUBSET V)
    BY <2>1
  <2> HIDE DEF slots
  <2>3. cover_index + 1 \in 1 .. Len(slots)
    BY <1>1, <2>1, <2>2
  <2> QED
    BY <1>1, <1>3, <2>2, <2>3
<1>7. Shape'
  BY <1>1, <1>2, <1>4, <1>5, <1>6 DEF IInv, Shape
<1>8. PICK m \in Seq(Members) : ChainOK(m)
  BY <1>1 DEF IInv, Chain
<1>9. /\ Len(m) = d + 1 /\ m[d + 1] = Now /\ Linked(g, stack, m)
      /\ Stales(g, method, next_edge, stack, m, "call")
  BY <1>1, <1>8 DEF ChainOK
<1>10. Chain'
  <2>1. Stales(g, method, next_edge, stack, m, "return")
    BY <1>9 DEF Stales
  <2>2. UNCHANGED <<given, component>>
    BY <1>1
  <2> QED
    BY <1>1, <1>2, <1>9, <2>1, <2>2, ChainNext
<1>11. CallOK'
  BY <1>1 DEF CallOK
<1>12. GoesBack'
  <2> SUFFICES ASSUME object.certain
               PROVE  \E k \in 0 .. d : (k = 0 \/ stack[k].loop = "repair")
                                        /\ d - k <= n
    BY <1>1, <1>2, <1>4 DEF GoesBack
  <2>1. d + 1 \in 1 .. Len(m)
    BY <1>1, <1>9
  <2>2. PICK k \in 0 .. (d + 1) - 1 :
          (k = 0 \/ stack[k].loop = "repair")
          /\ Cardinality(m[d + 1].cur) >= (d + 1) - k - 1
    BY <1>9, <2>1 DEF Linked, Deep
  <2>3. Cardinality(m[d + 1].cur) = n
    BY <1>9 DEF Now
  <2> HIDE DEF d, n
  <2> QED
    BY <1>1, <1>3, <2>2, <2>3
<1>13. OnePerSearch'
  <2>1. object.certain => found = 0
    BY <1>1 DEF IInv, GoesBack
  <2>2. object.certain => found' <= 1
    BY <1>1, <2>1
  <2> QED
    BY <1>2, <2>2 DEF OnePerSearch
<1> QED
  BY <1>7, <1>10, <1>11, <1>12, <1>13 DEF IInv

-----------------------------------------------------------------------------
\* The members n and crit L made of m and K by a choice of v: exact again, and
\* every vertex is critical if none was violated and every edge is hit.
ChosenAt(g, m, K, v, n, L) ==
  /\ ExactAt(g, n, L)
  /\ ToSet(m.cur_list) = m.cur => ToSet(n.cur_list) = n.cur
  /\ ~VertexWouldViolate(g, K, v) /\ m.uncov # {} /\ n.uncov = {} =>
       \A i \in 1 .. Len(L) : L[i] # {}

LEMMA ChosenExact ==
  ASSUME NEW g, NEW m, NEW K, ExactAt(g, m, K),
         NEW v \in Vertices(g) \ m.cur,
         NEW n, n.cur = m.cur \cup {v}, n.uncov = UpdatedUncov(g, m.uncov, v),
         n.cur_list = Append(m.cur_list, v),
         NEW L, L = UpdatedCrit(g, K, m.uncov, v)
  PROVE  ChosenAt(g, m, K, v, n, L)
<1> DEFINE l == n.cur_list
           d == Len(m.cur_list)
<1>1. /\ m.cur_list \in Seq(Vertices(g)) /\ d \in Nat /\ Len(K) = d
      /\ K \in Seq(SUBSET EdgeIds(g)) /\ m.uncov \in SUBSET EdgeIds(g)
      /\ m.uncov = Uncovered(g, m.cur) /\ Distinct(m.cur_list)
      /\ m.cur \in SUBSET Vertices(g)
      /\ \A i \in 1 .. d : /\ m.cur_list[i] \in m.cur
                           /\ K[i] = Critical(g, m.cur, m.cur_list[i])
  BY DEF ExactAt, Uncovered
<1>2. /\ l \in Seq(Vertices(g)) /\ Len(l) = d + 1 /\ l[d + 1] = v
      /\ \A i \in 1 .. d : l[i] = m.cur_list[i]
  BY <1>1, PushProperties
<1>3. /\ L \in Seq(SUBSET EdgeIds(g)) /\ Len(L) = d + 1
      /\ L[d + 1] = NewCrit(g, m.uncov, v)
      /\ \A i \in 1 .. d : L[i] = K[i] \ VertexHitting(g, v)
  <2>1. IsUpdated(g, K, m.uncov, v, L)
    BY <1>1, CritOfCall
  <2> HIDE DEF d
  <2> QED
    BY <1>1, <2>1 DEF IsUpdated
<1> HIDE DEF d, l
<1>4. \A i \in 1 .. d + 1 : i \in 1 .. d \/ i = d + 1
  BY <1>1
<1>5. n.uncov = Uncovered(g, n.cur)
  BY <1>1, UncoveredUpdated
<1>6. \A i \in 1 .. d + 1 : l[i] \in n.cur /\ L[i] = Critical(g, n.cur, l[i])
  <2> TAKE i \in 1 .. d + 1
  <2>1. CASE i = d + 1
    BY <1>1, <1>2, <1>3, <2>1, CriticalNew
  <2>2. CASE i \in 1 .. d
    <3>1. PICK S, u : S = m.cur /\ u = m.cur_list[i]
      OBVIOUS
    <3>2. v \notin S /\ u \in S
      BY <1>1, <2>2, <3>1
    <3>3. Critical(g, S, u) \ VertexHitting(g, v) = Critical(g, S \cup {v}, u)
      BY <3>2, CriticalUpdated
    <3>4. l[i] = u /\ K[i] = Critical(g, S, u) /\ n.cur = S \cup {v}
      BY <1>1, <1>2, <2>2, <3>1
    <3> QED
      BY <1>3, <2>2, <3>2, <3>3, <3>4
  <2> QED
    BY <1>4, <2>1, <2>2
<1>7. Distinct(l)
  <2> SUFFICES ASSUME NEW i \in 1 .. d + 1, NEW j \in 1 .. d + 1, l[i] = l[j]
               PROVE  i = j
    BY <1>2 DEF Distinct
  <2>1. CASE i \in 1 .. d /\ j \in 1 .. d
    BY <1>1, <1>2, <2>1 DEF Distinct, d
  <2>2. CASE i = d + 1 \/ j = d + 1
    BY <1>1, <1>2, <1>4, <2>2
  <2> QED
    BY <1>4, <2>1, <2>2
<1>8. ExactAt(g, n, L)
  BY <1>1, <1>2, <1>3, <1>5, <1>6, <1>7 DEF ExactAt, l
<1>9. ToSet(m.cur_list) = m.cur => ToSet(l) = n.cur
  <2>1. DOMAIN l = 1 .. d + 1 /\ DOMAIN m.cur_list = 1 .. d
    BY <1>1, <1>2 DEF d
  <2>2. /\ ToSet(l) = {l[i] : i \in 1 .. d + 1}
        /\ ToSet(m.cur_list) = {m.cur_list[i] : i \in 1 .. d}
    BY <2>1 DEF ToSet
  <2>3. \A i \in 1 .. d : i \in 1 .. d + 1
    BY <1>1
  <2>4. d + 1 \in 1 .. d + 1
    BY <1>1
  <2> QED
    BY <1>2, <1>4, <2>2, <2>3, <2>4
<1>10. ASSUME ~VertexWouldViolate(g, K, v), m.uncov # {}, n.uncov = {}
       PROVE  \A i \in 1 .. d + 1 : L[i] # {}
  <2>1. \A i \in 1 .. d : L[i] # {}
    BY <1>1, <1>3, <1>10 DEF VertexWouldViolate
  <2>2. L[d + 1] # {}
    BY <1>3, <1>10 DEF NewCrit, UpdatedUncov
  <2> QED
    BY <1>4, <2>1, <2>2
<1> QED
  BY <1>3, <1>8, <1>9, <1>10 DEF l, ChosenAt

-----------------------------------------------------------------------------
\* The innermost activation becomes f and makes a call.
LEMMA CallInv ==
  ASSUME SubGraphsAreComponents, IInv, pc = "loop", back_steps = 0,
         NEW f, f \in Frames, stack' = WithTop(stack, f), ~Empty(active),
         FrameAt(hyper_graph, f, Now), Waits(hyper_graph, f, Now, Now'),
         Stale(hyper_graph, f, Now) =>
           Stale(hyper_graph, active, Now) /\ f.cand = active.cand,
         pc' = "call",
         args'.cand = f.cand, args'.cand \cap cur' = {},
         ExactAt(hyper_graph, Now', args'.crit),
         uncov' = {} => \A i \in 1 .. Len(args'.crit) : args'.crit[i] # {},
         \/ ToSet(cur_list') = cur'
         \/ uncov' # {}
            /\ Barren(hyper_graph, method, next_edge, f.cand, uncov', cur'),
         UNCHANGED <<given, place, next_edge, back_steps, stop_flag, results>>
  PROVE  IInv'
<1> DEFINE g == hyper_graph
           d == Len(stack)
<1>1. /\ stack \in Seq(Frames) /\ stack # <<>> /\ d \in Nat /\ d \in 1 .. d
      /\ active = stack[d] /\ active \in Frames
      /\ component # 0 /\ Live /\ ~stop_flag
      /\ \E m \in Seq(Members) : ChainOK(m)
  BY LoopFacts
<1>2. PICK m \in Seq(Members) : ChainOK(m)
  BY <1>1
<1>3. PICK s \in Seq(Frames), h \in Frames : s = stack /\ h = f
  BY <1>1
<1>4. /\ stack' \in Seq(Frames) /\ Len(stack') = d /\ stack'[d] = f
      /\ \A i \in 1 .. d - 1 : stack'[i] = stack[i]
      /\ stack' # <<>>
  <2>1. /\ WithTop(s, h) \in Seq(Frames) /\ Len(WithTop(s, h)) = Len(s)
        /\ WithTop(s, h)[Len(s)] = h
        /\ \A i \in 1 .. Len(s) - 1 : WithTop(s, h)[i] = s[i]
        /\ WithTop(s, h) # <<>>
    <3>1. s # <<>>
      BY <1>1, <1>3
    <3> QED
      BY ONLY <3>1, WithTopProperties
  <2> QED
    BY <1>3, <2>1
<1>5. /\ Len(m) = d /\ m[d] = Now /\ Linked(g, stack, m)
      /\ Stales(g, method, next_edge, stack, m, "loop")
  BY <1>2 DEF ChainOK
<1>6. /\ hyper_graph' = g /\ method' = method /\ Frames' = Frames
      /\ object' = object /\ sub_graphs' = sub_graphs
  BY SameComponent DEF place
<1>7. PICK n : n = Now'
  OBVIOUS
<1>8. n \in Members /\ IsFiniteSet(n.cur)
  <2>1. ExactAt(g, n, args'.crit)
    BY <1>7
  <2>2. n = [cur |-> n.cur, uncov |-> n.uncov, cur_list |-> n.cur_list]
    BY <1>7 DEF Now
  <2>3. PICK K : K = args'.crit
    OBVIOUS
  <2>4. n \in Members
    BY <2>1, <2>2, <2>3, NowTyped
  <2>5. n.cur \in SUBSET Vertices(g)
    BY <2>1 DEF ExactAt
  <2>6. \A S \in SUBSET Vertices(g) : IsFiniteSet(S)
    BY <1>1, GraphFacts DEF IInv
  <2> QED
    BY <2>4, <2>5, <2>6
<1> DEFINE l == Append(m, n)
<1>9. /\ l \in Seq(Members) /\ Len(l) = d + 1 /\ l[d + 1] = Now'
      /\ \A i \in 1 .. d : l[i] = m[i]
  BY <1>5, <1>7, <1>8, PushProperties
<1>10. Linked(g, stack', l)
  <2>1. Waits(g, f, m[d], n) /\ FrameAt(g, f, m[d])
    BY <1>5, <1>7
  <2>2. Linked(g, s, m) /\ Len(m) = Len(s) /\ FrameAt(g, h, m[Len(s)])
        /\ Waits(g, h, m[Len(s)], n) /\ s # <<>> /\ stack' = WithTop(s, h)
    BY <1>1, <1>3, <1>5, <2>1
  <2> HIDE DEF g, l
  <2>3. PICK t : t = stack'
    OBVIOUS
  <2>4. Linked(g, t, l)
    BY <1>8, <2>2, <2>3, LinkedCall DEF l
  <2> QED
    BY <2>3, <2>4
<1> HIDE DEF l
<1>11. Stales(g, method, next_edge', stack', l, "call")
  <2> SUFFICES ASSUME NEW i \in 1 .. d, Stale(g, stack'[i], l[i])
               PROVE  /\ Barren(g, method, next_edge, stack'[i].cand,
                                l[i].uncov, l[i].cur)
                      /\ i = d
    BY <1>4 DEF Stales
  <2>1. Stale(g, stack[i], m[i]) /\ stack'[i].cand = stack[i].cand
    <3>1. CASE i = d
      BY <1>1, <1>4, <1>5, <1>9, <3>1
    <3>2. CASE i \in 1 .. d - 1
      BY <1>4, <1>9, <3>2
    <3> QED
      BY <1>1, <3>1, <3>2
  <2>2. /\ Barren(g, method, next_edge, stack[i].cand, m[i].uncov, m[i].cur)
        /\ i = d \/ Empty(stack[d])
    BY <1>5, <2>1 DEF Stales
  <2> QED
    BY <1>1, <1>9, <2>1, <2>2
<1>12. Chain'
  <2>1. UNCHANGED <<given, component>>
    BY DEF place
  <2> QED
    BY <1>4, <1>9, <1>10, <1>11, <2>1, ChainNext
<1>13. Shape'
  BY <1>1, <1>4, <1>6 DEF IInv, Shape, place, results
<1>14. CallOK'
  <2>1. args'.cand \in SUBSET Vertices(g)
    BY <1>1 DEF Frames
  <2> QED
    BY <1>4, <1>6, <2>1 DEF CallOK
<1>15. GoesBack'
  <2> SUFFICES ASSUME object.certain, found # 0 \/ back_steps # 0
               PROVE  FALSE
    BY <1>6 DEF GoesBack, results
  <2>1. PICK k \in 0 .. d : d - k <= back_steps /\ k < d
    BY <1>1 DEF IInv, GoesBack
  <2> QED
    BY <1>1, <2>1
<1>16. OnePerSearch'
  BY DEF IInv, OnePerSearch, given, results
<1> QED
  BY <1>12, <1>13, <1>14, <1>15, <1>16 DEF IInv

LEMMA DescendInv ==
  ASSUME SubGraphsAreComponents, IInv, Descend
  PROVE  IInv'
<1> DEFINE g == hyper_graph
<1>1. pc = "loop" /\ back_steps = 0
  BY DEF Descend, Trying
<1>2. PICK v \in active.todo : DescendWith(v)
  BY DEF Descend
<1> DEFINE f == [active EXCEPT !.todo = @ \ {v}, !.c = {}, !.loop = "tried",
                               !.v = v, !.back = NewCrit(g, uncov, v)]
           L == UpdatedCrit(g, active.crit, uncov, v)
<1>3. /\ ~VertexWouldViolate(g, active.crit, v)
      /\ cur' = Flip(cur, v) /\ cur_list' = Append(cur_list, v)
      /\ uncov' = UpdatedUncov(g, uncov, v)
      /\ args' = [cand |-> active.cand, crit |-> L]
      /\ stack' = WithTop(stack, f) /\ pc' = "call"
      /\ UNCHANGED <<given, place, next_edge, back_steps, stop_flag, results>>
  BY <1>2 DEF DescendWith
<1>4. active \in Frames /\ FrameAt(g, active, Now)
  BY <1>1, LoopFacts
<1>5. /\ v \in Vertices(g) \ cur /\ v \notin active.cand
      /\ ExactAt(g, Now, active.crit) /\ uncov # {} /\ ToSet(cur_list) = cur
      /\ active.cand \cap cur = {}
  <2>1. v \in Vertices(g)
    BY <1>4 DEF Frames
  <2> QED
    BY <1>4, <2>1 DEF FrameAt, Now
<1>6. NewCrit(g, uncov, v) \in SUBSET EdgeIds(g)
  BY <1>5 DEF NewCrit, VertexHitting
<1>7. /\ f \in Frames /\ f.todo = active.todo \ {v} /\ f.c = {}
      /\ f.cand = active.cand /\ f.loop = "tried" /\ f.crit = active.crit
      /\ f.v = v /\ f.back = NewCrit(g, uncov, v)
  BY <1>4, <1>5, <1>6 DEF Frames
<1> HIDE DEF f
<1>8. cur' = cur \cup {v}
  BY <1>3, <1>5 DEF Flip
<1>9. /\ Now'.cur = Now.cur \cup {v} /\ Now'.uncov = UpdatedUncov(g, Now.uncov, v)
      /\ Now'.cur_list = Append(Now.cur_list, v) /\ Now.cur = cur
      /\ Now.uncov = uncov /\ Now.cur_list = cur_list /\ Now'.uncov = uncov'
      /\ Now'.cur = cur' /\ Now'.cur_list = cur_list'
  BY <1>3, <1>8 DEF Now
<1>10. FrameAt(g, f, Now)
  BY <1>4, <1>7 DEF FrameAt, Now
<1>11. Waits(g, f, Now, Now')
  BY <1>5, <1>7, <1>9 DEF Waits
<1>12. ~Stale(g, f, Now)
  BY <1>7 DEF Stale
<1>13. /\ ExactAt(g, Now', L)
       /\ ToSet(cur_list') = cur'
       /\ uncov' = {} => \A i \in 1 .. Len(L) : L[i] # {}
  <2>1. PICK m, n, K : m = Now /\ n = Now' /\ K = active.crit
    OBVIOUS
  <2>2. /\ ExactAt(g, m, K) /\ v \in Vertices(g) \ m.cur
        /\ n.cur = m.cur \cup {v} /\ n.uncov = UpdatedUncov(g, m.uncov, v)
        /\ n.cur_list = Append(m.cur_list, v)
        /\ L = UpdatedCrit(g, K, m.uncov, v)
    BY <1>5, <1>9, <2>1
  <2> HIDE DEF L, g
  <2>3. ChosenAt(g, m, K, v, n, L)
    BY <2>2, ChosenExact
  <2> QED
    BY <1>3, <1>5, <1>9, <2>1, <2>3 DEF ChosenAt
<1>14. ~Empty(active)
  BY DEF Empty
<1>15. args'.cand = f.cand /\ args'.cand \cap cur' = {} /\ args'.crit = L
  BY <1>3, <1>5, <1>7, <1>8
<1> HIDE DEF L
<1> QED
  BY <1>1, <1>3, <1>7, <1>10, <1>11, <1>12, <1>13, <1>14, <1>15, CallInv

-----------------------------------------------------------------------------
\* What a repair changes.
LEMMA RepairProperties ==
  ASSUME SubGraphsAreComponents, IInv, Repair
  PROVE  \E v \in active.todo, f \in Frames :
           /\ stack' = WithTop(stack, f)
           /\ f.todo = active.todo \ {v} /\ f.c = active.c
           /\ f.cand = active.cand /\ f.loop = "repair" /\ f.crit = active.crit
           /\ f.v = v /\ f.old = Now
           /\ v \in Vertices(hyper_graph) \ cur /\ v \in active.c
           /\ args'.cand = active.cand
           /\ uncov' = UpdatedUncov(hyper_graph, uncov, v)
           /\ RepairedAt(hyper_graph, Now, v, Now', args'.crit)
<1> DEFINE g == hyper_graph
<1>1. pc = "loop" /\ back_steps = 0 /\ active.loop = "repair"
  BY DEF Repair, Repairing
<1> DEFINE listOf(v) == Append(cur_list, v)
           endOf(v) ==
             ReleasedAll(listOf(v),
               [cur |-> Flip(cur, v),
                crit |-> UpdatedCrit(g, active.crit, uncov, v)])
           keptOf(v) == Ascending({i \in DOMAIN listOf(v) :
                                     endOf(v).crit[i] # {}})
<1>2. PICK v \in active.todo :
        /\ cur' = endOf(v).cur
        /\ cur_list' = [i \in DOMAIN keptOf(v) |-> listOf(v)[keptOf(v)[i]]]
        /\ args' = [cand |-> active.cand,
                    crit |-> [i \in DOMAIN keptOf(v) |->
                                endOf(v).crit[keptOf(v)[i]]]]
        /\ uncov' = UpdatedUncov(g, uncov, v)
        /\ stack' = WithTop(stack,
                      [active EXCEPT
                         !.todo = @ \ {v}, !.v = v,
                         !.old = [cur |-> cur, uncov |-> uncov,
                                  cur_list |-> cur_list]])
  BY DEF Repair
<1>3. PICK list, s, kept :
        list = listOf(v) /\ s = endOf(v) /\ kept = keptOf(v)
  OBVIOUS
<1> DEFINE f == [active EXCEPT !.todo = @ \ {v}, !.v = v, !.old = Now]
           K == KeptList(s.crit, kept)
<1>4. /\ cur' = s.cur /\ cur_list' = KeptList(list, kept)
      /\ args' = [cand |-> active.cand, crit |-> K]
      /\ uncov' = UpdatedUncov(g, uncov, v)
      /\ stack' = WithTop(stack, f)
  BY <1>2, <1>3 DEF KeptList, Now
<1>6. /\ s = Repaired(Now, active.crit, v) /\ kept = Kept(list, s)
      /\ list = Append(Now.cur_list, v)
  BY <1>3 DEF Repaired, Kept, Now
<1> HIDE DEF listOf, endOf, keptOf
<1>7. active \in Frames /\ FrameAt(g, active, Now)
  BY <1>1, LoopFacts
<1>8. /\ v \in Vertices(g) \ cur /\ v \in active.c
      /\ ExactAt(g, Now, active.crit) /\ ToSet(cur_list) = cur
  <2>1. v \in Vertices(g)
    BY <1>7 DEF Frames
  <2> QED
    BY <1>1, <1>7, <2>1 DEF FrameAt, Now
<1>9. Now \in Members
  <2>1. ExactAt(g, Now, active.crit)
    BY <1>8
  <2>2. PICK m, k : m = Now /\ k = active.crit
    OBVIOUS
  <2>3. m = [cur |-> m.cur, uncov |-> m.uncov, cur_list |-> m.cur_list]
    BY <2>2 DEF Now
  <2>4. ExactAt(g, m, k)
    BY <2>1, <2>2
  <2>5. m \in Members
    BY <2>3, <2>4, NowTyped
  <2> QED
    BY <2>2, <2>5
<1>10. /\ f \in Frames /\ f.todo = active.todo \ {v} /\ f.c = active.c
       /\ f.cand = active.cand /\ f.loop = "repair" /\ f.crit = active.crit
       /\ f.v = v /\ f.old = Now
  BY <1>1, <1>7, <1>8, <1>9 DEF Frames
<1> HIDE DEF f
<1>11. /\ Now'.cur = s.cur /\ Now'.uncov = UpdatedUncov(g, Now.uncov, v)
       /\ Now'.cur_list = KeptList(list, kept) /\ Now.cur = cur
       /\ Now.cur_list = cur_list
  BY <1>4 DEF Now
<1>12. RepairedAt(g, Now, v, Now', K)
  <2>1. PICK m, n, k : m = Now /\ n = Now' /\ k = active.crit
    OBVIOUS
  <2>2. /\ ExactAt(g, m, k) /\ v \in Vertices(g) \ m.cur
        /\ ToSet(m.cur_list) = m.cur
        /\ list = Append(m.cur_list, v)
        /\ s = Repaired(m, k, v) /\ kept = Kept(list, s)
        /\ n.cur = s.cur /\ n.uncov = UpdatedUncov(g, m.uncov, v)
        /\ n.cur_list = KeptList(list, kept)
    BY <1>6, <1>8, <1>11, <2>1
  <2>3. RepairedAt(g, m, v, n, K)
    <3> HIDE DEF K
    <3> QED
      BY <2>2, RepairedExact DEF K
  <2> HIDE DEF K, g
  <2> QED
    BY <2>1, <2>3
<1>13. args'.cand = active.cand /\ args'.crit = K
  BY <1>4
<1> HIDE DEF K
<1> QED
  BY <1>4, <1>8, <1>10, <1>12, <1>13

LEMMA RepairInv ==
  ASSUME SubGraphsAreComponents, IInv, Repair
  PROVE  IInv'
<1> DEFINE g == hyper_graph
<1>1. pc = "loop" /\ back_steps = 0 /\ active.loop = "repair"
  BY DEF Repair, Repairing
<1>2. PICK v \in active.todo, f \in Frames :
           /\ stack' = WithTop(stack, f)
           /\ f.todo = active.todo \ {v} /\ f.c = active.c
           /\ f.cand = active.cand /\ f.loop = "repair" /\ f.crit = active.crit
           /\ f.v = v /\ f.old = Now
           /\ v \in Vertices(g) \ cur /\ v \in active.c
           /\ args'.cand = active.cand
           /\ uncov' = UpdatedUncov(g, uncov, v)
           /\ RepairedAt(g, Now, v, Now', args'.crit)
  BY RepairProperties
<1>3. uncov' = UpdatedUncov(g, uncov, v) /\ stack' = WithTop(stack, f)
  BY <1>2
<1>4. pc' = "call"
      /\ UNCHANGED <<given, place, next_edge, back_steps, stop_flag, results>>
  BY DEF Repair
<1>5. active \in Frames /\ FrameAt(g, active, Now)
      /\ \E m \in Seq(Members) : ChainOK(m)
      /\ Len(stack) \in 1 .. Len(stack) /\ active = stack[Len(stack)]
  BY <1>1, LoopFacts
<1>6. /\ v \in Vertices(g) \ cur /\ v \notin active.cand /\ v \in active.c
      /\ ExactAt(g, Now, active.crit) /\ uncov # {} /\ cur # {}
      /\ active.cand \cap cur = {}
  BY <1>1, <1>2, <1>5 DEF FrameAt, Now
<1>7. /\ f \in Frames /\ f.todo = active.todo \ {v} /\ f.c = active.c
      /\ f.cand = active.cand /\ f.loop = "repair" /\ f.crit = active.crit
      /\ f.v = v /\ f.old = Now
  BY <1>2
<1>8. /\ Now.cur = cur /\ Now.uncov = uncov /\ Now.cur_list = cur_list
      /\ Now'.uncov = uncov' /\ Now'.cur = cur' /\ Now'.cur_list = cur_list'
  BY DEF Now
<1>9. /\ ExactAt(g, Now', args'.crit) /\ v \in cur' /\ cur' \subseteq cur \cup {v}
      /\ \A i \in 1 .. Len(args'.crit) : args'.crit[i] # {}
      /\ NewCrit(g, uncov, v) # {} => ToSet(cur_list') = cur'
  BY <1>2, <1>8 DEF RepairedAt
<1>10. FrameAt(g, f, Now)
  BY <1>1, <1>5, <1>7 DEF FrameAt, Now
<1>11. uncov' \subseteq uncov
  BY <1>3 DEF UpdatedUncov
<1>12. Waits(g, f, Now, Now')
  BY <1>6, <1>7, <1>8, <1>9, <1>11 DEF Waits
<1>13. Stale(g, f, Now) => Stale(g, active, Now) /\ f.cand = active.cand
  BY <1>1, <1>7 DEF Stale, Edged
<1>14. NewCrit(g, uncov, v) = {} =>
         uncov' # {} /\ Barren(g, method, next_edge, f.cand, uncov', cur')
  <2> SUFFICES ASSUME NewCrit(g, uncov, v) = {}
               PROVE  uncov' # {}
                      /\ Barren(g, method, next_edge, f.cand, uncov', cur')
    OBVIOUS
  <2>1. uncov \subseteq EdgeIds(g)
    BY <1>6 DEF ExactAt, Now, Uncovered
  <2>2. uncov' = uncov /\ \A e \in uncov : v \notin g[e]
    BY <1>3, <2>1 DEF NewCrit, UpdatedUncov, VertexHitting
  <2>3. Stale(g, active, Now)
    BY <1>1, <1>6, <2>2 DEF Stale, Edged, Now
  <2>4. PICK m \in Seq(Members) : ChainOK(m)
    BY <1>5
  <2>5. Stales(g, method, next_edge, stack, m, "loop") /\ m[Len(stack)] = Now
    BY <1>1, <2>4 DEF ChainOK
  <2>6. Barren(g, method, next_edge, active.cand, uncov, cur)
    BY <1>5, <2>3, <2>5 DEF Stales, Now
  <2> QED
    BY <1>6, <1>7, <1>9, <2>2, <2>6 DEF Barren
<1>15. ~Empty(active)
  BY <1>1 DEF Empty
<1>16. args'.cand = f.cand /\ args'.cand \cap cur' = {}
  BY <1>2, <1>6, <1>7, <1>9
<1>17. /\ \/ ToSet(cur_list') = cur'
          \/ uncov' # {}
             /\ Barren(g, method, next_edge, f.cand, uncov', cur')
       /\ uncov' = {} => \A i \in 1 .. Len(args'.crit) : args'.crit[i] # {}
  BY <1>9, <1>14
<1> HIDE DEF g
<1>18. /\ FrameAt(hyper_graph, f, Now) /\ Waits(hyper_graph, f, Now, Now')
       /\ ExactAt(hyper_graph, Now', args'.crit)
       /\ Stale(hyper_graph, f, Now) =>
            Stale(hyper_graph, active, Now) /\ f.cand = active.cand
       /\ \/ ToSet(cur_list') = cur'
          \/ uncov' # {}
             /\ Barren(hyper_graph, method, next_edge, f.cand, uncov', cur')
  BY <1>9, <1>10, <1>12, <1>13, <1>17 DEF g
<1> QED
  BY <1>1, <1>3, <1>4, <1>7, <1>15, <1>16, <1>17, <1>18, CallInv

-----------------------------------------------------------------------------
\* The call the innermost activation made has returned: it goes on with the
\* members it had before, as f.
LEMMA ReturnInv ==
  ASSUME SubGraphsAreComponents, IInv, pc = "return", ~stop_flag, stack # <<>>,
         NEW m \in Seq(Members), ChainOK(m),
         NEW f, f \in Frames, stack' = WithTop(stack, f),
         FrameAt(hyper_graph, f, m[Len(stack)]),
         f.loop = active.loop, f.c = active.c,
         f.loop = "tried" \/ f.cand = active.cand,
         Now' = m[Len(stack)], pc' = "loop", back_steps' \in Nat,
         (object.certain /\ (found # 0 \/ back_steps' # 0)) =>
            \E k \in 0 .. Len(stack) - 1 :
              /\ k = 0 \/ stack[k].loop = "repair"
              /\ Len(stack) - k <= back_steps',
         UNCHANGED <<given, place, next_edge, stop_flag, args, results>>
  PROVE  IInv'
<1> DEFINE g == hyper_graph
           d == Len(stack)
           l == Popped(m)
<1>1. stack \in Seq(Frames) /\ component # 0 /\ args = NoArgs
  BY DEF IInv, Shape
<1>2. d \in Nat /\ d \in 1 .. d /\ active = stack[d] /\ active \in Frames
  BY <1>1, TopProperties DEF active
<1>3. /\ Len(m) = d + 1 /\ Linked(g, stack, m)
      /\ Stales(g, method, next_edge, stack, m, "return")
  BY DEF ChainOK
<1>4. PICK s \in Seq(Frames), h \in Frames : s = stack /\ h = f
  BY <1>1
<1>5. /\ stack' \in Seq(Frames) /\ Len(stack') = d /\ stack'[d] = f
      /\ \A i \in 1 .. d - 1 : stack'[i] = stack[i]
      /\ stack' # <<>>
  <2>1. /\ WithTop(s, h) \in Seq(Frames) /\ Len(WithTop(s, h)) = Len(s)
        /\ WithTop(s, h)[Len(s)] = h
        /\ \A i \in 1 .. Len(s) - 1 : WithTop(s, h)[i] = s[i]
        /\ WithTop(s, h) # <<>>
    <3>1. s # <<>>
      BY <1>4
    <3> QED
      BY ONLY <3>1, WithTopProperties
  <2> QED
    BY <1>4, <2>1
<1>6. Linked(g, stack', l)
  <2>1. Linked(g, s, m) /\ Len(m) = Len(s) + 1 /\ FrameAt(g, h, m[Len(s)])
        /\ s # <<>>
    BY <1>3, <1>4
  <2>2. PICK t, p : t = WithTop(s, h) /\ p = Popped(m)
    OBVIOUS
  <2> HIDE DEF g, l
  <2>3. Linked(g, t, p)
    BY <2>1, <2>2, LinkedReturn
  <2> QED
    BY <1>4, <2>2, <2>3 DEF l
<1>7. /\ l \in Seq(Members) /\ Len(l) = d
      /\ \A i \in 1 .. d : l[i] = m[i]
  <2>1. m # <<>> /\ Len(m) - 1 = d
    BY <1>2, <1>3
  <2> HIDE DEF d
  <2> QED
    BY <2>1, PoppedProperties
<1> HIDE DEF l
<1>8. Stales(g, method, next_edge', stack', l, "loop")
  <2> SUFFICES ASSUME NEW i \in 1 .. d, Stale(g, stack'[i], l[i])
               PROVE  /\ Barren(g, method, next_edge, stack'[i].cand,
                                l[i].uncov, l[i].cur)
                      /\ i = d
    BY <1>5 DEF Stales
  <2>1. Stale(g, stack[i], m[i]) /\ stack'[i].cand = stack[i].cand
    <3>1. CASE i = d
      BY <1>2, <1>5, <1>7, <3>1 DEF Stale, Edged
    <3>2. CASE i \in 1 .. d - 1
      BY <1>5, <1>7, <3>2
    <3> QED
      BY <1>2, <3>1, <3>2
  <2>2. Barren(g, method, next_edge, stack[i].cand, m[i].uncov, m[i].cur) /\ i = d
    BY <1>3, <2>1 DEF Stales
  <2> QED
    BY <1>7, <2>1, <2>2
<1>9. Chain'
  <2>1. UNCHANGED <<given, component>>
    BY DEF place
  <2> QED
    BY <1>2, <1>5, <1>6, <1>7, <1>8, <2>1, ChainNext
<1>10. Shape'
  <2>1. Frames' = Frames /\ object' = object /\ sub_graphs' = sub_graphs
    BY SameComponent DEF place
  <2> QED
    BY <1>1, <1>5, <2>1 DEF IInv, Shape, place, results
<1>11. CallOK'
  BY DEF CallOK
<1>12. GoesBack'
  <2> SUFFICES ASSUME object.certain, found # 0 \/ back_steps' # 0
               PROVE  \E k \in 0 .. d :
                        /\ k = 0 \/ stack'[k].loop = "repair"
                        /\ d - k <= back_steps'
                        /\ k < d
    BY <1>5 DEF GoesBack, given, results
  <2>1. PICK k \in 0 .. d - 1 :
          /\ k = 0 \/ stack[k].loop = "repair"
          /\ d - k <= back_steps'
    OBVIOUS
  <2>2. k \in 0 .. d /\ k < d /\ (k # 0 => k \in 1 .. d - 1)
    BY <1>2
  <2> QED
    BY <1>5, <2>1, <2>2
<1>13. OnePerSearch'
  BY DEF IInv, OnePerSearch, given, results
<1> QED
  BY <1>9, <1>10, <1>11, <1>12, <1>13 DEF IInv

LEMMA ReturnTriedInv ==
  ASSUME SubGraphsAreComponents, IInv, ReturnTried
  PROVE  IInv'
<1> DEFINE g == hyper_graph
           d == Len(stack)
           f == [active EXCEPT !.cand = @ \cup {active.v}, !.v = NoVertex,
                               !.back = {}]
<1>1. /\ pc = "return" /\ ~stop_flag /\ stack # <<>> /\ pc' = "loop"
      /\ active.loop # "repair" /\ Live
      /\ cur_list' = SubSeq(cur_list, 1, Len(cur_list) - 1)
      /\ cur' = Flip(cur, active.v)
      /\ uncov' = uncov \cup active.back
      /\ stack' = WithTop(stack, f)
      /\ UNCHANGED <<given, place, next_edge, back_steps, stop_flag, args, results>>
  BY DEF ReturnTried, Live
<1>2. PICK m \in Seq(Members) : ChainOK(m)
  BY <1>1 DEF IInv, Chain
<1>3. stack \in Seq(Frames) /\ d \in Nat /\ d \in 1 .. d
      /\ active = stack[d] /\ active \in Frames
  <2>1. stack \in Seq(Frames)
    BY DEF IInv, Shape
  <2> QED
    BY <1>1, <2>1, TopProperties DEF active
<1>4. /\ Len(m) = d + 1 /\ m[d + 1] = Now
      /\ FrameAt(g, active, m[d]) /\ Waits(g, active, m[d], Now)
  <2>1. Len(m) = d + 1 /\ m[d + 1] = Now /\ Linked(g, stack, m)
    BY <1>1, <1>2, <1>3 DEF ChainOK
  <2>2. d \in 1 .. Len(m) - 1
    BY <1>3, <2>1
  <2> QED
    BY <1>3, <2>1, <2>2 DEF Linked
<1> HIDE DEF d, g
<1> DEFINE n == m[d]
           u == active.v
<1>5. /\ active.loop = "tried" /\ u \in Vertices(g) \ n.cur
      /\ u \notin active.todo /\ active.c = {}
      /\ active.back = NewCrit(g, n.uncov, u)
      /\ cur = n.cur \cup {u}
      /\ uncov = UpdatedUncov(g, n.uncov, u)
      /\ cur_list = Append(n.cur_list, u)
  BY <1>1, <1>4 DEF Waits, FrameAt, Now
<1>6. /\ n.cur \in SUBSET Vertices(g) /\ n.cur_list \in Seq(Vertices(g))
      /\ n.uncov = Uncovered(g, n.cur)
  BY <1>4 DEF FrameAt, ExactAt
<1>7. cur' = n.cur
  BY <1>1, <1>5 DEF Flip
<1>8. uncov' = n.uncov
  <2>1. PICK S : S = n.cur
    OBVIOUS
  <2>2. n.uncov = Uncovered(g, S)
    BY <1>6, <2>1
  <2>3. uncov' = UpdatedUncov(g, Uncovered(g, S), u)
                   \cup NewCrit(g, Uncovered(g, S), u)
    BY <1>1, <1>5, <2>2
  <2>4. UpdatedUncov(g, Uncovered(g, S), u) = Uncovered(g, S \cup {u})
    BY UncoveredUpdated
  <2>5. Uncovered(g, S \cup {u}) \cup NewCrit(g, Uncovered(g, S), u)
          = Uncovered(g, S)
    BY UncoveredRestored
  <2> QED
    BY <2>2, <2>3, <2>4, <2>5
<1>9. cur_list' = n.cur_list
  <2>1. PICK q \in Seq(Vertices(g)) : q = n.cur_list
    BY <1>6
  <2>2. cur_list' = SubSeq(Append(q, u), 1, Len(Append(q, u)) - 1)
    BY <1>1, <1>5, <2>1
  <2>3. u \in Vertices(g) /\ Len(q) \in Nat
    BY <1>5
  <2>4. Len(Append(q, u)) - 1 = Len(q)
    BY <2>3
  <2>5. SubSeq(Append(q, u), 1, Len(q)) = q
    BY <2>3
  <2> QED
    BY <2>1, <2>2, <2>4, <2>5
<1>10. Now' = n
  <2>1. n = [cur |-> n.cur, uncov |-> n.uncov, cur_list |-> n.cur_list]
    <3>1. n \in Members
      BY <1>3, <1>4
    <3> QED
      BY <3>1 DEF Members, NoMembers
  <2> QED
    BY <1>7, <1>8, <1>9, <2>1 DEF Now
<1>11. /\ f \in Frames /\ f.cand = active.cand \cup {u} /\ f.c = active.c
       /\ f.todo = active.todo /\ f.loop = active.loop /\ f.crit = active.crit
  <2>1. u \in Vertices(hyper_graph)
    BY <1>5 DEF g
  <2> QED
    BY <1>3, <2>1 DEF Frames
<1> HIDE DEF f
<1>12. FrameAt(g, f, n)
  <2>1. FrameAt(g, active, n)
    BY <1>4
  <2> HIDE DEF n
  <2> QED
    BY <1>5, <1>11, <2>1 DEF FrameAt
<1>13. ASSUME object.certain, found # 0 \/ back_steps' # 0
       PROVE  \E k \in 0 .. d - 1 :
                /\ k = 0 \/ stack[k].loop = "repair"
                /\ d - k <= back_steps'
  <2>1. PICK k \in 0 .. d :
          /\ k = 0 \/ stack[k].loop = "repair"
          /\ d - k <= back_steps
    BY <1>1, <1>13 DEF IInv, GoesBack, d
  <2>2. k # d
    BY <1>1, <1>3, <2>1
  <2> QED
    BY <1>1, <1>3, <2>1, <2>2
<1>14. back_steps' \in Nat /\ f.loop = "tried"
  BY <1>1, <1>5, <1>11 DEF IInv, Shape
<1> QED
  BY <1>1, <1>2, <1>10, <1>11, <1>12, <1>13, <1>14, ReturnInv DEF d, g, n

LEMMA ReturnRepairedInv ==
  ASSUME SubGraphsAreComponents, IInv, ReturnRepaired
  PROVE  IInv'
<1> DEFINE g == hyper_graph
           d == Len(stack)
           f == [active EXCEPT !.v = NoVertex, !.old = NoMembers]
<1>1. /\ pc = "return" /\ ~stop_flag /\ stack # <<>> /\ pc' = "loop"
      /\ active.loop = "repair" /\ Live
      /\ cur' = active.old.cur /\ uncov' = active.old.uncov
      /\ cur_list' = active.old.cur_list
      /\ active.old.cur # {} =>
           back_steps' \in StepsBack(Cardinality(active.old.cur) + 1)
      /\ stack' = WithTop(stack, f)
      /\ UNCHANGED <<given, place, next_edge, stop_flag, args, results>>
  BY DEF ReturnRepaired, Live
<1>2. PICK m \in Seq(Members) : ChainOK(m)
  BY <1>1 DEF IInv, Chain
<1>3. stack \in Seq(Frames) /\ d \in Nat /\ d \in 1 .. d
      /\ active = stack[d] /\ active \in Frames
  <2>1. stack \in Seq(Frames)
    BY DEF IInv, Shape
  <2> QED
    BY <1>1, <2>1, TopProperties DEF active
<1>4. /\ Len(m) = d + 1
      /\ FrameAt(g, active, m[d]) /\ Waits(g, active, m[d], Now)
      /\ IsFiniteSet(m[d].cur) /\ Deep(stack, m, d)
  <2>1. Len(m) = d + 1 /\ m[d + 1] = Now /\ Linked(g, stack, m)
    BY <1>1, <1>2, <1>3 DEF ChainOK
  <2>2. d \in 1 .. Len(m) - 1 /\ d \in 1 .. Len(m)
    BY <1>3, <2>1
  <2> QED
    BY <1>3, <2>1, <2>2 DEF Linked
<1> HIDE DEF d, g
<1> DEFINE n == m[d]
<1>5. active.old = n /\ n.cur # {}
  BY <1>1, <1>4 DEF Waits, FrameAt
<1>6. Now' = n
  <2>1. n = [cur |-> n.cur, uncov |-> n.uncov, cur_list |-> n.cur_list]
    <3>1. n \in Members
      BY <1>3, <1>4
    <3> QED
      BY <3>1 DEF Members, NoMembers
  <2> QED
    BY <1>1, <1>5, <2>1 DEF Now
<1>7. /\ f \in Frames /\ f.cand = active.cand /\ f.c = active.c
      /\ f.todo = active.todo /\ f.loop = active.loop /\ f.crit = active.crit
  <2>1. NoMembers \in Members
    BY DEF Members
  <2> QED
    BY <1>3, <2>1 DEF Frames
<1> HIDE DEF f
<1>8. FrameAt(g, f, n)
  <2>1. FrameAt(g, active, n)
    BY <1>4
  <2> HIDE DEF n
  <2> QED
    BY <1>7, <2>1 DEF FrameAt
<1> DEFINE c == Cardinality(n.cur)
<1>9. c \in Nat /\ c + 1 \in Nat
  BY <1>4, FS_CardinalityType
<1>10. back_steps' \in Nat /\ (object.certain => back_steps' = c + 1)
  <2>1. back_steps' \in StepsBack(c + 1)
    BY <1>1, <1>5
  <2> HIDE DEF c
  <2>2. Shape
    BY DEF IInv
  <2> QED
    BY <1>9, <2>1, <2>2, StepsBackProperties
<1>11. ASSUME object.certain, found # 0 \/ back_steps' # 0
       PROVE  \E k \in 0 .. d - 1 :
                /\ k = 0 \/ stack[k].loop = "repair"
                /\ d - k <= back_steps'
  <2>1. PICK k \in 0 .. d - 1 :
          (k = 0 \/ stack[k].loop = "repair") /\ c >= d - k - 1
    BY <1>4 DEF Deep
  <2> HIDE DEF c
  <2>2. d - k <= c + 1
    BY <1>3, <1>9, <2>1
  <2> QED
    BY <1>10, <1>11, <2>1, <2>2
<1> HIDE DEF c
<1> QED
  BY <1>1, <1>2, <1>6, <1>7, <1>8, <1>10, <1>11, ReturnInv DEF d, g, n

-----------------------------------------------------------------------------
(***************************************************************************)
(* The loops of RunDiverse, and the theorems.                              *)
(***************************************************************************)

\* A search of component c begins.
LEMMA SearchComponentInv ==
  ASSUME SubGraphsAreComponents, IInv, pc = "return", stack = <<>>,
         NEW c \in 1 .. Len(sub_graphs), SearchComponent(c),
         stop_flag' \in BOOLEAN, cover_index' = cover_index
  PROVE  IInv'
<1>1. /\ component' = c /\ object' = object /\ sub_graphs' = sub_graphs
      /\ cur' = {} /\ uncov' = EdgeIds(sub_graphs[c]) /\ cur_list' = <<>>
      /\ back_steps' = 0 /\ found' = 0 /\ pc' = "call" /\ stack' = <<>>
      /\ args' = [cand |-> Vertices(sub_graphs[c]), crit |-> <<>>]
      /\ UNCHANGED <<next_edge, vc_list, output>>
  BY DEF SearchComponent, given
<1>2. Len(sub_graphs) \in Nat
  BY DEF SubGraphsAreComponents, AreComponents
<1> DEFINE g == hyper_graph'
<1>3. g = sub_graphs[c]
  BY <1>1 DEF hyper_graph
<1> HIDE DEF g
<1>4. /\ Now' = [cur |-> {}, uncov |-> EdgeIds(g), cur_list |-> <<>>]
      /\ args' = [cand |-> Vertices(g), crit |-> <<>>]
  BY <1>1, <1>3 DEF Now
<1>5. Shape'
  <2>1. component' \in 0 .. Len(sub_graphs') /\ component' # 0
    BY <1>1, <1>2
  <2>2. stack' \in Seq(Frames')
    BY <1>1
  <2> QED
    BY <1>1, <2>1, <2>2 DEF IInv, Shape
<1>6. CallOK'
  <2>1. <<>> \in Seq(Vertices(g)) /\ <<>> \in Seq(SUBSET EdgeIds(g))
        /\ Len(<<>>) = 0 /\ ToSet(<<>>) = {}
    BY DEF ToSet
  <2>2. EdgeIds(g) = Uncovered(g, {})
    BY DEF Uncovered
  <2>3. Distinct(<<>>)
    BY DEF Distinct
  <2>4. ExactAt(g, Now', <<>>)
    BY <1>4, <2>1, <2>2, <2>3 DEF ExactAt
  <2>5. ExactAt(g, Now', args'.crit)
    BY <1>4, <2>4
  <2>6. \A i \in 1 .. Len(args'.crit) : args'.crit[i] # {}
    BY <1>4
  <2>7. args'.cand \in SUBSET Vertices(g) /\ args'.cand \cap cur' = {}
    BY <1>1, <1>4
  <2>8. ToSet(cur_list') = cur'
    BY <1>1, <2>1
  <2> QED
    BY <1>1, <2>5, <2>6, <2>7, <2>8 DEF CallOK, g
<1>7. Chain'
  <2>1. Now' \in Members'
    <3>1. Now' \in [cur : SUBSET Vertices(g), uncov : SUBSET EdgeIds(g),
                    cur_list : Seq(Vertices(g))]
      BY <1>4
    <3> QED
      BY <3>1 DEF Members, g
  <2>2. PICK m \in Seq(Members') : Len(m) = 1 /\ m[1] = Now'
    <3>1. <<Now'>> \in Seq(Members') /\ Len(<<Now'>>) = 1 /\ <<Now'>>[1] = Now'
      BY <2>1
    <3> QED
      BY <3>1
  <2>3. /\ Len(<<>>) = 0
        /\ \A i \in 1 .. Len(m) - 1 : FALSE
        /\ \A i \in 1 .. Len(m) : i = 1
    BY <2>2
  <2>4. \A s : Deep(s, m, 1)
    <3>1. Cardinality(m[1].cur) = 0
      BY <1>4, <2>2, FS_EmptySet
    <3> QED
      BY <3>1 DEF Deep
  <2>5. IsFiniteSet(m[1].cur)
    BY <1>4, <2>2, FS_EmptySet
  <2>6. Linked(g, stack', m)
    <3>1. \A i \in 1 .. Len(stack') : FALSE
      BY <1>1
    <3> QED
      BY <2>3, <2>4, <2>5, <3>1 DEF Linked
  <2>7. Stales(g, method', next_edge', stack', m, pc')
    <3>1. \A i \in 1 .. Len(stack') : FALSE
      BY <1>1
    <3> QED
      BY <3>1 DEF Stales
  <2>8. Len(m) = Len(stack') + 1 /\ m[Len(m)] = Now'
    BY <1>1, <2>2, <2>3
  <2>9. ChainOK(m)'
    BY <1>1, <2>6, <2>7, <2>8 DEF ChainOK, g
  <2> QED
    BY <2>2, <2>9 DEF Chain
<1>8. GoesBack'
  BY <1>1 DEF GoesBack
<1>9. OnePerSearch'
  BY <1>1 DEF OnePerSearch
<1> QED
  BY <1>5, <1>6, <1>7, <1>8, <1>9 DEF IInv

\* Between two searches, and after the last.
LEMMA RestInv ==
  ASSUME IInv, pc = "return", stack = <<>>, pc' \in {"return", "done"},
         component' \in 0 .. Len(sub_graphs), cover_index' \in Nat,
         stop_flag' \in BOOLEAN, found' = found \/ found' = 0,
         UNCHANGED <<given, next_edge, back_steps, args, stack, vc_list>>
  PROVE  IInv'
<1>1. object' = object /\ sub_graphs' = sub_graphs /\ stack' = <<>>
  BY DEF given
<1>2. Shape'
  <2>1. stack' \in Seq(Frames')
    BY <1>1
  <2> QED
    BY <1>1, <2>1 DEF IInv, Shape
<1>3. CallOK' /\ Chain' /\ GoesBack'
  BY <1>1 DEF CallOK, Chain, GoesBack, Live
<1>4. OnePerSearch'
  BY <1>1 DEF IInv, OnePerSearch
<1> QED
  BY <1>2, <1>3, <1>4 DEF IInv

LEMMA RunDiverseInv ==
  ASSUME SubGraphsAreComponents, IInv, RunDiverse \/ StartComponent \/ NextRound
  PROVE  IInv'
<1>1. /\ Len(sub_graphs) \in Nat /\ component \in 0 .. Len(sub_graphs)
      /\ cover_index \in Nat /\ stop_flag \in BOOLEAN
  BY DEF SubGraphsAreComponents, AreComponents, IInv, Shape
<1>2. CASE StartSearch
  <2>1. component \in 1 .. Len(sub_graphs)
    BY <1>1, <1>2 DEF StartSearch, AllFound
  <2>2. /\ pc = "return" /\ stack = <<>> /\ SearchComponent(component)
        /\ stop_flag' \in BOOLEAN /\ cover_index' = cover_index
    BY <1>2 DEF StartSearch, InRunDiverse
  <2>3. PICK c \in 1 .. Len(sub_graphs) : c = component
    BY <2>1
  <2>4. SearchComponent(c)
    BY <2>2, <2>3
  <2> QED
    BY <2>2, <2>4, SearchComponentInv
<1>3. CASE NextComponent
  <2>1. component' \in 0 .. Len(sub_graphs)
    BY <1>1, <1>3 DEF NextComponent
  <2> QED
    BY <1>1, <1>3, <2>1, RestInv DEF NextComponent, InRunDiverse
<1>4. CASE FillQueue
  BY <1>1, <1>4, RestInv DEF FillQueue, InRunDiverse, place
<1>5. CASE StartComponent
  <2>1. component + 1 \in 1 .. Len(sub_graphs)
    BY <1>1, <1>5 DEF StartComponent
  <2>2. /\ pc = "return" /\ stack = <<>> /\ SearchComponent(component + 1)
        /\ stop_flag' \in BOOLEAN /\ cover_index' = cover_index
    BY <1>1, <1>5 DEF StartComponent, InRounds
  <2>3. PICK c \in 1 .. Len(sub_graphs) : c = component + 1
    BY <2>1
  <2>4. SearchComponent(c)
    BY <2>2, <2>3
  <2> QED
    BY <2>2, <2>4, SearchComponentInv
<1>6. CASE NextRound
  <2>1. /\ pc = "return" /\ stack = <<>> /\ cover_index' = cover_index + 1
        /\ UNCHANGED <<given, next_edge, back_steps, args, stack, vc_list>>
        /\ component = Len(sub_graphs) /\ found' = 0
    BY <1>6 DEF NextRound, InRounds
  <2>2. component' \in 0 .. Len(sub_graphs) /\ pc' \in {"return", "done"}
    <3>1. stop_flag' => pc' = "done" /\ component' = component
      BY <1>6 DEF NextRound
    <3>2. ~stop_flag' => component' = 0 /\ pc' = pc
      BY <1>6 DEF NextRound
    <3> QED
      BY <1>1, <2>1, <3>1, <3>2
  <2>3. stop_flag' \in BOOLEAN
    <3>1. stop_flag' = JudgedEnough(cover_index, vc_list)'
      BY <1>6 DEF NextRound
    <3> QED
      BY <3>1 DEF JudgedEnough
  <2> QED
    BY <1>1, <2>1, <2>2, <2>3, RestInv
<1> QED
  BY <1>2, <1>3, <1>4, <1>5, <1>6 DEF RunDiverse

LEMMA InvInit ==
  ASSUME InitAll, SubGraphsAreComponents
  PROVE  IInv
<1>1. /\ object \in Objects /\ component = 0 /\ cover_index = 0
      /\ next_edge = Inherited!NoEdge /\ back_steps = 0 /\ stop_flag = FALSE
      /\ vc_list = [i \in 1 .. object.number_of_vc |-> {}]
      /\ pc = "return" /\ args = NoArgs /\ stack = <<>> /\ found = 0
  BY DEF InitAll, Init
<1>2. Len(sub_graphs) \in Nat
  BY DEF SubGraphsAreComponents, AreComponents
<1>3. vc_list \in Seq(SUBSET Vertices(object.hyper_graph))
  <2>1. object.number_of_vc \in Nat
    BY <1>1, ObjectsAssumption DEF IsObject
  <2> QED
    BY <1>1, <2>1
<1>4. Shape
  <2>1. stack \in Seq(Frames)
    BY <1>1
  <2>2. component \in 0 .. Len(sub_graphs)
    BY <1>1, <1>2
  <2>3. /\ cover_index \in Nat /\ back_steps \in Nat /\ found \in Nat
        /\ stop_flag \in BOOLEAN
    BY <1>1
  <2>4. ~(pc \in {"call", "loop"} \/ stack # <<>>)
    BY <1>1
  <2> QED
    BY <1>1, <1>3, <2>1, <2>2, <2>3, <2>4 DEF Shape
<1>5. CallOK /\ Chain /\ GoesBack
  BY <1>1 DEF CallOK, Chain, GoesBack, Live
<1>6. OnePerSearch
  BY <1>1 DEF OnePerSearch
<1> QED
  BY <1>4, <1>5, <1>6 DEF IInv

LEMMA SearchInv ==
  ASSUME SubGraphsAreComponents, IInv, Search
  PROVE  IInv'
BY StoppedInv, FoundInv, ExpandInv, SkipInv, DescendInv, BackOutInv,
   ReturnTriedInv, StartRepairInv, RepairInv, ReturnRepairedInv, LeaveInv
   DEF Search

LEMMA InvNext ==
  ASSUME SubGraphsAreComponents, IInv, [Next]_vars
  PROVE  IInv'
<1>1. CASE UNCHANGED vars
  <2>1. UNCHANGED search_vars
    BY <1>1 DEF vars
  <2>2. /\ UNCHANGED <<given, component>> /\ Now' = Now
        /\ UNCHANGED <<cover_index, next_edge, back_steps, stop_flag, pc, args,
                       stack, vc_list, found>>
        /\ UNCHANGED <<cur, uncov, cur_list>>
    BY <2>1 DEF search_vars, given, place, chosen, results, Now
  <2>3. /\ hyper_graph' = hyper_graph /\ method' = method
        /\ Members' = Members /\ Frames' = Frames
        /\ object' = object /\ sub_graphs' = sub_graphs
    BY <2>2, SameComponent
  <2>4. Shape' /\ CallOK' /\ GoesBack' /\ OnePerSearch'
    BY <2>2, <2>3 DEF IInv, Shape, CallOK, GoesBack, OnePerSearch, Live
  <2>5. Chain'
    <3>1. \A m : ChainOK(m)' = ChainOK(m)
      BY <2>2, <2>3 DEF ChainOK
    <3> QED
      BY <2>2, <2>3, <3>1 DEF IInv, Chain, Live
  <2> QED
    BY <2>4, <2>5 DEF IInv
<1>2. CASE Search
  BY <1>2, SearchInv
<1>3. CASE RunDiverse \/ StartComponent \/ NextRound
  BY <1>3, RunDiverseInv
<1> QED
  BY <1>1, <1>2, <1>3 DEF Next, Terminated

\* The components are computed once.
LEMMA ComponentsKept ==
  ASSUME SubGraphsAreComponents, [Next]_vars
  PROVE  SubGraphsAreComponents'
<1>1. UNCHANGED given
  <2>1. CASE Search
    BY <2>1 DEF Search, EnterStopped, Found, Expand, Skip, Descend, DescendWith,
                BackOut, ReturnTried, StartRepair, Repair, ReturnRepaired,
                Leave, ReturnStopped
  <2>2. CASE RunDiverse \/ StartComponent \/ NextRound
    BY <2>2 DEF RunDiverse, StartSearch, NextComponent, FillQueue,
                StartComponent, NextRound, SearchComponent
  <2>3. CASE UNCHANGED vars
    BY <2>3 DEF vars, search_vars
  <2> QED
    BY <2>1, <2>2, <2>3 DEF Next, Terminated
<1> QED
  BY <1>1 DEF given, SubGraphsAreComponents

LEMMA ComponentsInit ==
  ASSUME InitAll
  PROVE  SubGraphsAreComponents
<1>1. object \in Objects /\ sub_graphs = GetSubGraph(object.hyper_graph)
  BY DEF InitAll, Init
<1>2. IsHyperGraph(object.hyper_graph)
  BY <1>1, ObjectsAssumption DEF IsObject
<1> QED
  BY <1>1, <1>2, GetSubGraphComponents DEF SubGraphsAreComponents

\* GetSubGraph makes of every hypergraph its connected components: each of
\* its sub-graphs is connected, no edge leaves it, no two share a vertex, and
\* together they hold every edge that is not empty as often as the hypergraph.
THEOREM Components == Spec => []SubGraphsAreComponents
<1>1. InitAll => SubGraphsAreComponents
  BY ComponentsInit
<1>2. SubGraphsAreComponents /\ [Next]_vars => SubGraphsAreComponents'
  BY ComponentsKept
<1> QED
  BY <1>1, <1>2, PTL DEF Spec

\* The inductive invariant of RunDiverse_.
THEOREM Invariance == Spec => []IInv
<1>1. InitAll => IInv
  BY InvInit, ComponentsInit
<1>2. SubGraphsAreComponents /\ IInv /\ [Next]_vars => IInv'
  BY InvNext
<1> QED
  BY <1>1, <1>2, Components, PTL DEF Spec

\* The members and crit of RunDiverse_ are exact wherever a search goes on,
\* after any number of undone choices and repairs.
THEOREM Exactness == Spec => []SearchExact
<1>1. SubGraphsAreComponents /\ IInv => SearchExact
  <2> SUFFICES ASSUME SubGraphsAreComponents, IInv PROVE SearchExact
    OBVIOUS
  <2>1. \A K : ExactAt(hyper_graph, Now, K) =>
          /\ uncov = Uncovered(hyper_graph, cur)
          /\ Len(K) = Len(cur_list)
          /\ \A i \in DOMAIN K :
               /\ cur_list[i] \in cur
               /\ K[i] = Critical(hyper_graph, cur, cur_list[i])
    BY DEF ExactAt, Now
  <2>2. pc = "call" => ExactAt(hyper_graph, Now, args.crit)
    BY DEF IInv, CallOK
  <2>3. pc = "loop" => ExactAt(hyper_graph, Now, active.crit)
    BY LoopFacts DEF FrameAt
  <2> QED
    BY <2>1, <2>2, <2>3 DEF SearchExact
<1> QED
  BY <1>1, Components, Invariance, PTL

\* With the certain back method a search finds one cover at most: the steps
\* to go back outlast its activations.
THEOREM OneCover == Spec => []OnePerSearch
<1>1. IInv => OnePerSearch
  BY DEF IInv
<1> QED
  BY <1>1, Invariance, PTL

-----------------------------------------------------------------------------
\* Of an object of RandomEnum every slot has, for each component searched, a
\* minimal hitting set of it.
Recorded ==
  ~object.is_auto_inc =>
    RecordedMinimal /\ Len(vc_list) = object.number_of_vc

LEMMA RecordedKept ==
  ASSUME Recorded,
         UNCHANGED <<object, sub_graphs, component, cover_index, vc_list>>
  PROVE  Recorded'
BY DEF Recorded, RecordedMinimal, Given

LEMMA RecordedFound ==
  ASSUME SubGraphsAreComponents, IInv, Recorded, Found
  PROVE  Recorded'
<1> SUFFICES ASSUME ~object'.is_auto_inc PROVE Recorded'
  BY DEF Recorded
<1>1. /\ pc = "call" /\ ~stop_flag /\ uncov = {} /\ component # 0
      /\ object' = object /\ sub_graphs' = sub_graphs
      /\ component' = component /\ cover_index' = cover_index + 1
      /\ cover_index < Len(vc_list)
      /\ vc_list' = [vc_list EXCEPT ![cover_index + 1] = @ \cup cur]
  <2>1. object' = object
    BY DEF Found, given
  <2> QED
    BY <2>1 DEF Found, given, IInv, Shape
<1>2. /\ vc_list \in Seq(SUBSET Vertices(object.hyper_graph))
      /\ cover_index \in Nat /\ component \in Nat
  BY DEF IInv, Shape
<1>3. /\ IsMinimalHittingSet(hyper_graph, cur) /\ cur \subseteq Vertices(hyper_graph)
  BY <1>1, FoundMinimal DEF IsMinimalHittingSet
<1>4. /\ DOMAIN sub_graphs \subseteq Nat /\ component \in DOMAIN sub_graphs
      /\ \A c \in DOMAIN sub_graphs : c # component =>
           cur \cap Vertices(sub_graphs[c]) = {}
  <2>1. component \in DOMAIN sub_graphs
    BY <1>1, GraphFacts DEF IInv
  <2>2. \A c \in DOMAIN sub_graphs : c # component =>
          Vertices(hyper_graph) \cap Vertices(sub_graphs[c]) = {}
    BY <2>1 DEF SubGraphsAreComponents, AreComponents, hyper_graph
  <2>3. DOMAIN sub_graphs \subseteq Nat
    BY DEF SubGraphsAreComponents, AreComponents
  <2> QED
    BY <1>3, <2>1, <2>2, <2>3
<1>5. /\ RecordedMinimal /\ Len(vc_list) = object.number_of_vc
  BY <1>1 DEF Recorded
<1>6. /\ cover_index + 1 \in DOMAIN vc_list
      /\ DOMAIN vc_list' = DOMAIN vc_list /\ DOMAIN vc_list \subseteq Nat
      /\ Len(vc_list') = Len(vc_list)
      /\ \A i \in DOMAIN vc_list :
           vc_list'[i] = IF i = cover_index + 1 THEN vc_list[i] \cup cur
                         ELSE vc_list[i]
  <2>1. PICK V : vc_list \in Seq(SUBSET V)
    BY <1>2
  <2>2. DOMAIN vc_list = 1 .. Len(vc_list) /\ Len(vc_list) \in Nat
    BY <2>1
  <2>3. cover_index + 1 \in 1 .. Len(vc_list)
    BY <1>1, <1>2, <2>2
  <2>4. /\ DOMAIN vc_list' = DOMAIN vc_list
        /\ \A i \in DOMAIN vc_list :
             vc_list'[i] = IF i = cover_index + 1 THEN vc_list[i] \cup cur
                           ELSE vc_list[i]
    BY <1>1, <2>2, <2>3
  <2>5. vc_list' \in Seq(SUBSET Vertices(object'.hyper_graph))
    BY FoundInv DEF IInv, Shape
  <2>6. Len(vc_list') \in Nat /\ DOMAIN vc_list' = 1 .. Len(vc_list')
    BY <2>5
  <2> QED
    BY <2>2, <2>3, <2>4, <2>6
<1>7. RecordedMinimal'
  <2> SUFFICES ASSUME NEW i \in DOMAIN vc_list, NEW c \in DOMAIN sub_graphs
               PROVE  LET part == vc_list'[i] \cap Vertices(sub_graphs[c])
                      IN IF c < component
                              \/ (c = component /\ i <= cover_index + 1)
                         THEN IsMinimalHittingSet(sub_graphs[c], part)
                         ELSE part = {}
    BY <1>1, <1>6 DEF RecordedMinimal, Given
  <2> DEFINE before == vc_list[i] \cap Vertices(sub_graphs[c])
             part == vc_list'[i] \cap Vertices(sub_graphs[c])
  <2>1. IF c < component \/ (c = component /\ i <= cover_index)
        THEN IsMinimalHittingSet(sub_graphs[c], before)
        ELSE before = {}
    BY <1>1, <1>5 DEF RecordedMinimal, Given
  <2>2. CASE c # component \/ i # cover_index + 1
    <3>1. part = before
      BY <1>4, <1>6, <2>2
    <3>2. c \in Nat /\ i \in Nat
      BY <1>4, <1>6
    <3>3. (c = component /\ i <= cover_index + 1)
            <=> (c = component /\ i <= cover_index)
      BY <1>2, <2>2, <3>2
    <3> HIDE DEF part, before
    <3>4. IF c < component \/ (c = component /\ i <= cover_index + 1)
          THEN IsMinimalHittingSet(sub_graphs[c], part)
          ELSE part = {}
      BY <2>1, <3>1, <3>3
    <3> QED
      BY <3>4 DEF part
  <2>3. CASE c = component /\ i = cover_index + 1
    <3>1. before = {}
      BY <1>2, <2>1, <2>3
    <3>2. part = cur
      BY <1>3, <1>6, <2>3, <3>1 DEF hyper_graph
    <3>3. IsMinimalHittingSet(sub_graphs[c], part)
      BY <1>3, <2>3, <3>2 DEF hyper_graph
    <3> HIDE DEF part, before
    <3>4. i <= cover_index + 1
      BY <1>2, <2>3
    <3> QED
      BY <2>3, <3>3, <3>4 DEF part
  <2> QED
    BY <2>2, <2>3
<1> QED
  BY <1>1, <1>5, <1>6, <1>7 DEF Recorded

LEMMA RecordedNextComponent ==
  ASSUME SubGraphsAreComponents, IInv, Recorded, NextComponent
  PROVE  Recorded'
<1>1. /\ ~object.is_auto_inc /\ AllFound /\ object' = object
      /\ sub_graphs' = sub_graphs /\ component' = component + 1
      /\ cover_index' = 0 /\ vc_list' = vc_list
  BY DEF NextComponent, InRunDiverse, given
<1>2. /\ vc_list \in Seq(SUBSET Vertices(object.hyper_graph))
      /\ cover_index \in Nat /\ component \in Nat
      /\ DOMAIN sub_graphs = 1 .. Len(sub_graphs) /\ Len(sub_graphs) \in Nat
  BY DEF IInv, Shape, SubGraphsAreComponents, AreComponents
<1>3. RecordedMinimal /\ Len(vc_list) = object.number_of_vc
  BY <1>1 DEF Recorded
<1>4. RecordedMinimal'
  <2> SUFFICES ASSUME NEW i \in DOMAIN vc_list, NEW c \in DOMAIN sub_graphs
               PROVE  LET part == vc_list[i] \cap Vertices(sub_graphs[c])
                      IN IF c < component + 1 \/ (c = component + 1 /\ i <= 0)
                         THEN IsMinimalHittingSet(sub_graphs[c], part)
                         ELSE part = {}
    BY <1>1 DEF RecordedMinimal, Given
  <2> DEFINE part == vc_list[i] \cap Vertices(sub_graphs[c])
  <2>1. IF c < component \/ (c = component /\ i <= cover_index)
        THEN IsMinimalHittingSet(sub_graphs[c], part)
        ELSE part = {}
    BY <1>1, <1>3 DEF RecordedMinimal, Given
  <2>2. c \in Nat \ {0} /\ i \in 1 .. Len(vc_list) /\ Len(vc_list) \in Nat
    BY <1>2
  <2>3. component = 0 \/ i <= cover_index
    BY <1>1, <1>2, <1>3, <2>2 DEF AllFound
  <2>4. (c < component \/ (c = component /\ i <= cover_index))
          <=> (c < component + 1 \/ (c = component + 1 /\ i <= 0))
    BY <1>2, <2>2, <2>3
  <2> HIDE DEF part
  <2>5. IF c < component + 1 \/ (c = component + 1 /\ i <= 0)
        THEN IsMinimalHittingSet(sub_graphs[c], part)
        ELSE part = {}
    BY <2>1, <2>4
  <2> QED
    BY <2>5 DEF part
<1> QED
  BY <1>1, <1>3, <1>4 DEF Recorded

LEMMA RecordedInit ==
  ASSUME InitAll, SubGraphsAreComponents
  PROVE  Recorded
<1>1. /\ object \in Objects /\ component = 0 /\ cover_index = 0
      /\ vc_list = [i \in 1 .. object.number_of_vc |-> {}]
  BY DEF InitAll, Init
<1>2. object.number_of_vc \in Nat
  BY <1>1, ObjectsAssumption DEF IsObject
<1>3. Len(vc_list) = object.number_of_vc
  BY <1>1, <1>2
<1>4. DOMAIN sub_graphs = 1 .. Len(sub_graphs) /\ Len(sub_graphs) \in Nat
  BY DEF SubGraphsAreComponents, AreComponents
<1>5. ~object.is_auto_inc => RecordedMinimal
  <2> SUFFICES ASSUME ~object.is_auto_inc,
                      NEW i \in DOMAIN vc_list, NEW c \in DOMAIN sub_graphs
               PROVE  /\ ~Given(i, c)
                      /\ vc_list[i] \cap Vertices(sub_graphs[c]) = {}
    BY DEF RecordedMinimal
  <2>1. c \in Nat \ {0}
    BY <1>4
  <2> QED
    BY <1>1, <2>1 DEF Given
<1> QED
  BY <1>3, <1>5 DEF Recorded

LEMMA RecordedNext ==
  ASSUME SubGraphsAreComponents, IInv, Recorded, [Next]_vars
  PROVE  Recorded'
<1> DEFINE kept == <<object, sub_graphs, component, cover_index, vc_list>>
<1>1. CASE Found
  BY <1>1, RecordedFound
<1>2. CASE NextComponent
  BY <1>2, RecordedNextComponent
<1>3. CASE StartComponent \/ NextRound
  <2>1. object.is_auto_inc /\ object' = object
    BY <1>3 DEF StartComponent, NextRound, InRounds, SearchComponent, given
  <2> QED
    BY <2>1 DEF Recorded
<1>4. CASE Search /\ ~Found
  <2>1. UNCHANGED kept
    BY <1>4 DEF Search, EnterStopped, Expand, Skip, Descend, DescendWith,
                BackOut, ReturnTried, StartRepair, Repair, ReturnRepaired,
                Leave, ReturnStopped, given, place, results
  <2> QED
    BY <2>1, RecordedKept
<1>5. CASE StartSearch \/ FillQueue
  <2>1. UNCHANGED kept
    BY <1>5 DEF StartSearch, FillQueue, SearchComponent, given, place
  <2> QED
    BY <2>1, RecordedKept
<1>6. CASE UNCHANGED vars
  <2>1. UNCHANGED kept
    BY <1>6 DEF vars, search_vars, given, place, results
  <2> QED
    BY <2>1, RecordedKept
<1> QED
  BY <1>1, <1>2, <1>3, <1>4, <1>5, <1>6 DEF Next, RunDiverse, Terminated

\* What RandomEnum has recorded for a component is a minimal hitting set of
\* it, after any number of searches and repairs, and what has not been
\* searched yet has left nothing.
THEOREM Minimality ==
  Spec =>
    [](~object.is_auto_inc => RecordedMinimal)
<1>1. InitAll => Recorded
  BY RecordedInit, ComponentsInit
<1>2. SubGraphsAreComponents /\ IInv /\ Recorded /\ [Next]_vars => Recorded'
  BY RecordedNext
<1>3. Recorded => (~object.is_auto_inc => RecordedMinimal)
  BY DEF Recorded
<1> QED
  BY <1>1, <1>2, <1>3, Components, Invariance, PTL DEF Spec

-----------------------------------------------------------------------------
(***************************************************************************)
(* The greedy choice of covers.                                            *)
(***************************************************************************)

\* The distances that are numbers: 0 / 0 is none.
Fractions == Int \X (Nat \ {0})

\* x is at most y.
AtMost(x, y) == ~Less(y, x)

LEMMA CrossMultiplied ==
  ASSUME NEW a \in Int, NEW b \in Int, NEW c \in Int,
         NEW p \in Nat \ {0}, NEW q \in Nat \ {0}, NEW r \in Nat \ {0},
         a * q <= b * p, b * r <= c * q
  PROVE  a * r <= c * p
<1>1. (a * q) * r <= (b * p) * r
  OBVIOUS
<1>2. (b * r) * p <= (c * q) * p
  OBVIOUS
<1>3. (a * r) * q <= (c * p) * q
  BY <1>1, <1>2
<1> QED
  BY <1>3

LEMMA AtMostOrder ==
  ASSUME NEW x \in Fractions, NEW y \in Fractions, NEW z \in Fractions
  PROVE  /\ AtMost(x, x)
         /\ AtMost(x, y) \/ AtMost(y, x)
         /\ AtMost(x, y) /\ AtMost(y, z) => AtMost(x, z)
         /\ Less(x, y) <=> ~AtMost(y, x)
<1>1. /\ x[1] \in Int /\ y[1] \in Int /\ z[1] \in Int
      /\ x[2] \in Nat \ {0} /\ y[2] \in Nat \ {0} /\ z[2] \in Nat \ {0}
  BY DEF Fractions
<1>2. /\ AtMost(x, y) <=> x[1] * y[2] <= y[1] * x[2]
      /\ AtMost(y, x) <=> y[1] * x[2] <= x[1] * y[2]
      /\ AtMost(y, z) <=> y[1] * z[2] <= z[1] * y[2]
      /\ AtMost(x, z) <=> x[1] * z[2] <= z[1] * x[2]
      /\ AtMost(x, x) <=> x[1] * x[2] <= x[1] * x[2]
  BY <1>1 DEF AtMost, Less
<1>3. AtMost(x, y) /\ AtMost(y, z) => AtMost(x, z)
  BY <1>1, <1>2, CrossMultiplied
<1>4. AtMost(x, x) /\ (AtMost(x, y) \/ AtMost(y, x))
  BY <1>1, <1>2
<1> QED
  BY <1>3, <1>4 DEF AtMost

\* R puts the elements of S in an order.
Orders(R, S) ==
  /\ \A x \in S : <<x, x>> \notin R
  /\ \A x, y \in S : x = y \/ <<x, y>> \in R \/ <<y, x>> \in R
  /\ \A x, y, z \in S : <<x, y>> \in R /\ <<y, z>> \in R => <<x, z>> \in R

IsFirst(R, S, x) == x \in S /\ \A y \in S \ {x} : <<x, y>> \in R

\* Of finitely many elements one is the first.
LEMMA FirstExists ==
  ASSUME NEW S, IsFiniteSet(S), S # {}, NEW R, Orders(R, S)
  PROVE  \E x : IsFirst(R, S, x)
<1> DEFINE before(x) == {y \in S : <<y, x>> \in R}
           f == [x \in S |-> Cardinality(before(x))]
<1>1. \A x \in S : IsFiniteSet(before(x)) /\ Cardinality(before(x)) \in Nat
  <2> TAKE x \in S
  <2>1. IsFiniteSet(before(x))
    BY FS_Subset
  <2> QED
    BY <2>1, FS_CardinalityType
<1>2. f \in [S -> Nat]
  BY <1>1
<1>3. PICK x \in S : \A y \in S : f[x] <= f[y]
  <2> HIDE DEF f
  <2> QED
    BY <1>2, CheapestExists
<1>4. ASSUME NEW y \in S \ {x}, <<x, y>> \notin R
      PROVE  FALSE
  <2>1. <<y, x>> \in R
    BY <1>4 DEF Orders
  <2>2. before(y) \subseteq before(x) /\ y \in before(x) /\ y \notin before(y)
    BY <2>1 DEF Orders
  <2>3. before(y) # before(x)
    BY <2>2
  <2>4. IsFiniteSet(before(x))
    BY <1>1
  <2>5. Cardinality(before(y)) <= Cardinality(before(x))
        /\ Cardinality(before(y)) # Cardinality(before(x))
    <3> HIDE DEF before
    <3> QED
      BY <2>2, <2>3, <2>4, FS_Subset
  <2>6. f[x] <= f[y] /\ f[x] = Cardinality(before(x))
        /\ f[y] = Cardinality(before(y))
    BY <1>3
  <2>7. Cardinality(before(x)) \in Nat /\ Cardinality(before(y)) \in Nat
    BY <1>1
  <2> HIDE DEF before, f
  <2> QED
    BY <2>5, <2>6, <2>7
<1> QED
  BY <1>4 DEF IsFirst

\* A distance is a number unless both sets are empty, it is never below 0 or
\* above 1, and the same in both directions.
LEMMA DistanceProperties ==
  ASSUME NEW a, NEW b, IsFiniteSet(a), IsFiniteSet(b)
  PROVE  /\ GetDistance(a, b) = GetDistance(b, a)
         /\ GetDistance(a, b)[1] \in Nat /\ GetDistance(a, b)[2] \in Nat
         /\ GetDistance(a, b) = <<GetDistance(a, b)[1], GetDistance(a, b)[2]>>
         /\ GetDistance(a, b)[1] <= GetDistance(a, b)[2]
         /\ GetDistance(a, b)[2] = 0 <=> a = {} /\ b = {}
<1>1. IsFiniteSet(a \cup b) /\ a \cap b \subseteq a \cup b
  BY FS_Union
<1>2. /\ IsFiniteSet(a \cap b) /\ Cardinality(a \cap b) <= Cardinality(a \cup b)
      /\ Cardinality(a \cap b) \in Nat /\ Cardinality(a \cup b) \in Nat
  BY <1>1, FS_Subset, FS_CardinalityType
<1>3. Cardinality(a \cup b) = 0 <=> a \cup b = {}
  BY <1>1, FS_EmptySet
<1>4. a \cup b = b \cup a /\ a \cap b = b \cap a
  OBVIOUS
<1>5. a \cup b = {} <=> a = {} /\ b = {}
  OBVIOUS
<1> QED
  BY <1>2, <1>3, <1>4, <1>5 DEF GetDistance

Covers(list) ==
  /\ Len(list) \in Nat
  /\ \A i \in 1 .. Len(list) : IsFiniteSet(list[i])

\* Everything, and the distances of x to the sets at the first n of p.
Distances(list, x, p, n) ==
  {Everything} \cup {GetDistance(x, list[p[m]]) : m \in 1 .. n}

\* y is the least of the distances of x to the sets at the first n of p.
IsNearest(list, x, p, n, y) ==
  /\ y \in Fractions
  /\ y \in Distances(list, x, p, n)
  /\ AtMost(y, Everything)
  /\ \A m \in 1 .. n : AtMost(y, GetDistance(x, list[p[m]]))

\* One more distance is taken into the least.
LEMMA LesserProperties ==
  ASSUME NEW y \in Fractions, NEW d, d[1] \in Nat, d[2] \in Nat, d = <<d[1], d[2]>>
  PROVE  /\ Lesser(y, d) \in Fractions
         /\ Lesser(y, d) \in {y, d}
         /\ AtMost(Lesser(y, d), y)
         /\ AtMost(Lesser(y, d), d)
         /\ \A z \in Fractions : AtMost(y, z) => AtMost(Lesser(y, d), z)
<1>1. CASE Less(d, y)
  <2>1. Lesser(y, d) = d
    BY <1>1 DEF Lesser
  <2>2. d[2] # 0
    <3>1. y[1] \in Int /\ y[2] \in Nat \ {0}
      BY DEF Fractions
    <3>2. d[1] * y[2] < y[1] * d[2]
      BY <1>1 DEF Less
    <3>3. d[2] = 0 => y[1] * d[2] = 0 /\ d[1] * y[2] >= 0
      BY <3>1
    <3> QED
      BY <3>1, <3>2, <3>3
  <2>3. d \in Fractions
    BY <2>2 DEF Fractions
  <2>4. AtMost(d, y) /\ AtMost(d, d)
    BY <1>1, <2>3, AtMostOrder
  <2>5. \A z \in Fractions : AtMost(y, z) => AtMost(d, z)
    BY <2>3, <2>4, AtMostOrder
  <2> QED
    BY <2>1, <2>3, <2>4, <2>5
<1>2. CASE ~Less(d, y)
  <2>1. Lesser(y, d) = y
    BY <1>2 DEF Lesser
  <2>2. AtMost(y, y) /\ AtMost(y, d)
    BY <1>2, AtMostOrder DEF AtMost
  <2> QED
    BY <2>1, <2>2
<1> QED
  BY <1>1, <1>2

\* Nearest gives the least distance.
LEMMA NearestProperties ==
  ASSUME NEW list, Covers(list), NEW i \in 1 .. Len(list), NEW n \in Nat, NEW p,
         \A m \in 1 .. n : p[m] \in 1 .. Len(list)
  PROVE  IsNearest(list, list[i], p, n, Nearest(list, i, p, n))
<1> DEFINE D(m) == GetDistance(list[i], list[p[m]])
           step == [m \in 1 .. n |-> [y \in Fractions |-> Lesser(y, D(m))]]
           Is(f) == f = [m \in 0 .. n |->
                           IF m = 0 THEN Everything ELSE Lesser(f[m - 1], D(m))]
<1>1. \A m \in 1 .. n : /\ D(m)[1] \in Nat /\ D(m)[2] \in Nat
                        /\ D(m) = <<D(m)[1], D(m)[2]>>
  BY DistanceProperties DEF Covers
<1> HIDE DEF D
<1>2. Everything \in Fractions
  BY DEF Everything, Fractions
<1>3. step \in [1 .. n -> [Fractions -> Fractions]]
  <2>1. \A m \in 1 .. n, y \in Fractions : Lesser(y, D(m)) \in Fractions
    BY <1>1, LesserProperties
  <2> QED
    BY <2>1
<1>4. PICK f \in [0 .. n -> Fractions] : Iterates(f, Everything, n, step)
  <2> HIDE DEF step
  <2> QED
    BY <1>2, <1>3, IterationExists
<1>5. \A m \in 0 .. n : m # 0 => m \in 1 .. n /\ m - 1 \in 0 .. n
  OBVIOUS
<1>6. f[0] = Everything /\ \A m \in 1 .. n : f[m] = Lesser(f[m - 1], D(m))
  <2>1. f[0] = Everything
    BY <1>4 DEF Iterates
  <2>2. ASSUME NEW m \in 1 .. n PROVE f[m] = Lesser(f[m - 1], D(m))
    <3>1. m - 1 \in 0 .. n
      OBVIOUS
    <3>2. f[m] = step[m][f[m - 1]] /\ f[m - 1] \in Fractions
      BY <1>4, <3>1 DEF Iterates
    <3> QED
      BY <3>2
  <2> QED
    BY <2>1, <2>2
<1>7. Is(f)
  <2>1. f = [m \in 0 .. n |-> f[m]]
    BY <1>4
  <2>2. \A m \in 0 .. n :
          f[m] = IF m = 0 THEN Everything ELSE Lesser(f[m - 1], D(m))
    BY <1>5, <1>6
  <2> QED
    BY <2>1, <2>2
<1>8. ASSUME NEW h, Is(h) PROVE h = f
  <2> DEFINE H == {m \in 0 .. n : h[m] = f[m]}
  <2>1. \A m \in 0 .. n :
          h[m] = IF m = 0 THEN Everything ELSE Lesser(h[m - 1], D(m))
    BY <1>8
  <2>2. 0 \in H
    BY <1>6, <2>1
  <2>3. ASSUME NEW m \in 0 .. n - 1, m \in H PROVE m + 1 \in H
    <3>1. m + 1 \in 1 .. n /\ m + 1 \in 0 .. n /\ m + 1 # 0 /\ (m + 1) - 1 = m
      OBVIOUS
    <3>2. h[m + 1] = Lesser(h[m], D(m + 1)) /\ f[m + 1] = Lesser(f[m], D(m + 1))
      BY <1>6, <2>1, <3>1
    <3> QED
      BY <2>3, <3>1, <3>2
  <2>4. \A m \in 0 .. n : m \in H
    <3> HIDE DEF H
    <3> QED
      BY <2>2, <2>3, UpTo
  <2>5. h = [m \in 0 .. n |-> h[m]] /\ f = [m \in 0 .. n |-> f[m]]
    BY <1>4, <1>8
  <2> QED
    BY <2>4, <2>5
<1>9. Nearest(list, i, p, n) = f[n]
  <2> DEFINE After == CHOOSE h : Is(h)
  <2>1. Nearest(list, i, p, n) = After[n]
    BY DEF Nearest, D
  <2>2. After = f
    <3> HIDE DEF Is
    <3> QED
      BY <1>7, <1>8
  <2> HIDE DEF After
  <2> QED
    BY <2>1, <2>2
<1> DEFINE Dist(m) == {Everything} \cup {D(j) : j \in 1 .. m}
           G == {m \in 0 .. n : /\ f[m] \in Dist(m)
                                /\ AtMost(f[m], Everything)
                                /\ \A j \in 1 .. m : AtMost(f[m], D(j))}
<1>10. 0 \in G
  BY <1>2, <1>6, AtMostOrder
<1>11. ASSUME NEW m \in 0 .. n - 1, m \in G PROVE m + 1 \in G
  <2>1. m + 1 \in 1 .. n /\ m + 1 \in 0 .. n /\ m \in 0 .. n
        /\ (m + 1) - 1 = m /\ \A j \in 1 .. m + 1 : j = m + 1 \/ j \in 1 .. m
    OBVIOUS
  <2>2. f[m + 1] = Lesser(f[m], D(m + 1)) /\ f[m] \in Fractions
    BY <1>4, <1>6, <2>1
  <2>3. /\ f[m + 1] \in Fractions /\ f[m + 1] \in {f[m], D(m + 1)}
        /\ AtMost(f[m + 1], f[m]) /\ AtMost(f[m + 1], D(m + 1))
    BY <1>1, <2>1, <2>2, LesserProperties
  <2>4. f[m + 1] \in Dist(m + 1)
    <3>1. f[m] \in Dist(m) /\ 1 .. m \subseteq 1 .. m + 1 /\ m + 1 \in 1 .. m + 1
      BY <1>11
    <3> QED
      BY <2>3, <3>1
  <2>5. AtMost(f[m + 1], Everything)
    BY <1>2, <1>11, <2>2, <2>3, AtMostOrder
  <2>6. ASSUME NEW j \in 1 .. m PROVE AtMost(f[m + 1], D(j))
    <3>1. j \in 1 .. n /\ AtMost(f[m], D(j))
      BY <1>11
    <3>2. CASE D(j)[2] = 0
      <4>1. f[m + 1][1] \in Int /\ f[m + 1][2] \in Nat \ {0} /\ D(j)[1] \in Nat
        BY <1>1, <2>3, <3>1 DEF Fractions
      <4>2. f[m + 1][1] * D(j)[2] = 0 /\ D(j)[1] * f[m + 1][2] >= 0
        BY <3>2, <4>1
      <4> QED
        BY <4>1, <4>2 DEF AtMost, Less
    <3>3. CASE D(j)[2] # 0
      <4>1. D(j) \in Fractions
        BY <1>1, <3>1, <3>3 DEF Fractions
      <4> QED
        BY <2>2, <2>3, <3>1, <4>1, AtMostOrder
    <3> QED
      BY <3>2, <3>3
  <2> QED
    BY <2>1, <2>3, <2>4, <2>5, <2>6
<1>12. n \in G
  <2> HIDE DEF G
  <2>1. \A m \in 0 .. n : m \in G
    BY <1>10, <1>11, UpTo
  <2> QED
    BY <2>1
<1>13. /\ f[n] \in Fractions /\ f[n] \in Dist(n) /\ AtMost(f[n], Everything)
       /\ \A m \in 1 .. n : AtMost(f[n], D(m))
  BY <1>4, <1>12
<1> QED
  BY <1>9, <1>13 DEF IsNearest, Distances, D

\* The first, in the order T, of those with the greatest distance.
IsFirstFarthest(D, T, S, x) ==
  x \in S /\ \A y \in S \ {x} :
    Less(D[y], D[x]) \/ (~Less(D[x], D[y]) /\ <<x, y>> \in T)

LEMMA FarthestExists ==
  ASSUME NEW S, IsFiniteSet(S), S # {}, NEW D \in [S -> Fractions], NEW T,
         Orders(T, S)
  PROVE  \E x : IsFirstFarthest(D, T, S, x)
<1> DEFINE B(x, y) == Less(D[y], D[x]) \/ (~Less(D[x], D[y]) /\ <<x, y>> \in T)
           R == {q \in S \X S : B(q[1], q[2])}
<1>1. \A x, y \in S : <<x, y>> \in R <=> B(x, y)
  OBVIOUS
<1>2. \A x \in S : ~B(x, x)
  <2> TAKE x \in S
  <2>1. ~Less(D[x], D[x])
    BY AtMostOrder DEF AtMost
  <2> QED
    BY <2>1 DEF Orders
<1>3. \A x, y \in S : x = y \/ B(x, y) \/ B(y, x)
  BY DEF Orders
<1>4. \A x, y, z \in S : B(x, y) /\ B(y, z) => B(x, z)
  <2> SUFFICES ASSUME NEW x \in S, NEW y \in S, NEW z \in S, B(x, y), B(y, z)
               PROVE  B(x, z)
    OBVIOUS
  <2>1. AtMost(D[y], D[x]) /\ AtMost(D[z], D[y])
    BY AtMostOrder DEF AtMost
  <2>2. AtMost(D[z], D[x])
    BY <2>1, AtMostOrder
  <2>3. CASE Less(D[z], D[x])
    BY <2>3
  <2>4. CASE ~Less(D[z], D[x])
    <3>1. AtMost(D[x], D[z])
      BY <2>4 DEF AtMost
    <3>2. AtMost(D[x], D[y]) /\ AtMost(D[y], D[z])
      BY <2>1, <3>1, AtMostOrder
    <3>3. <<x, y>> \in T /\ <<y, z>> \in T
      BY <3>2 DEF AtMost
    <3>4. <<x, z>> \in T
      BY <3>3 DEF Orders
    <3> QED
      BY <2>2, <3>4 DEF AtMost
  <2> QED
    BY <2>3, <2>4
<1> HIDE DEF B, R
<1>5. Orders(R, S)
  BY <1>1, <1>2, <1>3, <1>4 DEF Orders
<1>6. PICK x : IsFirst(R, S, x)
  BY <1>5, FirstExists
<1>7. IsFirstFarthest(D, T, S, x)
  BY <1>1, <1>6 DEF B, IsFirst, IsFirstFarthest
<1> QED
  BY <1>7

\* FarthestCover gives a cover that is not among those chosen, and none is
\* farther from them.
IsFarthest(list, p, n, i) ==
  /\ i \in (1 .. Len(list)) \ Chosen(p, n)
  /\ \A j \in (1 .. Len(list)) \ Chosen(p, n) :
       AtMost(Nearest(list, j, p, n), Nearest(list, i, p, n))

LEMMA FarthestCoverProperties ==
  ASSUME NEW list, Covers(list), NEW n \in Nat, NEW p,
         \A m \in 1 .. n : p[m] \in 1 .. Len(list),
         (1 .. Len(list)) \ Chosen(p, n) # {}
  PROVE  IsFarthest(list, p, n, FarthestCover(list, p, n))
<1> DEFINE D(i) == Nearest(list, i, p, n)
           others == (1 .. Len(list)) \ Chosen(p, n)
           F == [i \in others |-> D(i)]
           T == {q \in others \X others : q[1] < q[2]}
           Is(i) == \A j \in others \ {i} :
                      Less(D(j), D(i)) \/ (~Less(D(i), D(j)) /\ i < j)
<1>1. \A i \in others : D(i) \in Fractions
  BY NearestProperties DEF IsNearest
<1>2. IsFiniteSet(others)
  <2>1. IsFiniteSet(1 .. Len(list))
    BY FS_Interval DEF Covers
  <2> QED
    BY <2>1, FS_Subset
<1>3. others \subseteq Nat /\ others # {}
  OBVIOUS
<1> HIDE DEF D, others
<1>4. F \in [others -> Fractions] /\ \A i \in others : F[i] = D(i)
  BY <1>1
<1>5. /\ \A x, y \in others : <<x, y>> \in T <=> x < y
      /\ Orders(T, others)
  <2>1. \A x, y \in others : <<x, y>> \in T <=> x < y
    OBVIOUS
  <2> HIDE DEF T
  <2> QED
    BY <1>3, <2>1 DEF Orders
<1> HIDE DEF F, T
<1>6. PICK x : IsFirstFarthest(F, T, others, x)
  BY <1>2, <1>3, <1>4, <1>5, FarthestExists
<1>7. x \in others /\ Is(x)
  BY <1>4, <1>5, <1>6 DEF IsFirstFarthest
<1> DEFINE i == CHOOSE k \in others : Is(k)
<1>8. i \in others /\ Is(i)
  <2> HIDE DEF Is
  <2> QED
    BY <1>7
<1>9. FarthestCover(list, p, n) = i
  BY DEF FarthestCover, D, others
<1> HIDE DEF i
<1>10. \A j \in others : AtMost(D(j), D(i))
  <2> TAKE j \in others
  <2>1. CASE j = i
    BY <1>1, <2>1, AtMostOrder
  <2>2. CASE j # i
    <3>1. Less(D(j), D(i)) \/ ~Less(D(i), D(j))
      BY <1>8, <2>2
    <3> QED
      BY <1>1, <1>8, <3>1, AtMostOrder DEF AtMost
  <2> QED
    BY <2>1, <2>2
<1> QED
  BY <1>8, <1>9, <1>10 DEF IsFarthest, D, others

\* FarthestPair gives two covers none are farther apart than, if any two are
\* apart at all.
IsFarthestPair(list, far) ==
  /\ far.pair \in (1 .. Len(list)) \X (1 .. Len(list))
  /\ far.distance \in Fractions
  /\ \A i, j \in 1 .. Len(list) :
       i < j /\ GetDistance(list[i], list[j]) \in Fractions =>
         /\ far.pair[1] < far.pair[2]
         /\ far.distance = GetDistance(list[far.pair[1]], list[far.pair[2]])
         /\ AtMost(GetDistance(list[i], list[j]), far.distance)

LEMMA FarthestPairProperties ==
  ASSUME NEW list, Covers(list), Len(list) >= 1
  PROVE  IsFarthestPair(list, FarthestPair(list))
<1> DEFINE N == 1 .. Len(list)
           D(p) == GetDistance(list[p[1]], list[p[2]])
           pairs == {p \in N \X N : p[1] < p[2] /\ Less(Nothing, D(p))}
           Before(p, q) == p[1] < q[1] \/ (p[1] = q[1] /\ p[2] < q[2])
           Is(p) == \A q \in pairs \ {p} :
                      Less(D(q), D(p)) \/ (~Less(D(p), D(q)) /\ Before(p, q))
           first == CHOOSE p \in pairs : Is(p)
           far == FarthestPair(list)
<1>1. \A p \in N \X N : /\ D(p)[1] \in Nat /\ D(p)[2] \in Nat
                        /\ D(p) = <<D(p)[1], D(p)[2]>>
  <2> TAKE p \in N \X N
  <2>1. IsFiniteSet(list[p[1]]) /\ IsFiniteSet(list[p[2]])
    BY DEF Covers
  <2> QED
    BY <2>1, DistanceProperties
<1>2. far = IF pairs = {} THEN [pair |-> <<1, 1>>, distance |-> Nothing]
            ELSE [pair |-> first, distance |-> D(first)]
  BY DEF FarthestPair
<1>3. \A p \in N \X N : Less(Nothing, D(p)) <=> D(p) \in Fractions
  <2> TAKE p \in N \X N
  <2>1. PICK d : d = D(p)
    OBVIOUS
  <2>2. d[1] \in Nat /\ d[2] \in Nat /\ d = <<d[1], d[2]>>
    BY <1>1, <2>1
  <2>3. d[2] = 0 => d[1] = 0
    <3>1. IsFiniteSet(list[p[1]]) /\ IsFiniteSet(list[p[2]])
      BY DEF Covers
    <3>2. d[1] <= d[2]
      BY <2>1, <3>1, DistanceProperties
    <3> HIDE DEF D
    <3> QED
      BY <2>2, <3>2
  <2>4. d \in Fractions <=> d[2] # 0
    BY <2>2 DEF Fractions
  <2>5. PICK z : z = Nothing
    OBVIOUS
  <2>6. z[1] = -1 /\ z[2] = 1
    BY <2>5 DEF Nothing
  <2>7. Less(z, d) <=> 0 < d[1] + d[2]
    <3>1. PICK a, b : a = d[1] /\ b = d[2]
      OBVIOUS
    <3>2. (-1) * b < a * 1 <=> 0 < a + b
      BY ONLY <2>2, <3>1
    <3>3. Less(z, d) <=> (-1) * b < a * 1
      BY ONLY <2>6, <3>1 DEF Less
    <3> QED
      BY ONLY <3>1, <3>2, <3>3
  <2>8. Less(z, d) <=> d \in Fractions
    BY ONLY <2>2, <2>3, <2>4, <2>7
  <2> QED
    BY ONLY <2>1, <2>5, <2>8
<1>4. Nothing \in Fractions /\ <<1, 1>> \in N \X N
  BY DEF Nothing, Fractions, Covers
<1>5. pairs \subseteq N \X N /\ \A p \in pairs : D(p) \in Fractions
  BY <1>3
<1>6. IsFiniteSet(pairs)
  <2>0. Len(list) \in Int
    BY DEF Covers
  <2>1. IsFiniteSet(N)
    BY <2>0, FS_Interval
  <2>2. IsFiniteSet(N \X N)
    BY <2>1, FS_Product
  <2> QED
    BY <2>2, FS_Subset
<1>7. ASSUME pairs # {}
      PROVE  first \in pairs /\ Is(first)
  <2> DEFINE F == [p \in pairs |-> D(p)]
             T == {q \in pairs \X pairs : Before(q[1], q[2])}
  <2>1. \A p \in pairs : D(p) \in Fractions /\ p[1] \in Nat /\ p[2] \in Nat
                         /\ p = <<p[1], p[2]>>
    BY <1>3
  <2> HIDE DEF D, pairs
  <2>2. F \in [pairs -> Fractions] /\ \A p \in pairs : F[p] = D(p)
    BY <2>1
  <2>3. \A x, y \in pairs : <<x, y>> \in T <=> Before(x, y)
    OBVIOUS
  <2> HIDE DEF T, F
  <2>4. \A x \in pairs : <<x, x>> \notin T
    BY <2>1, <2>3
  <2>5. \A x, y \in pairs : x = y \/ <<x, y>> \in T \/ <<y, x>> \in T
    <3> TAKE x \in pairs, y \in pairs
    <3>1. x[1] = y[1] /\ x[2] = y[2] => x = y
      BY <2>1
    <3>2. (x[1] = y[1] /\ x[2] = y[2]) \/ Before(x, y) \/ Before(y, x)
      BY <2>1
    <3> QED
      BY <2>3, <3>1, <3>2
  <2>6. \A x, y, z \in pairs :
          <<x, y>> \in T /\ <<y, z>> \in T => <<x, z>> \in T
    <3>1. \A x, y, z \in pairs : Before(x, y) /\ Before(y, z) => Before(x, z)
      BY <2>1
    <3> QED
      BY <2>3, <3>1
  <2>a. Orders(T, pairs)
    BY <2>4, <2>5, <2>6 DEF Orders
  <2>7. PICK x : IsFirstFarthest(F, T, pairs, x)
    BY <1>6, <1>7, <2>2, <2>a, FarthestExists
  <2>8. x \in pairs /\ Is(x)
    BY <2>2, <2>3, <2>7 DEF IsFirstFarthest
  <2> HIDE DEF Is
  <2> QED
    BY <2>8
<1>8. CASE pairs = {}
  <2>1. far = [pair |-> <<1, 1>>, distance |-> Nothing]
    BY <1>2, <1>8
  <2>2. \A i, j \in N : ~(i < j /\ GetDistance(list[i], list[j]) \in Fractions)
    <3> SUFFICES ASSUME NEW i \in N, NEW j \in N, i < j,
                        GetDistance(list[i], list[j]) \in Fractions
                 PROVE  FALSE
      OBVIOUS
    <3>1. <<i, j>> \in N \X N /\ D(<<i, j>>) \in Fractions
      OBVIOUS
    <3>2. <<i, j>> \in pairs
      BY <1>3, <3>1
    <3> QED
      BY <1>8, <3>2
  <2>3. PICK r : r = far
    OBVIOUS
  <2>4. r.pair = <<1, 1>> /\ r.distance = Nothing
    BY ONLY <2>1, <2>3
  <2>5. IsFarthestPair(list, r)
    BY ONLY <1>4, <2>2, <2>4 DEF IsFarthestPair
  <2> QED
    BY ONLY <2>3, <2>5
<1>9. CASE pairs # {}
  <2>1. far = [pair |-> first, distance |-> D(first)]
    BY <1>2, <1>9
  <2>2. first \in pairs /\ Is(first)
    BY <1>7, <1>9
  <2>3. first \in N \X N /\ first[1] < first[2] /\ D(first) \in Fractions
    BY <1>3, <2>2
  <2>4. ASSUME NEW i \in N, NEW j \in N, i < j,
               GetDistance(list[i], list[j]) \in Fractions
        PROVE  AtMost(GetDistance(list[i], list[j]), D(first))
    <3> DEFINE q == <<i, j>>
    <3>1. q \in N \X N /\ D(q) = GetDistance(list[i], list[j])
          /\ q[1] < q[2] /\ D(q) \in Fractions
      BY <2>4
    <3>2. q \in pairs
      BY <1>3, <3>1
    <3>3. q = first \/ Less(D(q), D(first)) \/ ~Less(D(first), D(q))
      BY <2>2, <3>2
    <3> HIDE DEF D, q, first
    <3>4. AtMost(D(q), D(first))
      BY <2>3, <3>1, <3>3, AtMostOrder DEF AtMost
    <3> QED
      BY <3>1, <3>4
  <2>5. PICK r : r = far
    OBVIOUS
  <2>6. PICK p : p = first
    OBVIOUS
  <2>7. PICK d : d = D(p)
    OBVIOUS
  <2>8. r = [pair |-> p, distance |-> d]
    BY ONLY <2>1, <2>5, <2>6, <2>7
  <2>9. r.pair = p /\ r.distance = d
    BY ONLY <2>8
  <2>10. p \in N \X N /\ p[1] < p[2] /\ d \in Fractions
    BY ONLY <2>3, <2>6, <2>7
  <2>11. \A i, j \in N : i < j /\ GetDistance(list[i], list[j]) \in Fractions =>
           AtMost(GetDistance(list[i], list[j]), d)
    BY ONLY <2>4, <2>6, <2>7
  <2>12. d = GetDistance(list[p[1]], list[p[2]])
    BY ONLY <2>7 DEF D
  <2>13. IsFarthestPair(list, r)
    BY ONLY <2>9, <2>10, <2>11, <2>12 DEF IsFarthestPair
  <2> QED
    BY ONLY <2>5, <2>13
<1> QED
  BY <1>8, <1>9

-----------------------------------------------------------------------------
(***************************************************************************)
(* A choice of covers, and what IncMaxmin and Validate make of it.         *)
(***************************************************************************)

\* No position comes twice in the first n of p.
Apart(p, n) == \A a, b \in 1 .. n : p[a] = p[b] => a = b

\* The first n of p are at most n positions, and n if none comes twice.
LEMMA ChosenProperties ==
  ASSUME NEW p, NEW n \in Nat
  PROVE  /\ IsFiniteSet(Chosen(p, n))
         /\ Cardinality(Chosen(p, n)) \in Nat
         /\ Cardinality(Chosen(p, n)) <= n
         /\ Cardinality(Chosen(p, n)) = n <=> Apart(p, n)
<1> DEFINE T == Chosen(p, n)
           f == [m \in 1 .. n |-> p[m]]
<1>1. IsFiniteSet(1 .. n) /\ Cardinality(1 .. n) = n
  BY FS_Interval
<1>2. f \in [1 .. n -> T] /\ \A m \in 1 .. n : f[m] = p[m]
  BY DEF Chosen
<1>3. \A t \in T : \E m \in 1 .. n : f[m] = t
  BY <1>2 DEF Chosen
<1> HIDE DEF f, T
<1>4. f \in Surjection(1 .. n, T)
  BY <1>2, <1>3 DEF Surjection
<1>5. f \in Injection(1 .. n, T) <=> Apart(p, n)
  BY <1>2 DEF Injection, IsInjective, Apart
<1>6. /\ IsFiniteSet(T)
      /\ Cardinality(T) <= Cardinality(1 .. n)
      /\ Cardinality(T) = Cardinality(1 .. n) <=> f \in Injection(1 .. n, T)
  BY <1>1, <1>4, FS_Surjection
<1>7. Cardinality(T) \in Nat
  BY <1>6, FS_CardinalityType
<1> QED
  BY <1>1, <1>5, <1>6, <1>7 DEF T

\* x and y are the same number.
Same(x, y) == AtMost(x, y) /\ AtMost(y, x)

LEMMA SameProperties ==
  ASSUME NEW x \in Fractions, NEW y \in Fractions, NEW z \in Fractions
  PROVE  /\ Same(x, x)
         /\ Same(x, y) => Same(y, x)
         /\ Same(x, y) /\ Same(y, z) => Same(x, z)
         /\ Same(x, y) => /\ AtMost(x, z) <=> AtMost(y, z)
                          /\ AtMost(z, x) <=> AtMost(z, y)
<1>1. /\ AtMost(x, x)
      /\ AtMost(x, y) /\ AtMost(y, z) => AtMost(x, z)
      /\ AtMost(y, x) /\ AtMost(x, z) => AtMost(y, z)
      /\ AtMost(z, y) /\ AtMost(y, x) => AtMost(z, x)
      /\ AtMost(z, x) /\ AtMost(x, y) => AtMost(z, y)
  BY AtMostOrder
<1> QED
  BY <1>1 DEF Same

\* The least distance depends on the sets only.
LEMMA NearestSame ==
  ASSUME NEW x, NEW n \in Nat, NEW list1, NEW list2, NEW p1, NEW p2,
         \A m \in 1 .. n : list1[p1[m]] = list2[p2[m]],
         NEW y, NEW z, IsNearest(list1, x, p1, n, y), IsNearest(list2, x, p2, n, z)
  PROVE  Same(y, z)
<1>1. Distances(list1, x, p1, n) = Distances(list2, x, p2, n)
  BY DEF Distances
<1>2. AtMost(y, z)
  <2>1. z \in Distances(list1, x, p1, n)
    BY <1>1 DEF IsNearest
  <2> QED
    BY <2>1 DEF IsNearest, Distances
<1>3. AtMost(z, y)
  <2>1. y \in Distances(list2, x, p2, n)
    BY <1>1 DEF IsNearest
  <2> QED
    BY <2>1 DEF IsNearest, Distances
<1> QED
  BY <1>2, <1>3 DEF Same

\* The choices of k covers.
Selections(list, k) ==
  [ans : [1 .. k -> 1 .. Len(list)], distances : [1 .. k -> Fractions]]

\* One cover more, which is farthest.
Grown(list, f, n) ==
  LET i == FarthestCover(list, f.ans, n - 1)
  IN [ans |-> [f.ans EXCEPT ![n] = i],
      distances |-> [f.distances EXCEPT ![n] = Nearest(list, i, f.ans, n - 1)]]

Greedy(list, f, n) == IsGreedy(list, f.ans, f.distances, n)

\* No cover is empty.
NoneEmpty(list) ==
  /\ Covers(list)
  /\ \A i \in 1 .. Len(list) : list[i] # {}

LEMMA FilledDistances ==
  ASSUME NEW list, NoneEmpty(list), NEW i \in 1 .. Len(list), NEW j \in 1 .. Len(list)
  PROVE  /\ GetDistance(list[i], list[j]) \in Fractions
         /\ GetDistance(list[i], list[j]) = GetDistance(list[j], list[i])
<1>1. IsFiniteSet(list[i]) /\ IsFiniteSet(list[j]) /\ list[i] # {}
  BY DEF NoneEmpty, Covers
<1>2. PICK d : d = GetDistance(list[i], list[j])
  OBVIOUS
<1>3. /\ d = GetDistance(list[j], list[i])
      /\ d[1] \in Nat /\ d[2] \in Nat /\ d = <<d[1], d[2]>> /\ d[2] # 0
  BY <1>1, <1>2, DistanceProperties
<1>4. d \in Fractions
  BY <1>3 DEF Fractions
<1> QED
  BY <1>2, <1>3, <1>4

\* What IsGreedy says, in these words.
GreedyFirst(list, p, d) ==
  /\ Same(d[1], GetDistance(list[p[1]], list[p[2]]))
  /\ \A i, j \in 1 .. Len(list) : i # j =>
       AtMost(GetDistance(list[i], list[j]), d[1])

GreedyNext(list, p, d, m) ==
  /\ Same(d[m + 1], Nearest(list, p[m + 1], p, m))
  /\ \A i \in (1 .. Len(list)) \ Chosen(p, m) :
       AtMost(Nearest(list, i, p, m), d[m + 1])

LEMMA GreedyParts ==
  ASSUME NEW list, NEW p, NEW d, NEW n \in Nat
  PROVE  IsGreedy(list, p, d, n) <=>
           (n > 0 => /\ Apart(p, n)
                     /\ GreedyFirst(list, p, d)
                     /\ \A m \in 2 .. n - 1 : GreedyNext(list, p, d, m))
<1>1. Cardinality(Chosen(p, n)) = n <=> Apart(p, n)
  BY ChosenProperties
<1>2. \A m \in 2 .. n - 1 : GreedyNext(list, p, d, m) <=>
        /\ ~Less(d[m + 1], Nearest(list, p[m + 1], p, m))
           /\ ~Less(Nearest(list, p[m + 1], p, m), d[m + 1])
        /\ \A i \in (1 .. Len(list)) \ Chosen(p, m) :
             ~Less(d[m + 1], Nearest(list, i, p, m))
  BY DEF GreedyNext, Same, AtMost
<1>3. GreedyFirst(list, p, d) <=>
        /\ ~Less(d[1], GetDistance(list[p[1]], list[p[2]]))
           /\ ~Less(GetDistance(list[p[1]], list[p[2]]), d[1])
        /\ \A i, j \in 1 .. Len(list) : i # j =>
             ~Less(d[1], GetDistance(list[i], list[j]))
  BY DEF GreedyFirst, Same, AtMost
<1>4. IsGreedy(list, p, d, n) <=>
        (n > 0 =>
          /\ Cardinality(Chosen(p, n)) = n
          /\ ~Less(d[1], GetDistance(list[p[1]], list[p[2]]))
             /\ ~Less(GetDistance(list[p[1]], list[p[2]]), d[1])
          /\ \A i, j \in 1 .. Len(list) : i # j =>
               ~Less(d[1], GetDistance(list[i], list[j]))
          /\ \A m \in 2 .. n - 1 :
               /\ ~Less(d[m + 1], Nearest(list, p[m + 1], p, m))
                  /\ ~Less(Nearest(list, p[m + 1], p, m), d[m + 1])
               /\ \A i \in (1 .. Len(list)) \ Chosen(p, m) :
                    ~Less(d[m + 1], Nearest(list, i, p, m)))
  BY DEF IsGreedy
<1> QED
  BY ONLY <1>1, <1>2, <1>3, <1>4

\* A choice that is not of all covers leaves some.
LEMMA OthersLeft ==
  ASSUME NEW N \in Nat, NEW p, NEW n \in Nat, n < N
  PROVE  (1 .. N) \ Chosen(p, n) # {}
<1>1. SUFFICES ASSUME 1 .. N \subseteq Chosen(p, n) PROVE FALSE
  OBVIOUS
<1>2. Cardinality(1 .. N) = N
  BY FS_Interval
<1>3. IsFiniteSet(Chosen(p, n)) /\ Cardinality(Chosen(p, n)) <= n
      /\ Cardinality(Chosen(p, n)) \in Nat
  BY ChosenProperties
<1>4. Cardinality(1 .. N) <= Cardinality(Chosen(p, n))
  BY <1>1, <1>3, FS_Subset
<1> QED
  BY <1>2, <1>3, <1>4

\* One step of IncMaxmin's loop: the choice stays one, and greedy.
LEMMA GrownProperties ==
  ASSUME NEW list, Covers(list), NEW k \in Nat, k <= Len(list),
         NEW f \in Selections(list, k), NEW n \in 3 .. k
  PROVE  /\ Grown(list, f, n) \in Selections(list, k)
         /\ NoneEmpty(list) /\ Greedy(list, f, n - 1) => Greedy(list, Grown(list, f, n), n)
<1> DEFINE N == Len(list)
<1>0. N \in Nat
  BY DEF Covers
<1>1. PICK p, d : p = f.ans /\ d = f.distances
  OBVIOUS
<1>2. p \in [1 .. k -> 1 .. N] /\ d \in [1 .. k -> Fractions] /\ n - 1 \in 2 .. k - 1
  BY <1>1 DEF Selections
<1>3. PICK i : i = FarthestCover(list, p, n - 1)
  OBVIOUS
<1>4. PICK y : y = Nearest(list, i, p, n - 1)
  OBVIOUS
<1>5. IsFarthest(list, p, n - 1, i)
  <2>1. (1 .. N) \ Chosen(p, n - 1) # {}
    BY <1>0, <1>2, OthersLeft
  <2>2. \A m \in 1 .. n - 1 : p[m] \in 1 .. N
    BY <1>2
  <2> QED
    BY <1>2, <1>3, <2>1, <2>2, FarthestCoverProperties
<1>6. i \in 1 .. N /\ i \notin Chosen(p, n - 1)
  BY <1>5 DEF IsFarthest
<1>7. IsNearest(list, list[i], p, n - 1, y)
  BY <1>2, <1>4, <1>6, NearestProperties
<1>8. y \in Fractions
  BY <1>7 DEF IsNearest
<1>9. PICK q, e : q = [p EXCEPT ![n] = i] /\ e = [d EXCEPT ![n] = y]
  OBVIOUS
<1>10. Grown(list, f, n) = [ans |-> q, distances |-> e]
  BY <1>1, <1>3, <1>4, <1>9 DEF Grown
<1>11. q \in [1 .. k -> 1 .. N] /\ e \in [1 .. k -> Fractions]
  BY <1>2, <1>6, <1>8, <1>9
<1>12. /\ q[n] = i /\ e[n] = y
       /\ \A m \in 1 .. n - 1 : q[m] = p[m] /\ e[m] = d[m]
  BY <1>2, <1>9
<1>13. Grown(list, f, n) \in Selections(list, k)
  BY <1>10, <1>11 DEF Selections
<1>14. ASSUME NoneEmpty(list), Greedy(list, f, n - 1)
       PROVE  Greedy(list, Grown(list, f, n), n)
  <2>1. /\ Apart(p, n - 1)
        /\ GreedyFirst(list, p, d)
        /\ \A m \in 2 .. n - 2 : GreedyNext(list, p, d, m)
    <3>1. IsGreedy(list, p, d, n - 1)
      BY <1>1, <1>14 DEF Greedy
    <3>2. n - 1 \in Nat /\ n - 1 > 0 /\ (n - 1) - 1 = n - 2
      OBVIOUS
    <3> QED
      BY <3>1, <3>2, GreedyParts
  <2>2. Apart(q, n)
    <3>1. \A a \in 1 .. n - 1 : p[a] # i
      BY <1>6 DEF Chosen
    <3>2. \A a \in 1 .. n : a = n \/ a \in 1 .. n - 1
      OBVIOUS
    <3> QED
      BY <1>12, <2>1, <3>1, <3>2 DEF Apart
  <2>3. GreedyFirst(list, q, e)
    <3>1. q[1] = p[1] /\ q[2] = p[2] /\ e[1] = d[1]
      BY <1>12
    <3> QED
      BY <2>1, <3>1 DEF GreedyFirst
  <2>4. \A m \in 1 .. n - 1 : Chosen(q, m) = Chosen(p, m)
    <3> TAKE m \in 1 .. n - 1
    <3>1. \A j \in 1 .. m : j \in 1 .. n - 1
      OBVIOUS
    <3> QED
      BY <1>12, <3>1 DEF Chosen
  <2>5. \A m \in 1 .. n - 1, j \in 1 .. N :
          /\ Nearest(list, j, q, m) \in Fractions /\ Nearest(list, j, p, m) \in Fractions
          /\ Same(Nearest(list, j, p, m), Nearest(list, j, q, m))
    <3> TAKE m \in 1 .. n - 1, j \in 1 .. N
    <3>1. /\ \A a \in 1 .. m : p[a] \in 1 .. N /\ q[a] \in 1 .. N /\ p[a] = q[a]
          /\ m \in Nat
      BY <1>2, <1>11, <1>12
    <3>2. /\ IsNearest(list, list[j], p, m, Nearest(list, j, p, m))
          /\ IsNearest(list, list[j], q, m, Nearest(list, j, q, m))
      BY <3>1, NearestProperties
    <3>3. Same(Nearest(list, j, p, m), Nearest(list, j, q, m))
      BY <3>1, <3>2, NearestSame
    <3> QED
      BY <3>2, <3>3 DEF IsNearest
  <2>6. ASSUME NEW m \in 2 .. n - 1 PROVE GreedyNext(list, q, e, m)
    <3>1. CASE m # n - 1
      <4>1. m \in 2 .. n - 2 /\ m \in 1 .. n - 1 /\ m + 1 \in 1 .. n - 1
        BY <3>1
      <4>2. q[m + 1] = p[m + 1] /\ e[m + 1] = d[m + 1] /\ p[m + 1] \in 1 .. N
            /\ d[m + 1] \in Fractions
        BY <1>2, <1>12, <4>1
      <4>3. GreedyNext(list, p, d, m)
        BY <2>1, <4>1
      <4>4. Same(e[m + 1], Nearest(list, q[m + 1], q, m))
        BY <2>5, <4>1, <4>2, <4>3, SameProperties DEF GreedyNext
      <4>5. \A j \in (1 .. N) \ Chosen(q, m) : AtMost(Nearest(list, j, q, m), e[m + 1])
        <5> TAKE j \in (1 .. N) \ Chosen(q, m)
        <5>1. AtMost(Nearest(list, j, p, m), d[m + 1])
          BY <2>4, <4>1, <4>3 DEF GreedyNext
        <5> QED
          BY <2>5, <4>1, <4>2, <5>1, SameProperties
      <4> QED
        BY <4>4, <4>5 DEF GreedyNext
    <3>2. CASE m = n - 1
      <4>1. m + 1 = n /\ m \in 1 .. n - 1
        BY <3>2
      <4>2. Same(e[m + 1], Nearest(list, q[m + 1], q, m))
        BY <1>4, <1>6, <1>8, <1>12, <2>5, <3>2, <4>1
      <4>3. \A j \in (1 .. N) \ Chosen(q, m) : AtMost(Nearest(list, j, q, m), e[m + 1])
        <5> TAKE j \in (1 .. N) \ Chosen(q, m)
        <5>1. AtMost(Nearest(list, j, p, m), y)
          BY <1>4, <1>5, <2>4, <3>2, <4>1 DEF IsFarthest
        <5>2. e[m + 1] = y
          BY <1>12, <4>1
        <5> QED
          BY <1>8, <2>5, <4>1, <5>1, <5>2, SameProperties
      <4> QED
        BY <4>2, <4>3 DEF GreedyNext
    <3> QED
      BY <3>1, <3>2
  <2>7. IsGreedy(list, q, e, n)
    <3>1. n \in Nat
      OBVIOUS
    <3> QED
      BY <2>2, <2>3, <2>6, <3>1, GreedyParts
  <2> QED
    BY <1>10, <2>7 DEF Greedy
<1> QED
  BY <1>13, <1>14

\* What IncMaxmin's loop starts from.
Started(list, p, d, c) ==
  IF c # 0 THEN [ans |-> p, distances |-> d]
  ELSE [ans |-> [p EXCEPT ![1] = FarthestPair(list).pair[1],
                          ![2] = FarthestPair(list).pair[2]],
        distances |-> [d EXCEPT ![1] = FarthestPair(list).distance,
                                ![2] = FarthestPair(list).distance]]

LEMMA StartedProperties ==
  ASSUME NEW list, Covers(list), NEW k \in Nat, 2 <= k, k <= Len(list),
         NEW p \in [1 .. k -> 1 .. Len(list)], NEW d \in [1 .. k -> Fractions],
         NEW c \in {0} \cup 2 .. k
  PROVE  /\ Started(list, p, d, c) \in Selections(list, k)
         /\ NoneEmpty(list) /\ IsGreedy(list, p, d, c) =>
              Greedy(list, Started(list, p, d, c), IF c = 0 THEN 2 ELSE c)
<1> DEFINE N == Len(list)
<1>0. N \in Nat /\ N >= 2 /\ 1 \in 1 .. k /\ 2 \in 1 .. k
  BY DEF Covers
<1>1. CASE c # 0
  <2>1. PICK f : f = [ans |-> p, distances |-> d]
    OBVIOUS
  <2>2. Started(list, p, d, c) = f /\ f.ans = p /\ f.distances = d
    BY <1>1, <2>1 DEF Started
  <2>3. f \in Selections(list, k)
    BY <2>1 DEF Selections
  <2> QED
    BY <1>1, <2>2, <2>3 DEF Greedy
<1>2. CASE c = 0
  <2>1. PICK far : far = FarthestPair(list)
    OBVIOUS
  <2>2. IsFarthestPair(list, far)
    BY <1>0, <2>1, FarthestPairProperties
  <2>3. PICK a, b, y : a = far.pair[1] /\ b = far.pair[2] /\ y = far.distance
    OBVIOUS
  <2>4. a \in 1 .. N /\ b \in 1 .. N /\ y \in Fractions
    BY <2>2, <2>3 DEF IsFarthestPair
  <2>5. PICK q, e : q = [p EXCEPT ![1] = a, ![2] = b] /\ e = [d EXCEPT ![1] = y, ![2] = y]
    OBVIOUS
  <2>6. Started(list, p, d, c) = [ans |-> q, distances |-> e]
    BY <1>2, <2>1, <2>3, <2>5 DEF Started
  <2>7. q \in [1 .. k -> 1 .. N] /\ e \in [1 .. k -> Fractions]
    BY <2>4, <2>5
  <2>8. q[1] = a /\ q[2] = b /\ e[1] = y
    BY <1>0, <2>5
  <2>9. Started(list, p, d, c) \in Selections(list, k)
    BY <2>6, <2>7 DEF Selections
  <2>10. ASSUME NoneEmpty(list) PROVE Greedy(list, Started(list, p, d, c), 2)
    <3>1. \A i, j \in 1 .. N : i < j =>
            /\ a < b
            /\ y = GetDistance(list[a], list[b])
            /\ AtMost(GetDistance(list[i], list[j]), y)
      <4> SUFFICES ASSUME NEW i \in 1 .. N, NEW j \in 1 .. N, i < j
                   PROVE  /\ a < b
                          /\ y = GetDistance(list[a], list[b])
                          /\ AtMost(GetDistance(list[i], list[j]), y)
        OBVIOUS
      <4>1. GetDistance(list[i], list[j]) \in Fractions
        BY <2>10, FilledDistances
      <4> QED
        BY <2>2, <2>3, <4>1 DEF IsFarthestPair
    <3>2. a < b /\ y = GetDistance(list[a], list[b])
      <4>1. 1 \in 1 .. N /\ 2 \in 1 .. N /\ 1 < 2
        BY <1>0
      <4> QED
        BY <3>1, <4>1
    <3>3. Apart(q, 2)
      <4>1. \A m \in 1 .. 2 : m = 1 \/ m = 2
        OBVIOUS
      <4>2. a # b
        BY <2>4, <3>2
      <4> QED
        BY <2>8, <4>1, <4>2 DEF Apart
    <3>4. GreedyFirst(list, q, e)
      <4>1. Same(y, y)
        BY <2>4, SameProperties
      <4>2. \A i, j \in 1 .. N : i # j => AtMost(GetDistance(list[i], list[j]), y)
        <5> SUFFICES ASSUME NEW i \in 1 .. N, NEW j \in 1 .. N, i # j
                     PROVE  AtMost(GetDistance(list[i], list[j]), y)
          OBVIOUS
        <5>1. GetDistance(list[i], list[j]) = GetDistance(list[j], list[i])
          BY <2>10, FilledDistances
        <5>2. i < j \/ j < i
          OBVIOUS
        <5> QED
          BY <3>1, <5>1, <5>2
      <4> QED
        BY <2>8, <3>2, <4>1, <4>2 DEF GreedyFirst
    <3>5. IsGreedy(list, q, e, 2)
      <4>1. 2 \in Nat /\ \A m \in 2 .. 2 - 1 : FALSE
        OBVIOUS
      <4> QED
        BY <3>3, <3>4, <4>1, GreedyParts
    <3> QED
      BY <2>6, <3>5 DEF Greedy
  <2> QED
    BY <1>2, <2>9, <2>10
<1> QED
  BY <1>1, <1>2

\* IncMaxmin makes of a choice another one, and of one that is greedy in its
\* first c covers one that is greedy in all of them.
LEMMA IncMaxminProperties ==
  ASSUME NEW list, Covers(list), NEW k \in Nat, 2 <= k, k <= Len(list),
         NEW p \in [1 .. k -> 1 .. Len(list)], NEW d \in [1 .. k -> Fractions],
         NEW c \in {0} \cup 2 .. k, Len(p) = k
  PROVE  /\ IncMaxmin(list, p, d, c) \in Selections(list, k)
         /\ NoneEmpty(list) /\ IsGreedy(list, p, d, c) =>
              Greedy(list, IncMaxmin(list, p, d, c), k)
<1> DEFINE C == Selections(list, k)
           start == Started(list, p, d, c)
           Step(x, n) == IF n <= c \/ n = 2 THEN start ELSE Grown(list, x, n)
           Is(F) == F = [n \in 2 .. k |-> Step(F[n - 1], n)]
           step == [j \in 1 .. k - 2 |-> [x \in C |-> Step(x, j + 2)]]
<1>1. start \in C
  BY StartedProperties
<1> HIDE DEF start
<1>2. \A n \in 3 .. k, x \in C : Grown(list, x, n) \in C
  BY GrownProperties
<1> HIDE DEF C
<1>3. k - 2 \in Nat /\ \A j \in 1 .. k - 2 : j + 2 \in 3 .. k
  OBVIOUS
<1>4. \A n \in 3 .. k, x \in C : Step(x, n) \in C
  BY <1>1, <1>2
<1>5. step \in [1 .. k - 2 -> [C -> C]]
  BY <1>3, <1>4
<1>6. PICK g \in [0 .. k - 2 -> C] : Iterates(g, start, k - 2, step)
  <2> HIDE DEF step
  <2> QED
    BY <1>1, <1>3, <1>5, IterationExists
<1>7. g[0] = start /\ \A j \in 1 .. k - 2 : g[j] = Step(g[j - 1], j + 2)
  <2>1. g[0] = start
    BY <1>6 DEF Iterates
  <2>2. ASSUME NEW j \in 1 .. k - 2 PROVE g[j] = Step(g[j - 1], j + 2)
    <3>1. g[j - 1] \in C
      BY <1>6
    <3>2. g[j] = step[j][g[j - 1]]
      BY <1>6 DEF Iterates
    <3> QED
      BY <3>1, <3>2
  <2> QED
    BY <2>1, <2>2
<1> DEFINE f == [n \in 2 .. k |-> g[n - 2]]
<1>8. /\ f \in [2 .. k -> C] /\ f[2] = start
      /\ \A n \in 3 .. k : f[n] = Step(f[n - 1], n)
  <2>1. \A n \in 2 .. k : n - 2 \in 0 .. k - 2
    OBVIOUS
  <2>2. f \in [2 .. k -> C] /\ f[2] = start
    BY <1>6, <1>7, <2>1
  <2>3. ASSUME NEW n \in 3 .. k PROVE f[n] = Step(f[n - 1], n)
    <3>1. n - 2 \in 1 .. k - 2 /\ (n - 2) - 1 = (n - 1) - 2 /\ (n - 2) + 2 = n
          /\ n \in 2 .. k /\ n - 1 \in 2 .. k
      OBVIOUS
    <3>2. f[n] = g[n - 2] /\ f[n - 1] = g[(n - 2) - 1]
      BY <3>1
    <3> HIDE DEF f, Step
    <3>3. g[n - 2] = Step(g[(n - 2) - 1], (n - 2) + 2)
      BY <1>7, <3>1
    <3> QED
      BY <3>1, <3>2, <3>3
  <2> QED
    BY <2>2, <2>3
<1> HIDE DEF f
<1>9. Is(f)
  <2>1. \A n \in 2 .. k : f[n] = Step(f[n - 1], n)
    <3>1. Step(f[2 - 1], 2) = start
      OBVIOUS
    <3>2. \A n \in 2 .. k : n = 2 \/ n \in 3 .. k
      OBVIOUS
    <3> HIDE DEF Step
    <3> QED
      BY <1>8, <3>1, <3>2
  <2>2. f = [n \in 2 .. k |-> f[n]]
    BY <1>8
  <2> HIDE DEF Step
  <2> QED
    BY <2>1, <2>2
<1>10. ASSUME NEW h, Is(h) PROVE h = f
  <2>1. h = [n \in 2 .. k |-> h[n]] /\ \A n \in 2 .. k : h[n] = Step(h[n - 1], n)
    <3> HIDE DEF Step
    <3> QED
      BY <1>10
  <2> DEFINE G == {j \in 0 .. k - 2 : h[j + 2] = f[j + 2]}
  <2>2. 0 \in G
    <3>1. 0 \in 0 .. k - 2 /\ 0 + 2 = 2 /\ 2 \in 2 .. k
      OBVIOUS
    <3>2. h[2] = Step(h[2 - 1], 2)
      <4> HIDE DEF Step
      <4> QED
        BY <2>1, <3>1
    <3>3. Step(h[2 - 1], 2) = start
      OBVIOUS
    <3>4. h[2] = f[2]
      BY ONLY <1>8, <3>2, <3>3
    <3> QED
      BY ONLY <3>1, <3>4
  <2>3. ASSUME NEW j \in 0 .. (k - 2) - 1, j \in G PROVE j + 1 \in G
    <3>1. (j + 1) + 2 \in 3 .. k /\ ((j + 1) + 2) - 1 = j + 2 /\ j + 1 \in 0 .. k - 2
          /\ (j + 1) + 2 \in 2 .. k
      OBVIOUS
    <3>2. h[j + 2] = f[j + 2]
      BY <2>3
    <3> HIDE DEF Step
    <3>3. h[(j + 1) + 2] = Step(h[((j + 1) + 2) - 1], (j + 1) + 2)
          /\ f[(j + 1) + 2] = Step(f[((j + 1) + 2) - 1], (j + 1) + 2)
      BY <1>8, <2>1, <3>1
    <3> QED
      BY <3>1, <3>2, <3>3
  <2>4. \A j \in 0 .. k - 2 : j \in G
    <3> HIDE DEF G
    <3> QED
      BY <1>3, <2>2, <2>3, UpTo
  <2>5. \A n \in 2 .. k : h[n] = f[n]
    <3> TAKE n \in 2 .. k
    <3>1. n - 2 \in 0 .. k - 2 /\ (n - 2) + 2 = n
      OBVIOUS
    <3> QED
      BY <2>4, <3>1
  <2> QED
    BY <1>8, <2>1, <2>5
<1>11. IncMaxmin(list, p, d, c) = f[k]
  <2>1. IncMaxmin(list, p, d, c) = (CHOOSE F : Is(F))[k]
    BY DEF IncMaxmin, start, Started, Grown
  <2>2. (CHOOSE F : Is(F)) = f
    <3> HIDE DEF Is
    <3> QED
      BY <1>9, <1>10
  <2> QED
    BY <2>1, <2>2
<1>12. f[k] \in C
  BY <1>8
<1>13. ASSUME NoneEmpty(list), IsGreedy(list, p, d, c)
       PROVE  Greedy(list, f[k], k)
  <2> DEFINE Size(n) == IF n <= c THEN c ELSE n
             G == {j \in 0 .. k - 2 : Greedy(list, f[j + 2], Size(j + 2))}
  <2>1. Greedy(list, start, Size(2))
    <3>1. Greedy(list, start, IF c = 0 THEN 2 ELSE c)
      BY <1>13, StartedProperties DEF start
    <3> QED
      BY <3>1
  <2>2. 0 \in G
    BY <1>3, <1>8, <2>1
  <2>3. ASSUME NEW j \in 0 .. (k - 2) - 1, j \in G PROVE j + 1 \in G
    <3>1. PICK n : n = (j + 1) + 2
      OBVIOUS
    <3>2. n \in 3 .. k /\ n - 1 = j + 2 /\ n - 1 \in 2 .. k /\ j + 1 \in 0 .. k - 2
      BY <3>1
    <3>3. Greedy(list, f[n - 1], Size(n - 1)) /\ f[n] = Step(f[n - 1], n)
          /\ f[n - 1] \in C
      BY <1>8, <2>3, <3>2
    <3>4. CASE n <= c
      <4>1. f[n] = start /\ Size(2) = c /\ Size(n) = c
        BY <3>2, <3>3, <3>4
      <4>2. Greedy(list, f[n], Size(n))
        BY <2>1, <4>1
      <4> QED
        BY <3>1, <3>2, <4>2
    <3>5. CASE ~(n <= c)
      <4>1. f[n] = Grown(list, f[n - 1], n) /\ Size(n) = n /\ Size(n - 1) = n - 1
        BY <3>2, <3>3, <3>5
      <4>2. Greedy(list, f[n - 1], n - 1)
        BY <3>3, <4>1
      <4>3. Greedy(list, Grown(list, f[n - 1], n), n)
        <5>1. f[n - 1] \in Selections(list, k)
          BY <3>3 DEF C
        <5> QED
          BY <1>13, <3>2, <4>2, <5>1, GrownProperties
      <4>4. Greedy(list, f[n], Size(n))
        BY <4>1, <4>3
      <4> QED
        BY <3>1, <3>2, <4>4
    <3> QED
      BY <3>4, <3>5
  <2>4. \A j \in 0 .. k - 2 : j \in G
    <3> HIDE DEF G
    <3> QED
      BY <1>3, <2>2, <2>3, UpTo
  <2>5. k - 2 \in 0 .. k - 2 /\ (k - 2) + 2 = k /\ Size(k) = k
    OBVIOUS
  <2>6. Greedy(list, f[(k - 2) + 2], Size((k - 2) + 2))
    BY <2>4, <2>5
  <2> QED
    BY <2>5, <2>6
<1> QED
  BY <1>11, <1>12, <1>13 DEF C

\* NewestTo gives one of the distances.
LEMMA NewestToProperties ==
  ASSUME NEW list, NEW n \in Nat, 1 <= n
  PROVE  \E m \in 1 .. n :
           NewestTo(list, n) = GetDistance(list[ans[m]], list[Len(list)])
<1> DEFINE D(m) == GetDistance(list[ans[m]], list[Len(list)])
           S == {D(m) : m \in 1 .. n}
           Is(F) == F = [m \in 1 .. n |->
                           IF m = 1 THEN D(1) ELSE Lesser(F[m - 1], D(m))]
           step == [j \in 1 .. n - 1 |-> [x \in S |-> Lesser(x, D(j + 1))]]
<1>1. n - 1 \in Nat /\ D(1) \in S /\ \A m \in 1 .. n : D(m) \in S
  OBVIOUS
<1>2. \A x \in S, m \in 1 .. n : Lesser(x, D(m)) \in S
  <2> TAKE x \in S, m \in 1 .. n
  <2>1. Lesser(x, D(m)) = x \/ Lesser(x, D(m)) = D(m)
    BY DEF Lesser
  <2> QED
    BY <1>1, <2>1
<1>3. \A j \in 1 .. n - 1 : j + 1 \in 1 .. n
  OBVIOUS
<1> HIDE DEF S
<1>4. step \in [1 .. n - 1 -> [S -> S]]
  <2> HIDE DEF D
  <2> QED
    BY <1>2, <1>3
<1>5. PICK g \in [0 .. n - 1 -> S] : Iterates(g, D(1), n - 1, step)
  <2> HIDE DEF D, step
  <2> QED
    BY <1>1, <1>4, IterationExists
<1>6. g[0] = D(1) /\ \A j \in 1 .. n - 1 : g[j] = Lesser(g[j - 1], D(j + 1))
  <2>1. g[0] = D(1)
    BY <1>5 DEF Iterates
  <2>2. ASSUME NEW j \in 1 .. n - 1 PROVE g[j] = Lesser(g[j - 1], D(j + 1))
    <3>1. g[j - 1] \in S
      BY <1>5
    <3>2. g[j] = step[j][g[j - 1]]
      BY <1>5 DEF Iterates
    <3> QED
      BY <3>1, <3>2
  <2> QED
    BY <2>1, <2>2
<1> DEFINE f == [m \in 1 .. n |-> g[m - 1]]
<1> HIDE DEF D
<1>7. \A m \in 1 .. n : f[m] = IF m = 1 THEN D(1) ELSE Lesser(f[m - 1], D(m))
  <2> TAKE m \in 1 .. n
  <2>1. CASE m = 1
    BY <1>6, <2>1
  <2>2. CASE m # 1
    <3>1. m - 1 \in 1 .. n - 1 /\ (m - 1) + 1 = m /\ m - 1 \in 1 .. n
      BY <2>2
    <3>2. g[m - 1] = Lesser(g[(m - 1) - 1], D((m - 1) + 1))
      BY <1>6, <3>1
    <3>3. f[m] = g[m - 1] /\ f[m - 1] = g[(m - 1) - 1]
      BY <3>1
    <3> QED
      BY <2>2, <3>1, <3>2, <3>3
  <2> QED
    BY <2>1, <2>2
<1>8. f = [m \in 1 .. n |-> f[m]] /\ f \in [1 .. n -> S]
  <2>1. \A m \in 1 .. n : m - 1 \in 0 .. n - 1
    OBVIOUS
  <2> QED
    BY <1>5, <2>1
<1> HIDE DEF f
<1>9. Is(f)
  BY <1>7, <1>8
<1>10. ASSUME NEW h, Is(h) PROVE h = f
  <2>1. h = [m \in 1 .. n |-> h[m]]
        /\ \A m \in 1 .. n : h[m] = IF m = 1 THEN D(1) ELSE Lesser(h[m - 1], D(m))
    BY <1>10
  <2> DEFINE G == {j \in 0 .. n - 1 : h[j + 1] = f[j + 1]}
  <2>2. 0 \in G
    <3>1. 0 \in 0 .. n - 1 /\ 0 + 1 = 1 /\ 1 \in 1 .. n
      BY <1>1
    <3>2. h[1] = f[1]
      BY <1>7, <2>1, <3>1
    <3> QED
      BY ONLY <3>1, <3>2
  <2>3. ASSUME NEW j \in 0 .. (n - 1) - 1, j \in G PROVE j + 1 \in G
    <3>1. PICK m : m = (j + 1) + 1
      OBVIOUS
    <3>2. m \in 1 .. n /\ m - 1 = j + 1 /\ m # 1 /\ j + 1 \in 0 .. n - 1
      BY <3>1
    <3>3. h[m - 1] = f[m - 1]
      BY <2>3, <3>2
    <3>4. h[m] = f[m]
      BY <1>7, <2>1, <3>2, <3>3
    <3> QED
      BY <3>1, <3>2, <3>4
  <2>4. \A j \in 0 .. n - 1 : j \in G
    <3> HIDE DEF G
    <3> QED
      BY <1>1, <2>2, <2>3, UpTo
  <2>5. \A m \in 1 .. n : h[m] = f[m]
    <3> TAKE m \in 1 .. n
    <3>1. m - 1 \in 0 .. n - 1 /\ (m - 1) + 1 = m
      OBVIOUS
    <3> QED
      BY <2>4, <3>1
  <2> QED
    BY <1>8, <2>1, <2>5
<1>11. NewestTo(list, n) = f[n]
  <2>1. NewestTo(list, n) = (CHOOSE F : Is(F))[n]
    BY DEF NewestTo, D
  <2>2. (CHOOSE F : Is(F)) = f
    <3> HIDE DEF Is
    <3> QED
      BY <1>9, <1>10
  <2> QED
    BY <2>1, <2>2
<1>12. f[n] \in S
  BY <1>8
<1> QED
  BY <1>11, <1>12 DEF S, D

\* A choice that is greedy in its first n covers is so in fewer.
LEMMA GreedyCut ==
  ASSUME NEW list, NEW p, NEW d, NEW n \in Nat, NEW m \in 0 .. n,
         IsGreedy(list, p, d, n)
  PROVE  IsGreedy(list, p, d, m)
<1>1. CASE m = 0
  BY <1>1, GreedyParts
<1>2. CASE m > 0
  <2>1. /\ Apart(p, n)
        /\ GreedyFirst(list, p, d)
        /\ \A j \in 2 .. n - 1 : GreedyNext(list, p, d, j)
    BY <1>2, GreedyParts
  <2>2. Apart(p, m)
    <3>1. \A a \in 1 .. m : a \in 1 .. n
      OBVIOUS
    <3> QED
      BY <2>1, <3>1 DEF Apart
  <2>3. \A j \in 2 .. m - 1 : j \in 2 .. n - 1
    OBVIOUS
  <2>4. m \in Nat
    OBVIOUS
  <2> QED
    BY <2>1, <2>2, <2>3, <2>4, GreedyParts
<1> QED
  BY <1>1, <1>2

\* The new cover is nowhere farther than the cover that was chosen there.
NotFarther(list, p, d, c) ==
  /\ \A i \in 1 .. Len(list) - 1 :
       AtMost(GetDistance(list[i], list[Len(list)]), d[1])
  /\ \A m \in 2 .. c - 1 : AtMost(Nearest(list, Len(list), p, m), d[m + 1])

\* Then the choice is greedy among the covers with it.
LEMMA GreedyAppended ==
  ASSUME NEW list, NoneEmpty(list), NEW old, Len(old) = Len(list) - 1, Len(old) \in Nat,
         \A i \in 1 .. Len(old) : old[i] = list[i],
         NEW k \in Nat, NEW p \in [1 .. k -> 1 .. Len(old)],
         NEW d \in [1 .. k -> Fractions], NEW c \in 2 .. k,
         IsGreedy(old, p, d, c), NotFarther(list, p, d, c)
  PROVE  IsGreedy(list, p, d, c)
<1> DEFINE N == Len(old)
<1>1. /\ Len(list) = N + 1 /\ N \in Nat
      /\ \A i \in 1 .. N : i \in 1 .. Len(list)
      /\ Len(list) \in 1 .. Len(list)
      /\ \A i \in 1 .. Len(list) : i \in 1 .. N \/ i = Len(list)
  BY DEF NoneEmpty, Covers
<1>2. Covers(old) /\ Covers(list)
  BY <1>1 DEF NoneEmpty, Covers
<1>3. c \in Nat /\ c > 0 /\ 1 \in 1 .. c /\ 2 \in 1 .. c /\ 1 .. c \subseteq 1 .. k
      /\ \A m \in 2 .. c - 1 : m \in Nat /\ m + 1 \in 1 .. k /\ \A a \in 1 .. m : a \in 1 .. k
  OBVIOUS
<1>4. /\ Apart(p, c)
      /\ GreedyFirst(old, p, d)
      /\ \A m \in 2 .. c - 1 : GreedyNext(old, p, d, m)
  BY <1>3, GreedyParts
<1>5. GreedyFirst(list, p, d)
  <2>1. p[1] \in 1 .. N /\ p[2] \in 1 .. N
    BY <1>3
  <2>2. Same(d[1], GetDistance(list[p[1]], list[p[2]]))
    BY <1>4, <2>1 DEF GreedyFirst
  <2>3. ASSUME NEW i \in 1 .. Len(list), NEW j \in 1 .. Len(list), i # j
        PROVE  AtMost(GetDistance(list[i], list[j]), d[1])
    <3>1. GetDistance(list[i], list[j]) = GetDistance(list[j], list[i])
      BY FilledDistances
    <3>2. CASE i \in 1 .. N /\ j \in 1 .. N
      BY <1>4, <2>3, <3>2 DEF GreedyFirst
    <3>3. CASE j = Len(list)
      <4>1. i \in 1 .. Len(list) - 1
        BY <1>1, <2>3, <3>3
      <4> QED
        BY <3>3, <4>1 DEF NotFarther
    <3>4. CASE i = Len(list)
      <4>1. j \in 1 .. Len(list) - 1
        BY <1>1, <2>3, <3>4
      <4> QED
        BY <3>1, <3>4, <4>1 DEF NotFarther
    <3> QED
      BY <1>1, <3>2, <3>3, <3>4
  <2> QED
    BY <2>2, <2>3 DEF GreedyFirst
<1>6. ASSUME NEW m \in 2 .. c - 1 PROVE GreedyNext(list, p, d, m)
  <2>1. /\ m \in Nat /\ d[m + 1] \in Fractions /\ p[m + 1] \in 1 .. N
        /\ \A a \in 1 .. m : p[a] \in 1 .. N /\ p[a] \in 1 .. Len(list)
    BY <1>1, <1>3
  <2>2. \A i \in 1 .. N : /\ Nearest(old, i, p, m) \in Fractions
                          /\ Nearest(list, i, p, m) \in Fractions
                          /\ Same(Nearest(old, i, p, m), Nearest(list, i, p, m))
    <3> TAKE i \in 1 .. N
    <3>1. /\ IsNearest(old, old[i], p, m, Nearest(old, i, p, m))
          /\ IsNearest(list, list[i], p, m, Nearest(list, i, p, m))
      BY <1>1, <1>2, <2>1, NearestProperties
    <3>2. old[i] = list[i] /\ \A a \in 1 .. m : old[p[a]] = list[p[a]]
      BY <2>1
    <3>3. Same(Nearest(old, i, p, m), Nearest(list, i, p, m))
      BY <2>1, <3>1, <3>2, NearestSame
    <3> QED
      BY <3>1, <3>3 DEF IsNearest
  <2>3. GreedyNext(old, p, d, m)
    BY <1>4
  <2>4. Same(d[m + 1], Nearest(list, p[m + 1], p, m))
    <3>1. PICK x, y, z : /\ x = d[m + 1]
                         /\ y = Nearest(old, p[m + 1], p, m)
                         /\ z = Nearest(list, p[m + 1], p, m)
      OBVIOUS
    <3>2. x \in Fractions /\ y \in Fractions /\ z \in Fractions /\ Same(y, z)
      BY <2>1, <2>2, <3>1
    <3>3. Same(x, y)
      BY <2>3, <3>1 DEF GreedyNext
    <3>4. Same(x, z)
      BY ONLY <3>2, <3>3, SameProperties
    <3> QED
      BY <3>1, <3>4
  <2>5. ASSUME NEW i \in (1 .. Len(list)) \ Chosen(p, m)
        PROVE  AtMost(Nearest(list, i, p, m), d[m + 1])
    <3>1. CASE i \in 1 .. N
      <4>1. AtMost(Nearest(old, i, p, m), d[m + 1])
        BY <2>3, <3>1 DEF GreedyNext
      <4> QED
        BY <2>1, <2>2, <3>1, <4>1, SameProperties
    <3>2. CASE i = Len(list)
      BY <3>2 DEF NotFarther
    <3> QED
      BY <1>1, <3>1, <3>2
  <2> QED
    BY <2>4, <2>5 DEF GreedyNext
<1> QED
  BY <1>3, <1>4, <1>5, <1>6, GreedyParts

\* Validate keeps none of the covers chosen, or at least two.
LEMMA ValidateType ==
  ASSUME NEW list, NEW k \in Nat, cur_size \in 2 .. k
  PROVE  Validate(list) \in {0} \cup 2 .. cur_size
<1> DEFINE failed == {p \in 2 .. cur_size - 1 : Less(distances[p + 1], NewestTo(list, p))}
           first == CHOOSE p \in failed : \A q \in failed : p <= q
<1>1. failed # {} => first \in failed
  <2> SUFFICES ASSUME failed # {} PROVE first \in failed
    OBVIOUS
  <2>1. failed \in SUBSET Nat
    OBVIOUS
  <2>2. Least(failed) \in failed /\ \A q \in failed : Least(failed) <= q
    BY <2>1, LeastProperties
  <2> HIDE DEF failed
  <2> QED
    BY <2>2
<1>2. failed \subseteq 2 .. cur_size /\ cur_size \in 2 .. cur_size
  OBVIOUS
<1>3. Validate(list) \in {0, cur_size} \/ (failed # {} /\ Validate(list) = first)
  BY DEF Validate
<1> HIDE DEF failed, first
<1> QED
  BY <1>1, <1>2, <1>3

\* The new cover is nowhere farther than the covers Validate keeps.
LEMMA ValidateProperties ==
  ASSUME NEW list, NoneEmpty(list), NEW k \in Nat, cur_size \in 2 .. k,
         ans \in [1 .. k -> 1 .. Len(list) - 1], distances \in [1 .. k -> Fractions],
         Validate(list) # 0
  PROVE  NotFarther(list, ans, distances, Validate(list))
<1> DEFINE N == Len(list)
           failed == {p \in 2 .. cur_size - 1 : Less(distances[p + 1], NewestTo(list, p))}
           first == CHOOSE p \in failed : \A q \in failed : p <= q
           far == \E i \in 1 .. N - 1 : Less(distances[1], GetDistance(list[i], list[N]))
<1>0. N \in Nat /\ \A i \in 1 .. N - 1 : i \in 1 .. N
  BY DEF NoneEmpty, Covers
<1>1. Validate(list) = IF far THEN 0 ELSE IF failed = {} THEN cur_size ELSE first
  BY DEF Validate
<1>2. ~far
  <2> HIDE DEF far, failed, first
  <2> QED
    BY <1>1
<1>3. \A m \in 2 .. Validate(list) - 1 : m \in 2 .. cur_size - 1 /\ m \notin failed
  <2>1. CASE failed = {}
    <3>1. Validate(list) = cur_size
      <4> HIDE DEF far, failed, first
      <4> QED
        BY <1>1, <1>2, <2>1
    <3> QED
      BY <2>1, <3>1
  <2>2. CASE failed # {}
    <3>1. failed \in SUBSET Nat /\ failed \subseteq 2 .. cur_size - 1
      OBVIOUS
    <3> HIDE DEF failed
    <3>2. Least(failed) \in failed /\ \A q \in failed : Least(failed) <= q
      BY <2>2, <3>1, LeastProperties
    <3>3. first \in failed /\ \A q \in failed : first <= q
      BY <3>2
    <3> HIDE DEF far, first
    <3>4. Validate(list) = first
      BY <1>1, <1>2, <2>2
    <3>5. \A m \in 2 .. first - 1 : m \in 2 .. cur_size - 1 /\ ~(first <= m)
      BY <3>1, <3>3
    <3> QED
      BY <3>3, <3>4, <3>5
  <2> QED
    BY <2>1, <2>2
<1>4. ASSUME NEW i \in 1 .. N - 1
      PROVE  AtMost(GetDistance(list[i], list[N]), distances[1])
  BY <1>2 DEF AtMost
<1>5. ASSUME NEW m \in 2 .. Validate(list) - 1
      PROVE  AtMost(Nearest(list, N, ans, m), distances[m + 1])
  <2>1. /\ m \in Nat /\ 1 <= m /\ m \in 2 .. cur_size - 1 /\ m + 1 \in 1 .. k
        /\ \A a \in 1 .. m : a \in 1 .. k
    BY <1>3
  <2>2. /\ \A a \in 1 .. m : ans[a] \in 1 .. N /\ ans[a] \in 1 .. N - 1
        /\ distances[m + 1] \in Fractions
    BY <1>0, <2>1
  <2>3. PICK a \in 1 .. m : NewestTo(list, m) = GetDistance(list[ans[a]], list[N])
    BY <2>1, NewestToProperties
  <2>4. N \in 1 .. N
    BY <1>0, <2>1, <2>2
  <2>5. NewestTo(list, m) = GetDistance(list[N], list[ans[a]])
        /\ NewestTo(list, m) \in Fractions
    BY <2>2, <2>3, <2>4, FilledDistances
  <2>6. IsNearest(list, list[N], ans, m, Nearest(list, N, ans, m))
    BY <2>1, <2>2, <2>4, NearestProperties DEF NoneEmpty
  <2>7. Nearest(list, N, ans, m) \in Fractions
        /\ AtMost(Nearest(list, N, ans, m), NewestTo(list, m))
    BY <2>5, <2>6 DEF IsNearest
  <2>8. AtMost(NewestTo(list, m), distances[m + 1])
    BY <1>3, <2>1 DEF AtMost
  <2> QED
    BY <2>2, <2>5, <2>7, <2>8, AtMostOrder
<1> QED
  BY <1>4, <1>5 DEF NotFarther

\* A choice of k covers, n of them chosen when some are.
ChoiceOK(list, p, d, k, c, n) ==
  /\ Len(p) = k
  /\ p \in [1 .. k -> 1 .. Len(list)]
  /\ d \in [1 .. k -> Fractions]
  /\ IF n < k THEN c = 0 ELSE c \in 2 .. k

LEMMA CompleteProperties ==
  ASSUME NEW list, Covers(list), NEW k \in Nat, 2 <= k, k <= Len(list),
         NEW c \in {0} \cup 2 .. k, Complete(list, c), Len(ans) = k,
         ans \in [1 .. k -> 1 .. Len(list)], distances \in [1 .. k -> Fractions]
  PROVE  /\ Len(ans') = k
         /\ ans' \in [1 .. k -> 1 .. Len(list)]
         /\ distances' \in [1 .. k -> Fractions]
         /\ NoneEmpty(list) /\ IsGreedy(list, ans, distances, c) =>
              IsGreedy(list, ans', distances', k)
<1>1. PICK p, d : p = ans /\ d = distances
  OBVIOUS
<1>2. PICK f : f = IncMaxmin(list, p, d, c)
  OBVIOUS
<1>3. ans' = f.ans /\ distances' = f.distances
  BY <1>1, <1>2 DEF Complete
<1>4. /\ f \in Selections(list, k)
      /\ NoneEmpty(list) /\ IsGreedy(list, p, d, c) => Greedy(list, f, k)
  BY <1>1, <1>2, IncMaxminProperties
<1>5. f.ans \in [1 .. k -> 1 .. Len(list)] /\ f.distances \in [1 .. k -> Fractions]
  BY <1>4 DEF Selections
<1>6. Len(f.ans) = k
  <2>1. PICK q : q = f.ans
    OBVIOUS
  <2>2. q \in [1 .. k -> 1 .. Len(list)]
    BY <1>5, <2>1
  <2>3. Len(q) = k
    BY <2>2
  <2> QED
    BY <2>1, <2>3
<1> QED
  BY <1>1, <1>3, <1>4, <1>5, <1>6 DEF Greedy

\* What Judge makes of the choice when the round n + 1 is over.
LEMMA JudgeProperties ==
  ASSUME NEW list, Covers(list), NEW k \in Nat, 2 <= k, k <= Len(list),
         NEW n \in Nat, ChoiceOK(list, ans, distances, k, cur_size, n),
         Judge(n + 1, list)
  PROVE  ChoiceOK(list, ans', distances', k, cur_size', n + 1)
<1>1. top_k = k
  BY DEF top_k, ChoiceOK
<1>2. CASE n + 1 < top_k /\ UNCHANGED auto_inc_vars
  <2>1. UNCHANGED <<ans, distances, cur_size>> /\ n < k /\ n + 1 < k
    BY <1>1, <1>2 DEF auto_inc_vars
  <2> QED
    BY <2>1 DEF ChoiceOK
<1>3. CASE n + 1 = top_k /\ Complete(list, cur_size) /\ cur_size' = top_k
  <2>1. n < k /\ ~(n + 1 < k) /\ cur_size = 0 /\ cur_size' = k /\ k \in 2 .. k
    BY <1>1, <1>3 DEF ChoiceOK
  <2>2. PICK c \in {0} \cup 2 .. k : c = cur_size
    BY <2>1
  <2>3. Complete(list, c)
    BY <1>3, <2>2
  <2>4. /\ Len(ans') = k
        /\ ans' \in [1 .. k -> 1 .. Len(list)]
        /\ distances' \in [1 .. k -> Fractions]
    BY <2>3, CompleteProperties DEF ChoiceOK
  <2> QED
    BY <2>1, <2>4 DEF ChoiceOK
<1>4. CASE n + 1 > top_k /\ JudgeGrown(list)
  <2>1. ~(n < k) /\ ~(n + 1 < k) /\ cur_size \in 2 .. k
    BY <1>1, <1>4 DEF ChoiceOK
  <2>2. PICK c : c = Validate(list)
    OBVIOUS
  <2>3. c \in {0} \cup 2 .. cur_size /\ c \in {0} \cup 2 .. k
    BY <2>1, <2>2, ValidateType
  <2>4. cur_size' \in {k, c} /\ (c = 0 => cur_size' = k)
    BY <1>1, <1>4, <2>2 DEF JudgeGrown
  <2>5. Complete(list, c) \/ Keep
    BY <1>4, <2>2 DEF JudgeGrown
  <2>6. cur_size' \in 2 .. k
    BY <2>3, <2>4
  <2>7. /\ Len(ans') = k
        /\ ans' \in [1 .. k -> 1 .. Len(list)]
        /\ distances' \in [1 .. k -> Fractions]
    BY <2>3, <2>5, CompleteProperties DEF ChoiceOK, Keep
  <2> QED
    BY <2>1, <2>6, <2>7 DEF ChoiceOK
<1> QED
  BY <1>2, <1>3, <1>4 DEF Judge

\* The choice stays greedy, if no round has left its cover empty.
LEMMA JudgeGreedy ==
  ASSUME NEW list, NoneEmpty(list), NEW k \in Nat, NEW n \in Nat,
         2 <= k, k <= n + 1, Len(list) = n + 1,
         ChoiceOK(list, ans, distances, k, cur_size, n),
         Judge(n + 1, list),
         NEW old, Len(old) = n, \A i \in 1 .. n : old[i] = list[i],
         k <= n => /\ ans \in [1 .. k -> 1 .. n]
                   /\ IsGreedy(old, ans, distances, cur_size)
  PROVE  /\ IsGreedy(list, ans', distances', cur_size')
         /\ k < n + 1 /\ ~JudgeCondition(list, validate_success_time') =>
              IsGreedy(list, ans', distances', k)
<1>1. top_k = k /\ Covers(list) /\ k <= Len(list)
  BY DEF top_k, ChoiceOK, NoneEmpty
<1>2. CASE n + 1 = top_k /\ Complete(list, cur_size) /\ cur_size' = top_k
  <2>1. cur_size = 0 /\ cur_size' = k /\ ~(k < n + 1)
    BY <1>1, <1>2 DEF ChoiceOK
  <2>2. PICK c \in {0} \cup 2 .. k : c = cur_size
    BY <2>1
  <2>3. Complete(list, c)
    BY <1>2, <2>2
  <2>4. IsGreedy(list, ans, distances, c)
    BY <2>1, <2>2, GreedyParts
  <2>5. IsGreedy(list, ans', distances', k)
    BY <1>1, <2>3, <2>4, CompleteProperties DEF ChoiceOK
  <2> QED
    BY <2>1, <2>5
<1>3. CASE n + 1 > top_k /\ JudgeGrown(list)
  <2>1. cur_size \in 2 .. k /\ k <= n
    BY <1>1, <1>3 DEF ChoiceOK
  <2>2. PICK c : c = Validate(list)
    OBVIOUS
  <2>3. c \in {0} \cup 2 .. cur_size /\ c \in {0} \cup 2 .. k /\ c \in 0 .. cur_size
    BY <2>1, <2>2, ValidateType
  <2>4. IsGreedy(list, ans, distances, c)
    <3>1. CASE c = 0
      BY <3>1, GreedyParts
    <3>2. CASE c # 0
      <4>1. c \in 2 .. k
        BY <2>3, <3>2
      <4>2. IsGreedy(old, ans, distances, c)
        <5>1. cur_size \in Nat
          BY <2>1
        <5> QED
          BY <2>1, <2>3, <5>1, GreedyCut
      <4>3. Len(list) - 1 = n
        OBVIOUS
      <4>4. NotFarther(list, ans, distances, c)
        <5>1. ans \in [1 .. k -> 1 .. Len(list) - 1] /\ distances \in [1 .. k -> Fractions]
          BY <2>1, <4>3 DEF ChoiceOK
        <5> QED
          BY <2>1, <2>2, <3>2, <5>1, ValidateProperties
      <4>5. ans \in [1 .. k -> 1 .. Len(old)] /\ distances \in [1 .. k -> Fractions]
        BY <2>1 DEF ChoiceOK
      <4> QED
        BY <4>1, <4>2, <4>3, <4>4, <4>5, GreedyAppended
    <3> QED
      BY <3>1, <3>2
  <2> DEFINE t == IF c = cur_size /\ cur_size = k THEN validate_success_time + 1 ELSE 0
             size == IF c = cur_size \/ c = 0 THEN k ELSE c
  <2>5. /\ validate_success_time' = t /\ cur_size' = size
        /\ IF c < size \/ (~JudgeCondition(list, t) /\ size < k)
           THEN Complete(list, c) ELSE Keep
    BY <1>1, <1>3, <2>2 DEF JudgeGrown
  <2>6. size \in 2 .. k /\ k \in Nat /\ size \in 0 .. k
    BY <2>1, <2>3
  <2> HIDE DEF t
  <2>7. CASE Complete(list, c)
    <3>1. IsGreedy(list, ans', distances', k)
      BY <1>1, <2>3, <2>4, <2>7, CompleteProperties DEF ChoiceOK
    <3>2. IsGreedy(list, ans', distances', size)
      BY <2>6, <3>1, GreedyCut
    <3> QED
      BY <2>5, <3>1, <3>2
  <2>8. CASE ~Complete(list, c)
    <3>1. /\ ans' = ans /\ distances' = distances /\ ~(c < size)
          /\ ~(~JudgeCondition(list, t) /\ size < k)
      BY <2>5, <2>8 DEF Keep
    <3>2. c = size
      BY <2>1, <2>3, <3>1
    <3>3. ~JudgeCondition(list, t) => size = k
      BY <2>6, <3>1
    <3>4. IsGreedy(list, ans', distances', size)
      BY <2>4, <3>1, <3>2
    <3> QED
      BY <2>5, <3>3, <3>4
  <2> QED
    BY <2>7, <2>8
<1>4. ~(n + 1 < top_k)
  BY <1>1
<1> QED
  BY <1>2, <1>3, <1>4 DEF Judge

-----------------------------------------------------------------------------
\* AutoInc chooses top_k covers of the list, and the list has as many, and as
\* many as there were rounds that found one.
AutoOK ==
  object.is_auto_inc =>
    /\ object.number_of_vc <= Len(vc_list)
    /\ Len(vc_list) = object.number_of_vc \/ Len(vc_list) <= cover_index + 1
    /\ ChoiceOK(vc_list, ans, distances, object.number_of_vc, cur_size, cover_index)
    /\ pc = "done" => object.number_of_vc <= cover_index /\ Len(vc_list) <= cover_index

\* Every round that is over has found a cover.
EveryRoundFound ==
  \A i \in 1 .. cover_index : i <= Len(vc_list) /\ vc_list[i] # {}

\* Then the choice is of covers that were judged, and greedy.
GreedyOK ==
  (object.is_auto_inc /\ EveryRoundFound /\ object.number_of_vc <= cover_index) =>
    /\ ans \in [1 .. object.number_of_vc -> 1 .. cover_index]
    /\ IsGreedy(SubSeq(vc_list, 1, cover_index), ans, distances,
                IF pc = "done" THEN object.number_of_vc ELSE cur_size)

\* args is a record, and what has been pushed are sets of vertices.
ArgsOutputOK ==
  /\ args = [cand |-> args.cand, crit |-> args.crit]
  /\ output \in Seq(SUBSET Vertices(object.hyper_graph))

AutoInv == AutoOK /\ GreedyOK /\ ArgsOutputOK

\* The covers of the list are finite.
LEMMA CoversOfList ==
  ASSUME Shape
  PROVE  /\ Covers(vc_list)
         /\ vc_list \in Seq(SUBSET Vertices(object.hyper_graph))
         /\ object.number_of_vc \in Nat
         /\ object.is_auto_inc => object.number_of_vc >= 2
         /\ cover_index \in Nat
<1>1. /\ object \in Objects /\ cover_index \in Nat
      /\ vc_list \in Seq(SUBSET Vertices(object.hyper_graph))
  BY DEF Shape
<1>2. IsObject(object)
  BY <1>1, ObjectsAssumption
<1> DEFINE g == object.hyper_graph
<1>3. IsHyperGraph(g) /\ object.number_of_vc \in Nat
  BY <1>2 DEF IsObject
<1> HIDE DEF g
<1>4. EdgeIds(g) = 0 .. EdgeNum(g) - 1
  BY <1>3, IsHyperGraphProperties
<1>5. Vertices(g) \in SUBSET (0 .. MaxBit - 1)
  BY <1>3, <1>4 DEF IsHyperGraph, Vertices
<1>6. IsFiniteSet(0 .. MaxBit - 1)
  <2>1. 0 \in Int /\ MaxBit - 1 \in Int
    BY DEF MaxBit
  <2> QED
    BY <2>1, FS_Interval
<1>7. IsFiniteSet(Vertices(g))
  BY <1>5, <1>6, FS_Subset
<1>8. \A S \in SUBSET Vertices(g) : IsFiniteSet(S)
  BY <1>7, FS_Subset
<1>9. vc_list \in Seq(SUBSET Vertices(g))
  BY <1>1 DEF g
<1>10. Len(vc_list) \in Nat /\ \A i \in 1 .. Len(vc_list) : vc_list[i] \in SUBSET Vertices(g)
  BY <1>9
<1>11. Covers(vc_list)
  BY <1>8, <1>10 DEF Covers
<1>12. object.is_auto_inc => object.number_of_vc >= 2
  BY <1>1, AutoObjectsAssumption
<1> QED
  BY <1>1, <1>3, <1>11, <1>12 DEF g

\* What a step keeps that does not touch the list.
LEMMA AutoKept ==
  ASSUME AutoOK, GreedyOK, UNCHANGED <<object, vc_list, cover_index, auto_inc_vars>>,
         pc' = "done" <=> pc = "done"
  PROVE  AutoOK' /\ GreedyOK'
<1>1. UNCHANGED <<object, vc_list, cover_index, ans, distances, cur_size>>
  BY DEF auto_inc_vars
<1>2. AutoOK'
  BY <1>1 DEF AutoOK, ChoiceOK
<1>3. EveryRoundFound' = EveryRoundFound
  BY <1>1 DEF EveryRoundFound
<1>4. GreedyOK'
  BY <1>1, <1>3 DEF GreedyOK
<1> QED
  BY <1>2, <1>4

\* A cover that is found goes to the slot after those judged.
LEMMA FoundSlot ==
  ASSUME SubGraphsAreComponents, IInv, Found, object.is_auto_inc
  PROVE  /\ cover_index' = cover_index /\ cover_index \in Nat
         /\ vc_list' \in Seq(SUBSET Vertices(object.hyper_graph))
         /\ Len(vc_list) \in Nat /\ Len(vc_list') \in Nat
         /\ cover_index <= Len(vc_list) /\ Len(vc_list) <= Len(vc_list')
         /\ Len(vc_list') = Len(vc_list) \/ Len(vc_list') = cover_index + 1
         /\ \A i \in 1 .. Len(vc_list) : i # cover_index + 1 => vc_list'[i] = vc_list[i]
         /\ cover_index + 1 \in 1 .. Len(vc_list')
         /\ vc_list'[cover_index + 1] =
              (IF cover_index = Len(vc_list) THEN {} ELSE vc_list[cover_index + 1])
                \cup cur
<1> DEFINE V == Vertices(object.hyper_graph)
           slots == IF cover_index = Len(vc_list) THEN Append(vc_list, {}) ELSE vc_list
<1>0. object' = object
  BY DEF Found, given
<1>1. /\ cover_index' = cover_index
      /\ cover_index < Len(slots)
      /\ vc_list' = [slots EXCEPT ![cover_index + 1] = @ \cup cur]
  BY DEF Found
<1>2. /\ vc_list \in Seq(SUBSET V) /\ cover_index \in Nat /\ Len(vc_list) \in Nat
  BY CoversOfList DEF IInv
<1>3. vc_list' \in Seq(SUBSET V)
  BY <1>0, FoundInv DEF IInv, Shape
<1> HIDE DEF V
<1>4. /\ slots \in Seq(SUBSET V)
      /\ Len(slots) = IF cover_index = Len(vc_list) THEN Len(vc_list) + 1 ELSE Len(vc_list)
      /\ \A i \in 1 .. Len(vc_list) : slots[i] = vc_list[i]
      /\ cover_index = Len(vc_list) => slots[cover_index + 1] = {}
  BY <1>2
<1>5. /\ Len(vc_list') = Len(slots)
      /\ \A i \in 1 .. Len(slots) : i # cover_index + 1 => vc_list'[i] = slots[i]
      /\ cover_index + 1 \in 1 .. Len(slots)
      /\ vc_list'[cover_index + 1] = slots[cover_index + 1] \cup cur
  <2> HIDE DEF slots
  <2>1. DOMAIN slots = 1 .. Len(slots) /\ Len(slots) \in Nat
    BY <1>4
  <2>2. DOMAIN vc_list' = 1 .. Len(slots)
    BY <1>1, <2>1
  <2>3. Len(vc_list') = Len(slots)
    BY <1>3, <2>1, <2>2
  <2>4. cover_index + 1 \in 1 .. Len(slots)
    BY <1>1, <1>2, <2>1
  <2> QED
    BY <1>1, <2>1, <2>3, <2>4
<1> HIDE DEF slots
<1>6. \A i \in 1 .. Len(vc_list) : i # cover_index + 1 => vc_list'[i] = vc_list[i]
  BY <1>2, <1>4, <1>5
<1>7. vc_list'[cover_index + 1] =
        (IF cover_index = Len(vc_list) THEN {} ELSE vc_list[cover_index + 1]) \cup cur
  BY <1>2, <1>4, <1>5
<1>8. Len(vc_list') \in Nat /\ cover_index <= Len(vc_list)
      /\ Len(vc_list) <= Len(vc_list')
      /\ (Len(vc_list') = Len(vc_list) \/ Len(vc_list') = cover_index + 1)
  BY <1>1, <1>2, <1>4, <1>5
<1>9. cover_index + 1 \in 1 .. Len(vc_list')
  BY <1>5
<1>10. vc_list' \in Seq(SUBSET Vertices(object.hyper_graph))
  BY <1>3 DEF V
<1> QED
  BY <1>1, <1>2, <1>6, <1>7, <1>8, <1>9, <1>10, Zenon

\* A cover that is found leaves those judged as they are.
LEMMA AutoFound ==
  ASSUME SubGraphsAreComponents, IInv, AutoOK, GreedyOK, Found, UNCHANGED auto_inc_vars
  PROVE  AutoOK' /\ GreedyOK'
<1>0. object' = object /\ UNCHANGED <<ans, distances, cur_size>>
      /\ pc' = "return" /\ pc = "call"
  BY DEF Found, given, auto_inc_vars
<1> SUFFICES ASSUME object.is_auto_inc PROVE AutoOK' /\ GreedyOK'
  BY <1>0 DEF AutoOK, GreedyOK
<1> DEFINE k == object.number_of_vc
           V == Vertices(object.hyper_graph)
<1>1. cover_index' = cover_index
  BY FoundSlot
<1>2. /\ vc_list \in Seq(SUBSET V) /\ k \in Nat /\ 2 <= k /\ cover_index \in Nat
      /\ Len(vc_list) \in Nat
  BY CoversOfList DEF IInv
<1>3. vc_list' \in Seq(SUBSET V)
  BY FoundSlot
<1> HIDE DEF V
<1>4. /\ cover_index <= Len(vc_list) /\ Len(vc_list) <= Len(vc_list')
      /\ Len(vc_list') = Len(vc_list) \/ Len(vc_list') = cover_index + 1
      /\ Len(vc_list') \in Nat
      /\ \A i \in 1 .. Len(vc_list) : i # cover_index + 1 => vc_list'[i] = vc_list[i]
  BY FoundSlot
<1>5. \A i \in 1 .. cover_index : i \in 1 .. Len(vc_list) /\ vc_list'[i] = vc_list[i]
  BY <1>2, <1>4
<1>6. /\ cover_index <= Len(vc_list) /\ Len(vc_list) <= Len(vc_list')
      /\ Len(vc_list') = Len(vc_list) \/ Len(vc_list') = cover_index + 1
      /\ \A i \in 1 .. cover_index : i \in 1 .. Len(vc_list) /\ vc_list'[i] = vc_list[i]
      /\ Len(vc_list') \in Nat
  BY <1>4, <1>5
<1>7. AutoOK'
  <2>1. /\ k <= Len(vc_list) /\ (Len(vc_list) = k \/ Len(vc_list) <= cover_index + 1)
        /\ ChoiceOK(vc_list, ans, distances, k, cur_size, cover_index)
    BY DEF AutoOK
  <2>2. ans \in [1 .. k -> 1 .. Len(vc_list')]
    BY <1>2, <1>6, <2>1 DEF ChoiceOK
  <2>3. ChoiceOK(vc_list', ans, distances, k, cur_size, cover_index)
    BY <2>1, <2>2 DEF ChoiceOK
  <2>4. k <= Len(vc_list') /\ (Len(vc_list') = k \/ Len(vc_list') <= cover_index + 1)
    BY <1>2, <1>6, <2>1
  <2> QED
    BY <1>0, <1>1, <2>3, <2>4 DEF AutoOK, ChoiceOK
<1>8. GreedyOK'
  <2>1. EveryRoundFound' => EveryRoundFound
    BY <1>1, <1>6 DEF EveryRoundFound
  <2>2. SubSeq(vc_list', 1, cover_index) = SubSeq(vc_list, 1, cover_index)
    BY <1>2, <1>3, <1>6
  <2>3. IsGreedy(SubSeq(vc_list', 1, cover_index), ans, distances, cur_size)
          <=> IsGreedy(SubSeq(vc_list, 1, cover_index), ans, distances, cur_size)
    BY <2>2
  <2> QED
    BY <1>0, <1>1, <2>1, <2>3 DEF GreedyOK
<1> QED
  BY <1>7, <1>8

\* The end of a round, which AutoInc judges.
LEMMA AutoNextRound ==
  ASSUME SubGraphsAreComponents, IInv, AutoOK, GreedyOK, NextRound
  PROVE  AutoOK' /\ GreedyOK' /\ (pc' = "done" => output' \in Seq(SUBSET Vertices(object.hyper_graph)))
<1> DEFINE k == object.number_of_vc
           V == Vertices(object.hyper_graph)
           n == cover_index
<1>1. /\ object.is_auto_inc /\ object' = object /\ vc_list' = vc_list
      /\ cover_index' = n + 1 /\ pc = "return"
      /\ Judge(n + 1, vc_list)
      /\ stop_flag' = JudgedEnough(cover_index, vc_list)'
      /\ IF stop_flag' THEN /\ output' = [i \in 1 .. top_k |-> vc_list[ans'[i]]]
                            /\ pc' = "done"
                       ELSE pc' = pc
  BY DEF NextRound, InRounds, given
<1>2. /\ vc_list \in Seq(SUBSET V) /\ k \in Nat /\ 2 <= k /\ n \in Nat
      /\ Len(vc_list) \in Nat /\ Covers(vc_list)
  BY <1>1, CoversOfList DEF IInv
<1>3. /\ k <= Len(vc_list) /\ (Len(vc_list) = k \/ Len(vc_list) <= n + 1)
      /\ ChoiceOK(vc_list, ans, distances, k, cur_size, n)
  BY <1>1 DEF AutoOK
<1>4. ChoiceOK(vc_list, ans', distances', k, cur_size', n + 1)
  BY <1>1, <1>2, <1>3, JudgeProperties
<1>5. top_k = k /\ top_k' = k
  BY <1>3, <1>4 DEF top_k, ChoiceOK
<1>6. pc' = "done" => n + 1 > k /\ ~JudgeCondition(vc_list, validate_success_time')
  <2>1. JudgedEnough(cover_index, vc_list)'
          <=> n + 1 > k /\ ~JudgeCondition(vc_list, validate_success_time')
    BY <1>1, <1>5 DEF JudgedEnough, JudgeCondition
  <2> QED
    BY <1>1, <2>1
<1>7. AutoOK'
  <2>1. /\ k <= Len(vc_list) /\ (Len(vc_list) = k \/ Len(vc_list) <= (n + 1) + 1)
        /\ pc' = "done" => k <= n + 1
    BY <1>2, <1>3, <1>6
  <2> QED
    BY <1>1, <1>4, <2>1 DEF AutoOK, ChoiceOK
<1>8. pc' = "done" => output' \in Seq(SUBSET V)
  <2> SUFFICES ASSUME pc' = "done" PROVE output' \in Seq(SUBSET V)
    OBVIOUS
  <2>1. output' = [i \in 1 .. k |-> vc_list[ans'[i]]]
    BY <1>1, <1>5
  <2>2. ans' \in [1 .. k -> 1 .. Len(vc_list)]
    BY <1>4 DEF ChoiceOK
  <2>3. \A i \in 1 .. k : vc_list[ans'[i]] \in SUBSET V
    BY <1>2, <2>2
  <2> HIDE DEF V
  <2> QED
    BY <1>2, <2>1, <2>3
<1>9. GreedyOK'
  <2> SUFFICES ASSUME EveryRoundFound', k <= n + 1
               PROVE  /\ ans' \in [1 .. k -> 1 .. n + 1]
                      /\ IsGreedy(SubSeq(vc_list, 1, n + 1), ans', distances',
                                  IF pc' = "done" THEN k ELSE cur_size')
    BY <1>1 DEF GreedyOK
  <2>1. \A i \in 1 .. n + 1 : i <= Len(vc_list) /\ vc_list[i] # {}
    BY <1>1 DEF EveryRoundFound
  <2>2. Len(vc_list) = n + 1
    <3>1. n + 1 <= Len(vc_list)
      BY <1>2, <2>1
    <3> QED
      BY <1>2, <1>3, <3>1
  <2>3. NoneEmpty(vc_list)
    BY <1>2, <2>1, <2>2 DEF NoneEmpty
  <2>4. PICK old : old = SubSeq(vc_list, 1, n)
    OBVIOUS
  <2>5. Len(old) = n /\ \A i \in 1 .. n : old[i] = vc_list[i]
    BY <1>2, <2>2, <2>4
  <2>6. SubSeq(vc_list, 1, n + 1) = vc_list
    BY <1>2, <2>2
  <2>7. k <= n => /\ ans \in [1 .. k -> 1 .. n]
                  /\ IsGreedy(old, ans, distances, cur_size)
    <3>1. EveryRoundFound
      BY <1>2, <2>1 DEF EveryRoundFound
    <3> QED
      BY <1>1, <2>4, <3>1 DEF GreedyOK
  <2>8. PICK list : list = vc_list
    OBVIOUS
  <2>9. /\ IsGreedy(list, ans', distances', cur_size')
        /\ k < n + 1 /\ ~JudgeCondition(list, validate_success_time') =>
             IsGreedy(list, ans', distances', k)
    BY <1>1, <1>2, <1>3, <2>2, <2>3, <2>5, <2>7, <2>8, JudgeGreedy
  <2>10. ans' \in [1 .. k -> 1 .. n + 1]
    BY <1>4, <2>2 DEF ChoiceOK
  <2>11. pc' = "done" => IsGreedy(list, ans', distances', k)
    BY <1>2, <1>6, <2>8, <2>9
  <2> QED
    BY <2>6, <2>8, <2>9, <2>10, <2>11
<1> QED
  BY <1>7, <1>8, <1>9

LEMMA AutoInit ==
  ASSUME InitAll, SubGraphsAreComponents
  PROVE  AutoInv
<1> DEFINE k == object.number_of_vc
<1>1. /\ object \in Objects /\ cover_index = 0 /\ output = <<>> /\ args = NoArgs
      /\ vc_list = [i \in 1 .. k |-> {}] /\ pc = "return"
      /\ ans = [i \in 1 .. k |-> 1] /\ distances = [i \in 1 .. k |-> <<0, 1>>]
      /\ cur_size = 0
  BY DEF InitAll, Init, AutoIncInit
<1>2. k \in Nat /\ (object.is_auto_inc => k >= 2)
  BY <1>1, ObjectsAssumption, AutoObjectsAssumption DEF IsObject
<1>3. Len(vc_list) = k /\ Len(ans) = k
  BY <1>1, <1>2
<1>4. object.is_auto_inc =>
        ChoiceOK(vc_list, ans, distances, k, cur_size, cover_index)
  <2>1. ans \in [1 .. k -> 1 .. Len(vc_list)]
    BY <1>1, <1>2, <1>3
  <2>2. distances \in [1 .. k -> Fractions]
    BY <1>1, <1>2 DEF Fractions
  <2> QED
    BY <1>1, <1>2, <1>3, <2>1, <2>2 DEF ChoiceOK
<1>5. AutoOK
  BY <1>1, <1>2, <1>3, <1>4 DEF AutoOK
<1>6. GreedyOK
  BY <1>1, <1>2 DEF GreedyOK
<1>7. ArgsOutputOK
  BY <1>1 DEF ArgsOutputOK, NoArgs
<1> QED
  BY <1>5, <1>6, <1>7 DEF AutoInv

LEMMA ArgsOutputNext ==
  ASSUME SubGraphsAreComponents, IInv, AutoInv, [Next]_vars
  PROVE  ArgsOutputOK'
<1> DEFINE Rec(a) == a = [cand |-> a.cand, crit |-> a.crit]
<1>1. /\ Rec(args) /\ output \in Seq(SUBSET Vertices(object.hyper_graph))
      /\ vc_list \in Seq(SUBSET Vertices(object.hyper_graph))
  BY DEF AutoInv, ArgsOutputOK, IInv, Shape
<1>2. Rec(NoArgs) /\ \A x, y : Rec([cand |-> x, crit |-> y])
  BY DEF NoArgs
<1>3. CASE Search
  <2>1. object' = object /\ output' = output
    BY <1>3 DEF Search, EnterStopped, Found, Expand, Skip, Descend, DescendWith,
                BackOut, ReturnTried, StartRepair, Repair, ReturnRepaired,
                Leave, ReturnStopped, given, results
  <2>2. Rec(args')
    <3>1. CASE EnterStopped \/ Found \/ Expand
      BY <1>2, <3>1 DEF EnterStopped, Found, Expand
    <3>2. CASE Skip \/ BackOut \/ ReturnTried \/ StartRepair \/ ReturnRepaired
               \/ Leave \/ ReturnStopped
      BY <1>1, <3>2 DEF Skip, BackOut, ReturnTried, StartRepair, ReturnRepaired,
                        Leave, ReturnStopped
    <3>3. CASE Descend
      BY <3>3 DEF Descend, DescendWith
    <3>4. CASE Repair
      BY <3>4 DEF Repair
    <3> QED
      BY <1>3, <3>1, <3>2, <3>3, <3>4 DEF Search
  <2> QED
    BY <1>1, <2>1, <2>2 DEF ArgsOutputOK
<1>4. CASE StartSearch \/ StartComponent
  <2>1. object' = object /\ output' = output
    BY <1>4 DEF StartSearch, StartComponent, SearchComponent, given
  <2>2. Rec(args')
    BY <1>4 DEF StartSearch, StartComponent, SearchComponent
  <2> QED
    BY <1>1, <2>1, <2>2 DEF ArgsOutputOK
<1>5. CASE NextComponent \/ FillQueue
  <2>1. object' = object /\ output' \in {output, vc_list} /\ args' = args
    BY <1>5 DEF NextComponent, FillQueue, given
  <2> QED
    BY <1>1, <2>1 DEF ArgsOutputOK
<1>6. CASE NextRound
  <2>1. object' = object /\ args' = args /\ (pc' = "done" \/ output' = output)
    BY <1>6 DEF NextRound, given
  <2>2. pc' = "done" => output' \in Seq(SUBSET Vertices(object.hyper_graph))
    BY <1>6, AutoNextRound DEF AutoInv
  <2> QED
    BY <1>1, <2>1, <2>2 DEF ArgsOutputOK
<1>7. CASE UNCHANGED vars
  BY <1>1, <1>7 DEF vars, search_vars, given, results, ArgsOutputOK
<1> QED
  BY <1>3, <1>4, <1>5, <1>6, <1>7 DEF Next, RunDiverse, Terminated

LEMMA AutoNext ==
  ASSUME SubGraphsAreComponents, IInv, AutoInv, [Next]_vars
  PROVE  AutoInv'
<1> DEFINE kept == <<object, vc_list, cover_index, auto_inc_vars>>
<1> SUFFICES AutoOK' /\ GreedyOK'
  BY ArgsOutputNext DEF AutoInv
<1>0. AutoOK /\ GreedyOK
  BY DEF AutoInv
<1>1. CASE Found /\ UNCHANGED auto_inc_vars
  BY <1>0, <1>1, AutoFound
<1>2. CASE Search /\ ~Found /\ UNCHANGED auto_inc_vars
  <2>1. UNCHANGED kept
    BY <1>2 DEF Search, EnterStopped, Expand, Skip, Descend, DescendWith,
                BackOut, ReturnTried, StartRepair, Repair, ReturnRepaired,
                Leave, ReturnStopped, given, place, results
  <2>2. pc # "done" /\ pc' # "done"
    BY <1>2 DEF Search, EnterStopped, Expand, Skip, Descend, DescendWith,
                BackOut, ReturnTried, StartRepair, Repair, ReturnRepaired,
                Leave, ReturnStopped, Trying, Repairing
  <2> QED
    BY <1>0, <2>1, <2>2, AutoKept
<1>3. CASE RunDiverse
  <2>1. ~object.is_auto_inc /\ object' = object
    BY <1>3 DEF RunDiverse, StartSearch, NextComponent, FillQueue, InRunDiverse,
                SearchComponent, given
  <2> QED
    BY <2>1 DEF AutoOK, GreedyOK
<1>4. CASE StartComponent
  <2>1. UNCHANGED kept /\ pc' = "call" /\ pc = "return"
    BY <1>4 DEF StartComponent, SearchComponent, InRounds, given
  <2> QED
    BY <1>0, <2>1, AutoKept
<1>5. CASE NextRound
  BY <1>0, <1>5, AutoNextRound
<1>6. CASE UNCHANGED vars
  <2>1. UNCHANGED kept /\ pc' = pc
    BY <1>6 DEF vars, search_vars, given, place, results
  <2> QED
    BY <1>0, <2>1, AutoKept
<1> QED
  BY <1>1, <1>2, <1>3, <1>4, <1>5, <1>6 DEF Next, Terminated

LEMMA AutoInvariance ==
  Spec => []AutoInv
<1>1. InitAll => AutoInv
  BY AutoInit, ComponentsInit
<1>2. SubGraphsAreComponents /\ IInv /\ AutoInv /\ [Next]_vars => AutoInv'
  BY AutoNext
<1> QED
  BY <1>1, <1>2, Components, Invariance, PTL DEF Spec

\* Every variable has its type, of objects of both classes.
THEOREM TypeCorrectness == Spec => []TypeOK
<1>1. SubGraphsAreComponents /\ IInv /\ AutoInv => TypeOK
  <2> SUFFICES ASSUME SubGraphsAreComponents, IInv, AutoInv PROVE TypeOK
    OBVIOUS
  <2>1. /\ object \in Objects /\ component \in 0 .. Len(sub_graphs)
        /\ cover_index \in Nat /\ back_steps \in Nat /\ stop_flag \in BOOLEAN
        /\ found \in Nat
        /\ vc_list \in Seq(SUBSET Vertices(object.hyper_graph))
        /\ pc \in {"call", "loop", "return", "done"}
        /\ next_edge \in EdgeIds(object.hyper_graph) \cup {Inherited!NoEdge}
        /\ stack \in Seq(Frames)
        /\ pc # "call" => args = NoArgs
    BY DEF IInv, Shape
  <2>2. /\ output \in Seq(SUBSET Vertices(object.hyper_graph))
        /\ args = [cand |-> args.cand, crit |-> args.crit]
    BY DEF AutoInv, ArgsOutputOK
  <2>3. ASSUME pc \in {"call", "loop"}
        PROVE  /\ [cur |-> cur, uncov |-> uncov, cur_list |-> cur_list] \in Members
               /\ args \in [cand : SUBSET Vertices(hyper_graph), crit : Crits]
    <3>1. \E K : ExactAt(hyper_graph, Now, K)
      <4>1. CASE pc = "call"
        BY <4>1 DEF IInv, CallOK
      <4>2. CASE pc = "loop"
        BY <4>2, LoopFacts DEF FrameAt
      <4> QED
        BY <2>3, <4>1, <4>2
    <3>2. PICK m : m = Now
      OBVIOUS
    <3>3. m = [cur |-> m.cur, uncov |-> m.uncov, cur_list |-> m.cur_list]
      BY <3>2 DEF Now
    <3>4. PICK K : ExactAt(hyper_graph, m, K)
      BY <3>1, <3>2
    <3>5. m \in Members
      BY <3>3, <3>4, NowTyped
    <3>6. /\ args.cand \in SUBSET Vertices(hyper_graph)
          /\ args.crit \in Crits
      <4>1. CASE pc = "call"
        BY <4>1 DEF IInv, CallOK, ExactAt, Crits
      <4>2. CASE pc = "loop"
        <5>1. args = NoArgs
          BY <2>1, <4>2
        <5> QED
          BY <5>1 DEF NoArgs, Crits
      <4> QED
        BY <2>3, <4>1, <4>2
    <3>7. args \in [cand : SUBSET Vertices(hyper_graph), crit : Crits]
      <4>1. PICK x, y : x = args.cand /\ y = args.crit
        OBVIOUS
      <4>2. args = [cand |-> x, crit |-> y]
        BY <2>2, <4>1
      <4>3. x \in SUBSET Vertices(hyper_graph) /\ y \in Crits
        BY <3>6, <4>1
      <4> QED
        BY ONLY <4>2, <4>3
    <3> QED
      BY <3>2, <3>5, <3>7 DEF Now
  <2> QED
    BY <2>1, <2>2, <2>3 DEF TypeOK
<1> QED
  BY <1>1, Components, Invariance, AutoInvariance, PTL

\* While every round has found a cover, the covers AutoInc has chosen and not
\* cut are a greedy choice from all covers judged, whatever was cut and
\* completed before, and all top_k of those that are pushed are.  Of a round
\* without a cover the distances to nothing are 0 / 0, and neither Validate
\* nor IncMaxmin can tell.
THEOREM GreedyChoice ==
  Spec => [](EveryRoundFound => SelectionGreedy)
<1>1. IInv /\ AutoInv => (EveryRoundFound => SelectionGreedy)
  <2> SUFFICES ASSUME IInv, AutoInv, EveryRoundFound, object.is_auto_inc
               PROVE  IsGreedy(SubSeq(vc_list, 1, cover_index), ans, distances,
                               IF pc = "done" THEN top_k ELSE cur_size)
    BY DEF SelectionGreedy
  <2>1. /\ ChoiceOK(vc_list, ans, distances, object.number_of_vc, cur_size, cover_index)
        /\ pc = "done" => object.number_of_vc <= cover_index /\ Len(vc_list) <= cover_index
    BY DEF AutoInv, AutoOK
  <2>2. top_k = object.number_of_vc
    BY <2>1 DEF top_k, ChoiceOK
  <2>3. CASE object.number_of_vc <= cover_index
    BY <2>2, <2>3 DEF AutoInv, GreedyOK
  <2>4. CASE ~(object.number_of_vc <= cover_index)
    <3>1. object.number_of_vc \in Nat /\ cover_index \in Nat
      BY CoversOfList DEF IInv
    <3>2. pc # "done" /\ cur_size = 0
      BY <2>1, <2>4, <3>1 DEF ChoiceOK
    <3> QED
      BY <3>2, GreedyParts
  <2> QED
    BY <2>3, <2>4
<1> QED
  BY <1>1, Components, Invariance, AutoInvariance, PTL

-----------------------------------------------------------------------------
(***************************************************************************)
(* A greedy choice is at least half as diverse as any other.               *)
(***************************************************************************)

\* GetDistance is a metric: two sets that are both within d of a third are
\* within 2 d of each other.
LEMMA Triangle ==
  ASSUME NEW a, NEW b, NEW c, IsFiniteSet(a), IsFiniteSet(b), IsFiniteSet(c),
         NEW p \in Nat, NEW q \in Nat \ {0},
         AtMost(GetDistance(a, b), <<p, q>>), AtMost(GetDistance(b, c), <<p, q>>)
  PROVE  AtMost(GetDistance(a, c), <<2 * p, q>>)
<1> DEFINE D(x, y) == (x \cup y) \ (x \cap y)
           w == b \ (a \cup c)
<1>1. \A x, y : IsFiniteSet(x) /\ IsFiniteSet(y) =>
        /\ IsFiniteSet(D(x, y)) /\ IsFiniteSet(x \cup y)
        /\ GetDistance(x, y) = <<Cardinality(D(x, y)), Cardinality(x \cup y)>>
        /\ Cardinality(D(x, y)) \in Nat /\ Cardinality(x \cup y) \in Nat
        /\ Cardinality(D(x, y)) <= Cardinality(x \cup y)
  <2> SUFFICES ASSUME NEW x, NEW y, IsFiniteSet(x), IsFiniteSet(y)
               PROVE  /\ IsFiniteSet(D(x, y)) /\ IsFiniteSet(x \cup y)
                      /\ GetDistance(x, y) = <<Cardinality(D(x, y)), Cardinality(x \cup y)>>
                      /\ Cardinality(D(x, y)) \in Nat /\ Cardinality(x \cup y) \in Nat
                      /\ Cardinality(D(x, y)) <= Cardinality(x \cup y)
    OBVIOUS
  <2>1. IsFiniteSet(x \cup y)
    BY FS_Union
  <2>2. (x \cup y) \cap (x \cap y) = x \cap y
    OBVIOUS
  <2>3. /\ IsFiniteSet(D(x, y))
        /\ Cardinality(D(x, y)) = Cardinality(x \cup y) - Cardinality(x \cap y)
    <3>1. PICK u, i : u = x \cup y /\ i = x \cap y
      OBVIOUS
    <3>2. IsFiniteSet(u \ i) /\ Cardinality(u \ i) = Cardinality(u) - Cardinality(u \cap i)
      BY <2>1, <3>1, FS_Difference
    <3> QED
      BY <2>2, <3>1, <3>2
  <2>4. Cardinality(D(x, y)) <= Cardinality(x \cup y)
    BY <2>1, FS_Subset
  <2> QED
    BY <2>1, <2>3, <2>4, FS_CardinalityType DEF GetDistance
<1>2. PICK n1, n2, n3, u1, u2, u3, k :
        /\ n1 = Cardinality(D(a, b)) /\ n2 = Cardinality(D(b, c)) /\ n3 = Cardinality(D(a, c))
        /\ u1 = Cardinality(a \cup b) /\ u2 = Cardinality(b \cup c) /\ u3 = Cardinality(a \cup c)
        /\ k = Cardinality(w)
  OBVIOUS
<1>3. IsFiniteSet(w) /\ k \in Nat
  BY <1>2, FS_Subset, FS_CardinalityType
<1>4. /\ n1 \in Nat /\ n2 \in Nat /\ n3 \in Nat /\ u1 \in Nat /\ u2 \in Nat /\ u3 \in Nat
      /\ n3 <= u3
      /\ GetDistance(a, b) = <<n1, u1>> /\ GetDistance(b, c) = <<n2, u2>>
      /\ GetDistance(a, c) = <<n3, u3>>
      /\ IsFiniteSet(D(a, b)) /\ IsFiniteSet(D(b, c)) /\ IsFiniteSet(a \cup c)
  <2> HIDE DEF D
  <2> QED
    BY <1>1, <1>2
<1>5. n1 * q <= p * u1 /\ n2 * q <= p * u2
  BY <1>4 DEF AtMost, Less
<1>6. n3 + 2 * k <= n1 + n2
  <2> DEFINE s == D(a, b) \ w
             t == D(b, c) \ w
  <2>1. IsFiniteSet(s) /\ Cardinality(s) = n1 - k
    <3>1. D(a, b) \cap w = w
      OBVIOUS
    <3>2. PICK d, e : d = D(a, b) /\ e = w
      OBVIOUS
    <3> HIDE DEF D, w
    <3>3. IsFiniteSet(d)
      BY <1>4, <3>2
    <3>4. IsFiniteSet(d \ e) /\ Cardinality(d \ e) = Cardinality(d) - Cardinality(d \cap e)
      BY <3>3, FS_Difference
    <3> QED
      BY <1>2, <3>1, <3>2, <3>4
  <2>2. IsFiniteSet(t) /\ Cardinality(t) = n2 - k
    <3>1. D(b, c) \cap w = w
      OBVIOUS
    <3>2. PICK d, e : d = D(b, c) /\ e = w
      OBVIOUS
    <3> HIDE DEF D, w
    <3>3. IsFiniteSet(d)
      BY <1>4, <3>2
    <3>4. IsFiniteSet(d \ e) /\ Cardinality(d \ e) = Cardinality(d) - Cardinality(d \cap e)
      BY <3>3, FS_Difference
    <3> QED
      BY <1>2, <3>1, <3>2, <3>4
  <2>3. D(a, c) \subseteq s \cup t
    OBVIOUS
  <2> HIDE DEF s, t, D, w
  <2>4. /\ IsFiniteSet(s \cup t) /\ IsFiniteSet(s \cap t)
        /\ Cardinality(s \cup t) = (n1 - k) + (n2 - k) - Cardinality(s \cap t)
    BY <2>1, <2>2, FS_Union, FS_Subset
  <2>5. Cardinality(s \cap t) \in Nat /\ n3 <= Cardinality(s \cup t)
    BY <1>2, <2>3, <2>4, FS_Subset, FS_CardinalityType
  <2> QED
    BY <1>3, <1>4, <2>4, <2>5
<1>7. u1 <= u3 + k /\ u2 <= u3 + k
  <2> DEFINE v == (a \cup c) \cup w
  <2>1. a \cup b \subseteq v /\ b \cup c \subseteq v /\ (a \cup c) \cap w = {}
    OBVIOUS
  <2>2. IsFiniteSet(v) /\ Cardinality(v) = u3 + k
    <3>1. /\ IsFiniteSet(v)
          /\ Cardinality(v) = Cardinality(a \cup c) + Cardinality(w) - Cardinality((a \cup c) \cap w)
      <4> HIDE DEF w
      <4> QED
        BY <1>3, <1>4, FS_Union
    <3>2. Cardinality((a \cup c) \cap w) = 0
      BY <2>1, FS_EmptySet
    <3> HIDE DEF v, w
    <3> QED
      BY <1>2, <1>3, <1>4, <3>1, <3>2
  <2> HIDE DEF v
  <2> QED
    BY <1>2, <2>1, <2>2, FS_Subset
<1> HIDE DEF D, w
<1>8. n3 * q <= (2 * p) * u3
  <2>1. CASE p <= q
    <3>1. (n3 + 2 * k) * q <= (n1 + n2) * q
      BY <1>3, <1>4, <1>6
    <3>2. p * u1 <= p * (u3 + k) /\ p * u2 <= p * (u3 + k)
      BY <1>3, <1>4, <1>7
    <3>3. p * k <= k * q
      BY <1>3, <2>1
    <3>4. /\ (n3 + 2 * k) * q = n3 * q + 2 * (k * q)
          /\ (n1 + n2) * q = n1 * q + n2 * q
          /\ p * (u3 + k) = p * u3 + p * k
          /\ (2 * p) * u3 = 2 * (p * u3)
      BY <1>3, <1>4
    <3>5. PICK x1, x2, x3, x4, x5, x6 \in Nat :
            /\ x1 = n3 * q /\ x2 = k * q /\ x3 = n1 * q /\ x4 = n2 * q
            /\ x5 = p * u3 /\ x6 = p * k
      BY <1>3, <1>4
    <3>6. PICK y1, y2 \in Nat : y1 = p * u1 /\ y2 = p * u2
      BY <1>4
    <3>7. /\ x1 + 2 * x2 <= x3 + x4 /\ y1 <= x5 + x6 /\ y2 <= x5 + x6
          /\ x6 <= x2 /\ x3 <= y1 /\ x4 <= y2
      BY <1>5, <3>1, <3>2, <3>3, <3>4, <3>5, <3>6
    <3>8. x1 <= 2 * x5
      BY ONLY <3>7, x1 \in Nat, x2 \in Nat, x3 \in Nat, x4 \in Nat, x5 \in Nat, x6 \in Nat,
              y1 \in Nat, y2 \in Nat
    <3> QED
      BY <3>4, <3>5, <3>8
  <2>2. CASE q < p
    <3>1. n3 * q <= u3 * q /\ u3 * q <= u3 * p /\ u3 * p <= (2 * p) * u3
      BY <1>4, <2>2
    <3>2. n3 * q \in Nat /\ u3 * q \in Nat /\ u3 * p \in Nat /\ (2 * p) * u3 \in Nat
      BY <1>4
    <3> QED
      BY <3>1, <3>2
  <2> QED
    BY <2>1, <2>2
<1> QED
  BY <1>4, <1>8 DEF AtMost, Less

\* d is the distance of two of the covers S of the list, and the least.
IsLeastDistance(list, S, d) ==
  /\ \E i, j \in S : i < j /\ d = GetDistance(list[i], list[j])
  /\ \A i, j \in S : i # j => AtMost(d, GetDistance(list[i], list[j]))

LEMMA LeastDistanceProperties ==
  ASSUME NEW list, NoneEmpty(list), NEW S \in SUBSET (1 .. Len(list)),
         NEW x \in S, NEW y \in S, x # y
  PROVE  IsLeastDistance(list, S, LeastDistance(list, S))
<1> DEFINE N == 1 .. Len(list)
           P == {q \in S \X S : q[1] < q[2]}
           D(p) == GetDistance(list[p[1]], list[p[2]])
           nearer(p) == {q \in P : Less(D(q), D(p))}
           f == [p \in P |-> Cardinality(nearer(p))]
<1>1. Len(list) \in Nat /\ IsFiniteSet(N) /\ S \subseteq N
  <2>1. Len(list) \in Nat
    BY DEF NoneEmpty, Covers
  <2> QED
    BY <2>1, FS_Interval
<1>2. IsFiniteSet(P)
  <2>1. IsFiniteSet(S)
    BY <1>1, FS_Subset
  <2>2. IsFiniteSet(S \X S)
    BY <2>1, FS_Product
  <2> QED
    BY <2>2, FS_Subset
<1>3. \A p \in P : D(p) \in Fractions
  BY FilledDistances
<1>4. P # {}
  <2>1. x \in Int /\ y \in Int
    BY <1>1
  <2>2. <<x, y>> \in P \/ <<y, x>> \in P
    BY <2>1
  <2> QED
    BY <2>2
<1> HIDE DEF P, D
<1>5. \A p \in P : IsFiniteSet(nearer(p)) /\ Cardinality(nearer(p)) \in Nat
  <2> TAKE p \in P
  <2>1. IsFiniteSet(nearer(p))
    BY <1>2, FS_Subset
  <2> QED
    BY <2>1, FS_CardinalityType
<1>6. PICK p \in P : \A q \in P : f[p] <= f[q]
  <2>1. f \in [P -> Nat]
    BY <1>5
  <2> HIDE DEF f
  <2> QED
    BY <1>4, <2>1, CheapestExists
<1>7. \A q \in P : ~Less(D(q), D(p))
  <2> SUFFICES ASSUME NEW q \in P, Less(D(q), D(p)) PROVE FALSE
    OBVIOUS
  <2>1. \A r \in P : Less(D(r), D(q)) => Less(D(r), D(p))
    <3> TAKE r \in P
    <3>1. PICK dp, dq, dr \in Fractions : dp = D(p) /\ dq = D(q) /\ dr = D(r)
      BY <1>3
    <3>2. Less(dr, dq) /\ Less(dq, dp) => Less(dr, dp)
      BY AtMostOrder
    <3> QED
      BY <3>1, <3>2
  <2>2. ~Less(D(q), D(q))
    BY <1>3, AtMostOrder DEF AtMost
  <2>3. nearer(q) \subseteq nearer(p) /\ q \in nearer(p) /\ q \notin nearer(q)
    BY <2>1, <2>2
  <2>4. nearer(q) # nearer(p)
    BY <2>3
  <2>5. f[p] <= f[q] /\ f[p] = Cardinality(nearer(p)) /\ f[q] = Cardinality(nearer(q))
    BY <1>6
  <2>6. /\ Cardinality(nearer(p)) \in Nat /\ Cardinality(nearer(q)) \in Nat
        /\ IsFiniteSet(nearer(p))
    BY <1>5
  <2> HIDE DEF nearer, f
  <2>7. Cardinality(nearer(q)) <= Cardinality(nearer(p))
        /\ Cardinality(nearer(q)) # Cardinality(nearer(p))
    BY <2>3, <2>4, <2>6, FS_Subset
  <2> QED
    BY <2>5, <2>6, <2>7
<1> DEFINE T == {D(q) : q \in P}
           d == CHOOSE e \in T : \A g \in T : ~Less(g, e)
<1>8. LeastDistance(list, S) = d
  BY DEF LeastDistance, P, D
<1>9. d \in T /\ \A g \in T : ~Less(g, d)
  <2>1. D(p) \in T /\ \A g \in T : ~Less(g, D(p))
    BY <1>6, <1>7
  <2> HIDE DEF T
  <2> QED
    BY <2>1
<1> HIDE DEF d
<1>10. \E i, j \in S : i < j /\ d = GetDistance(list[i], list[j])
  <2>1. PICK q \in P : d = D(q)
    BY <1>9
  <2>2. q[1] \in S /\ q[2] \in S /\ q[1] < q[2] /\ d = GetDistance(list[q[1]], list[q[2]])
    BY <2>1 DEF P, D
  <2> QED
    BY <2>2
<1>11. ASSUME NEW i \in S, NEW j \in S, i # j
       PROVE  AtMost(d, GetDistance(list[i], list[j]))
  <2>1. \A a, b \in S : a < b => AtMost(d, GetDistance(list[a], list[b]))
    <3> TAKE a, b \in S
    <3>1. a < b => <<a, b>> \in P /\ D(<<a, b>>) = GetDistance(list[a], list[b])
      BY DEF P, D
    <3> QED
      BY <1>9, <3>1 DEF AtMost
  <2>2. i < j \/ j < i
    BY <1>1, <1>11
  <2>3. GetDistance(list[i], list[j]) = GetDistance(list[j], list[i])
    BY <1>1, FilledDistances
  <2> QED
    BY <2>1, <2>2, <2>3
<1> QED
  BY <1>8, <1>10, <1>11 DEF IsLeastDistance
\* Every cover of the list is within d of one of the first n at p.
Near(list, p, n, d) ==
  \A i \in 1 .. Len(list) : \E m \in 1 .. n :
    AtMost(GetDistance(list[i], list[p[m]]), d)

\* The cover chosen next is as far away as any: where it is within d of one
\* chosen before, all are.
LEMMA GreedyNear ==
  ASSUME NEW list, NoneEmpty(list), NEW k \in Nat,
         NEW p \in [1 .. k -> 1 .. Len(list)], NEW d \in [1 .. k -> Fractions],
         IsGreedy(list, p, d, k),
         NEW a \in 1 .. k, NEW b \in 1 .. k, a < b
  PROVE  Near(list, p, b - 1, GetDistance(list[p[a]], list[p[b]]))
<1> DEFINE D(i, j) == GetDistance(list[i], list[j])
<1>1. /\ a \in Nat /\ b \in Nat /\ a \in 1 .. b - 1 /\ b - 1 \in Nat /\ 1 \in 1 .. k
      /\ 2 <= b /\ k > 0 /\ (b = 2 => a = 1) /\ \A m \in 1 .. b - 1 : m \in 1 .. k
  OBVIOUS
<1>2. PICK t : t = GetDistance(list[p[a]], list[p[b]])
  OBVIOUS
<1>3. /\ p[a] \in 1 .. Len(list) /\ p[b] \in 1 .. Len(list)
      /\ \A m \in 1 .. b - 1 : p[m] \in 1 .. Len(list)
  BY <1>1
<1>4. Covers(list) /\ \A i \in 1 .. Len(list) : IsFiniteSet(list[i]) /\ list[i] # {}
  BY DEF NoneEmpty, Covers
<1>5. \A i, j \in 1 .. Len(list) : /\ D(i, j) \in Fractions /\ D(i, j) = D(j, i)
                                   /\ D(i, j)[1] \in Nat /\ D(i, j)[2] \in Nat \ {0}
                                   /\ D(i, j)[1] <= D(i, j)[2]
  <2> TAKE i, j \in 1 .. Len(list)
  <2>1. IsFiniteSet(list[i]) /\ IsFiniteSet(list[j]) /\ list[i] # {}
    BY <1>4
  <2>2. D(i, j) \in Fractions /\ D(i, j) = D(j, i)
    BY FilledDistances
  <2>3. /\ D(i, j)[1] \in Nat /\ D(i, j)[2] \in Nat /\ D(i, j)[2] # 0
        /\ D(i, j)[1] <= D(i, j)[2]
    BY <2>1, DistanceProperties
  <2> QED
    BY <2>2, <2>3
<1>6. t = D(p[a], p[b]) /\ t \in Fractions /\ t[1] \in Nat /\ t[2] \in Nat \ {0} /\ t[1] <= t[2]
  <2>1. t = D(p[a], p[b])
    BY <1>2
  <2> QED
    BY <1>3, <1>5, <2>1
<1>7. /\ GreedyFirst(list, p, d)
      /\ \A m \in 2 .. k - 1 : GreedyNext(list, p, d, m)
  BY <1>1, GreedyParts
<1> SUFFICES ASSUME NEW i \in 1 .. Len(list)
             PROVE  \E m \in 1 .. b - 1 : AtMost(D(i, p[m]), t)
  BY <1>2 DEF Near
<1>8. CASE i \in Chosen(p, b - 1)
  <2>1. PICK m \in 1 .. b - 1 : i = p[m]
    BY <1>8 DEF Chosen
  <2>2. D(i, p[m])[1] = 0
    <3>1. IsFiniteSet(list[i]) /\ list[i] \cup list[i] = list[i] /\ list[i] \cap list[i] = list[i]
      BY <1>4
    <3>2. Cardinality(list[i]) \in Nat
      BY <3>1, FS_CardinalityType
    <3>3. PICK z : z = list[i]
      OBVIOUS
    <3>4. GetDistance(z, z) = <<Cardinality(z) - Cardinality(z), Cardinality(z)>>
      BY <3>1, <3>3 DEF GetDistance
    <3>5. D(i, p[m]) = GetDistance(z, z)
      BY <2>1, <3>3
    <3>6. Cardinality(z) - Cardinality(z) = 0
      BY <3>2, <3>3
    <3> QED
      BY <3>4, <3>5, <3>6
  <2>3. AtMost(D(i, p[m]), t)
    <3>1. PICK e : e = D(i, p[m])
      OBVIOUS
    <3>2. e[1] = 0 /\ e[2] \in Nat
      BY <1>3, <1>5, <2>2, <3>1
    <3>3. ~(t[1] * e[2] < e[1] * t[2])
      <4>1. PICK u, v, w \in Nat : u = t[1] /\ v = t[2] /\ w = e[2]
        BY <1>6, <3>2
      <4>2. u * w \in Nat /\ 0 * v = 0
        BY <4>1
      <4> QED
        BY <3>2, <4>1, <4>2
    <3> QED
      BY <3>1, <3>3 DEF AtMost, Less
  <2> QED
    BY <2>3
<1>9. CASE i \notin Chosen(p, b - 1) /\ b = 2
  <2>1. i # p[1] /\ 1 \in 1 .. b - 1
    BY <1>1, <1>9 DEF Chosen
  <2>2. AtMost(D(i, p[1]), d[1]) /\ Same(d[1], D(p[1], p[2]))
    <3>1. p[1] \in 1 .. Len(list)
      BY <1>3, <2>1
    <3> QED
      BY <1>7, <2>1, <3>1 DEF GreedyFirst
  <2>3. AtMost(D(i, p[1]), t)
    <3>1. d[1] \in Fractions /\ D(i, p[1]) \in Fractions /\ t = D(p[1], p[2])
      BY <1>1, <1>3, <1>5, <1>6, <1>9, <2>1
    <3> QED
      BY <1>6, <2>2, <3>1, SameProperties
  <2> QED
    BY <2>1, <2>3
<1>10. CASE i \notin Chosen(p, b - 1) /\ b # 2
  <2>1. PICK n \in Nat : n = b - 1
    BY <1>1
  <2>2. n \in 2 .. k - 1 /\ n + 1 = b /\ a \in 1 .. n
    BY <1>1, <1>10, <2>1
  <2>3. /\ Same(d[b], Nearest(list, p[b], p, n))
        /\ AtMost(Nearest(list, i, p, n), d[b])
    BY <1>7, <1>10, <2>1, <2>2 DEF GreedyNext
  <2>4. PICK x, y : x = Nearest(list, i, p, n) /\ y = Nearest(list, p[b], p, n)
    OBVIOUS
  <2>5. IsNearest(list, list[i], p, n, x) /\ IsNearest(list, list[p[b]], p, n, y)
    <3>1. \A m \in 1 .. n : p[m] \in 1 .. Len(list)
      BY <1>3, <2>1
    <3> QED
      BY <1>3, <1>4, <2>4, <3>1, NearestProperties
  <2>6. AtMost(y, t) /\ y \in Fractions /\ x \in Fractions
    <3>1. AtMost(y, D(p[b], p[a])) /\ y \in Fractions /\ x \in Fractions
      BY <2>2, <2>5 DEF IsNearest
    <3> QED
      BY <1>3, <1>5, <1>6, <3>1
  <2>7. AtMost(x, t)
    <3>1. d[b] \in Fractions
      OBVIOUS
    <3>2. AtMost(d[b], y)
      BY <2>3, <2>4 DEF Same
    <3>3. AtMost(d[b], t)
      BY <1>6, <2>6, <3>1, <3>2, AtMostOrder
    <3>4. AtMost(x, d[b])
      BY <2>3, <2>4
    <3> QED
      BY <1>6, <2>6, <3>1, <3>3, <3>4, AtMostOrder
  <2>8. x # Everything
    <3> SUFFICES ASSUME x = Everything PROVE FALSE
      OBVIOUS
    <3>1. x[1] = 2 /\ x[2] = 1
      BY DEF Everything
    <3>2. ~(t[1] * x[2] < x[1] * t[2])
      BY <2>7 DEF AtMost, Less
    <3>3. t[1] * x[2] = t[1] /\ x[1] * t[2] = 2 * t[2]
      BY <1>6, <3>1
    <3>4. PICK u, v \in Nat : u = t[1] /\ v = t[2] /\ u <= v /\ v # 0
      BY <1>6
    <3>5. ~(u < 2 * v)
      BY <3>2, <3>3, <3>4
    <3> QED
      BY <3>4, <3>5
  <2>9. PICK m \in 1 .. n : x = D(i, p[m])
    BY <2>5, <2>8 DEF IsNearest, Distances
  <2> QED
    BY <2>1, <2>7, <2>9
<1> QED
  BY <1>1, <1>8, <1>9, <1>10

\* Of k covers two are near the same one of fewer: no k covers are more than
\* twice as far apart as those chosen.
LEMMA GreedyHalfOptimal ==
  ASSUME NEW list, NoneEmpty(list), NEW k \in Nat, 2 <= k,
         NEW p \in [1 .. k -> 1 .. Len(list)], NEW d \in [1 .. k -> Fractions],
         IsGreedy(list, p, d, k)
  PROVE  IsHalfOptimal(list, k, LeastDistance(list, Chosen(p, k)))
<1> DEFINE D(i, j) == GetDistance(list[i], list[j])
           N == 1 .. Len(list)
<1>1. PICK S, t : S = Chosen(p, k) /\ t = LeastDistance(list, S)
  OBVIOUS
<1>2. S \in SUBSET N /\ p[1] \in S /\ p[2] \in S /\ p[1] # p[2]
  <2>1. 1 \in 1 .. k /\ 2 \in 1 .. k /\ k > 0
    OBVIOUS
  <2>2. Apart(p, k)
    BY <2>1, GreedyParts
  <2>3. p[1] # p[2]
    BY <2>1, <2>2 DEF Apart
  <2>4. S = {p[m] : m \in 1 .. k}
    BY <1>1 DEF Chosen
  <2> QED
    BY <2>1, <2>3, <2>4
<1>3. IsLeastDistance(list, S, t)
  BY <1>1, <1>2, LeastDistanceProperties
<1>4. PICK x \in S, y \in S : x < y /\ t = D(x, y)
  BY <1>3 DEF IsLeastDistance
<1>5. PICK a \in 1 .. k, b \in 1 .. k : a < b /\ t = D(p[a], p[b])
  <2>1. PICK m \in 1 .. k, n \in 1 .. k : x = p[m] /\ y = p[n]
    BY <1>1, <1>4 DEF Chosen
  <2>2. x \in Int /\ x # y /\ m # n
    BY <1>2, <1>4, <2>1
  <2>3. D(p[m], p[n]) = D(p[n], p[m])
    BY <1>2, <1>4, <2>1, FilledDistances
  <2>4. m < n \/ n < m
    BY <2>2
  <2> QED
    BY <1>4, <2>1, <2>3, <2>4
<1>6. PICK n \in Nat : n = b - 1 /\ n < k /\ \A m \in 1 .. n : m \in 1 .. k
  BY <1>5
<1>7. Near(list, p, n, t)
  BY <1>5, <1>6, GreedyNear
<1>8. IsFiniteSet(N) /\ \A i \in N : IsFiniteSet(list[i])
  <2>1. Len(list) \in Nat /\ \A i \in N : IsFiniteSet(list[i])
    BY DEF NoneEmpty, Covers
  <2> QED
    BY <2>1, FS_Interval
<1>9. \A i, j \in N : D(i, j) \in Fractions /\ D(i, j) = D(j, i)
  BY FilledDistances
<1>10. PICK u, v : t = <<u, v>> /\ u \in Nat /\ v \in Nat \ {0}
  <2>1. p[a] \in N /\ p[b] \in N
    OBVIOUS
  <2>2. t \in Fractions
    BY <1>5, <1>9, <2>1
  <2>3. t[1] \in Nat /\ t = <<t[1], t[2]>>
    BY <1>5, <1>8, <2>1, DistanceProperties
  <2> QED
    BY <2>2, <2>3 DEF Fractions
<1> SUFFICES ASSUME NEW T \in SUBSET N, Cardinality(T) = k
             PROVE  AtMost(LeastDistance(list, T), <<2 * u, v>>)
  <2>1. t[1] = u /\ t[2] = v
    BY <1>10
  <2> QED
    BY <1>1, <2>1 DEF IsHalfOptimal, AtMost
<1>11. PICK r \in T, s \in T, c \in N :
         r # s /\ AtMost(D(r, c), t) /\ AtMost(D(c, s), t)
  <2> DEFINE f == [i \in T |-> CHOOSE m \in 1 .. n : AtMost(D(i, p[m]), t)]
  <2>1. \A i \in T : f[i] \in 1 .. n /\ AtMost(D(i, p[f[i]]), t)
    <3> TAKE i \in T
    <3>1. \E m \in 1 .. n : AtMost(D(i, p[m]), t)
      BY <1>7 DEF Near
    <3> QED
      BY <3>1
  <2>2. f \in [T -> 1 .. n]
    BY <2>1
  <2>3. IsFiniteSet(T) /\ IsFiniteSet(1 .. n) /\ Cardinality(1 .. n) < Cardinality(T)
    <3>1. IsFiniteSet(1 .. n) /\ Cardinality(1 .. n) = n
      BY FS_Interval
    <3> QED
      BY <1>6, <1>8, <3>1, FS_Subset
  <2> HIDE DEF f
  <2>4. PICK i, j \in T : i # j /\ f[i] = f[j]
    BY <2>2, <2>3, FS_PigeonHole
  <2>5. PICK m \in 1 .. n : m = f[i]
    BY <2>1
  <2>6. p[m] \in N
    BY <1>6
  <2>7. AtMost(D(i, p[m]), t) /\ AtMost(D(j, p[m]), t)
    BY <2>1, <2>4, <2>5
  <2>8. D(j, p[m]) = D(p[m], j)
    BY <1>9, <2>6
  <2> QED
    BY <2>4, <2>6, <2>7, <2>8
<1>12. AtMost(D(r, s), <<2 * u, v>>)
  <2>1. IsFiniteSet(list[r]) /\ IsFiniteSet(list[c]) /\ IsFiniteSet(list[s])
    BY <1>8
  <2> QED
    BY <1>10, <1>11, <2>1, Triangle
<1>13. PICK e : e = LeastDistance(list, T)
  OBVIOUS
<1>14. IsLeastDistance(list, T, e)
  BY <1>11, <1>13, LeastDistanceProperties
<1>15. e \in Fractions /\ AtMost(e, D(r, s))
  <2>1. PICK i \in T, j \in T : e = D(i, j)
    BY <1>14 DEF IsLeastDistance
  <2>2. e \in Fractions
    BY <1>9, <2>1
  <2> QED
    BY <1>11, <1>14, <2>2 DEF IsLeastDistance
<1>16. <<2 * u, v>> \in Fractions /\ D(r, s) \in Fractions
  <2>1. 2 * u \in Int
    BY <1>10
  <2>2. D(r, s) \in Fractions
    BY <1>9, <1>11
  <2> QED
    BY <1>10, <2>1, <2>2 DEF Fractions
<1>17. AtMost(e, <<2 * u, v>>)
  BY <1>12, <1>15, <1>16, AtMostOrder
<1> QED
  BY <1>13, <1>17

\* While every round has found a cover, the covers pushed are at least half as
\* far apart as the same number of covers of the list can be, and so is a
\* choice from scratch: what AutoInc cut and completed has cost nothing.
THEOREM HalfOptimality ==
  Spec => [](EveryRoundFound => HalfOptimal)
<1>1. IInv /\ AutoInv => (EveryRoundFound => HalfOptimal)
  <2> SUFFICES ASSUME IInv, AutoInv, EveryRoundFound, object.is_auto_inc, pc = "done"
               PROVE  /\ IsHalfOptimal(vc_list, top_k,
                                       LeastDistance(vc_list, Chosen(ans, top_k)))
                      /\ IsHalfOptimal(vc_list, top_k, Maxmin(vc_list, top_k))
    BY DEF HalfOptimal
  <2>1. PICK list, k, n : list = vc_list /\ k = object.number_of_vc /\ n = cover_index
    OBVIOUS
  <2>2. /\ Covers(list) /\ Len(list) \in Nat /\ k \in Nat /\ 2 <= k /\ n \in Nat
        /\ list \in Seq(SUBSET Vertices(object.hyper_graph))
    BY <2>1, CoversOfList DEF IInv
  <2>3. /\ k <= n /\ Len(list) <= n /\ k <= Len(list)
        /\ ChoiceOK(list, ans, distances, k, cur_size, n)
    BY <2>1 DEF AutoInv, AutoOK
  <2>4. /\ top_k = k /\ ans \in [1 .. k -> 1 .. Len(list)]
        /\ distances \in [1 .. k -> Fractions]
    BY <2>3 DEF top_k, ChoiceOK
  <2>5. \A i \in 1 .. n : i <= Len(list) /\ list[i] # {}
    BY <2>1 DEF EveryRoundFound
  <2>6. Len(list) = n
    <3>1. n \in 1 .. n
      BY <2>2, <2>3
    <3> QED
      BY <2>2, <2>3, <2>5, <3>1
  <2>7. NoneEmpty(list)
    BY <2>2, <2>5, <2>6 DEF NoneEmpty
  <2>8. IsGreedy(list, ans, distances, k)
    <3>1. IsGreedy(SubSeq(list, 1, n), ans, distances, k)
      BY <2>1, <2>3 DEF AutoInv, GreedyOK
    <3>2. SubSeq(list, 1, n) = list
      BY <2>2, <2>6
    <3> QED
      BY <3>1, <3>2
  <2>9. IsHalfOptimal(list, k, LeastDistance(list, Chosen(ans, k)))
    BY <2>2, <2>4, <2>7, <2>8, GreedyHalfOptimal
  <2>10. IsHalfOptimal(list, k, Maxmin(list, k))
    <3>1. PICK p, d : p = [i \in 1 .. k |-> 1] /\ d = [i \in 1 .. k |-> <<0, 1>>]
      OBVIOUS
    <3>2. /\ p \in [1 .. k -> 1 .. Len(list)] /\ Len(p) = k
          /\ d \in [1 .. k -> Fractions]
      <4>1. 1 \in 1 .. Len(list) /\ <<0, 1>> \in Fractions
        BY <2>2, <2>3 DEF Fractions
      <4>2. p \in [1 .. k -> 1 .. Len(list)] /\ d \in [1 .. k -> Fractions]
        BY <3>1, <4>1
      <4>3. Len(p) = k
        BY <2>2, <4>2, LenProperties
      <4> QED
        BY <4>2, <4>3
    <3>3. IsGreedy(list, p, d, 0)
      BY GreedyParts
    <3>4. PICK f : f = IncMaxmin(list, p, d, 0)
      OBVIOUS
    <3>5. f \in Selections(list, k) /\ Greedy(list, f, k)
      BY <2>2, <2>3, <2>7, <3>2, <3>3, <3>4, IncMaxminProperties
    <3>6. PICK q, e : q = f.ans /\ e = f.distances
      OBVIOUS
    <3>7. /\ q \in [1 .. k -> 1 .. Len(list)] /\ e \in [1 .. k -> Fractions]
          /\ IsGreedy(list, q, e, k)
      BY <3>5, <3>6 DEF Selections, Greedy
    <3>8. IsHalfOptimal(list, k, LeastDistance(list, Chosen(q, k)))
      BY <2>2, <2>7, <3>7, GreedyHalfOptimal
    <3>9. Maxmin(list, k) = LeastDistance(list, Chosen(q, k))
      BY <3>1, <3>4, <3>6 DEF Maxmin
    <3> QED
      BY <3>8, <3>9
  <2> QED
    BY <2>1, <2>4, <2>9, <2>10
<1> QED
  BY <1>1, Invariance, AutoInvariance, PTL

-----------------------------------------------------------------------------
(***************************************************************************)
(* With MIN no search fails.  Past the first vertex an edge with the       *)
(* fewest candidates is covered, so that its vertices leave a candidate in *)
(* every edge they do not hit; and the edge a vertex was chosen for has no *)
(* candidate left, so that it stays critical.  Only the first edge, which  *)
(* is drawn, may hold vertices that have to be tried in vain.              *)
(***************************************************************************)

\* With MIN the edge covered is not hit and has the fewest candidates.
LEMMA MinChoice ==
  ASSUME SubGraphsAreComponents, Shape, component # 0,
         uncov \in SUBSET EdgeIds(hyper_graph), uncov # {}, cur # {},
         method = "MIN", NEW cand,
         NEW choice \in Inherited!GoodEdgesToCover(cand)
  PROVE  /\ choice.edge \in uncov
         /\ \A e \in uncov :
              Cardinality(cand \cap hyper_graph[choice.edge])
                <= Cardinality(cand \cap hyper_graph[e])
<1> DEFINE g == hyper_graph
           N(e) == Cardinality(cand \cap g[e])
           best == Inherited!FewestCand(cand)
<1>1. /\ IsHyperGraph(g) /\ uncov \subseteq EdgeIds(g)
      /\ EdgeIds(g) \subseteq Nat
  <2>1. IsHyperGraph(g)
    BY GraphFacts
  <2> HIDE DEF g
  <2>2. EdgeIds(g) \subseteq Nat
    BY <2>1, IsHyperGraphProperties
  <2> QED
    BY <2>1, <2>2 DEF g
<1>2. \A e \in uncov : N(e) \in Nat
  <2> TAKE e \in uncov
  <2>1. N(e) \in 0 .. MaxBit
    BY <1>1, CandidateCount
  <2> QED
    BY <2>1
<1>3. best = {e \in uncov : \A f \in uncov : N(e) <= N(f)}
  BY InheritedCardinality DEF Inherited!FewestCand, Inherited!CandNum
<1>4. best # {}
  <2> DEFINE F == [e \in uncov |-> N(e)]
  <2>1. F \in [uncov -> Nat]
    BY <1>2
  <2>2. PICK x \in uncov : \A y \in uncov : F[x] <= F[y]
    <3> HIDE DEF F
    <3> QED
      BY <2>1, CheapestExists
  <2>3. \A y \in uncov : N(x) <= N(y)
    BY <2>2
  <2> QED
    BY <1>3, <2>3
<1>5. choice.edge = Least(best)
  <2>1. choice = Inherited!ScanChoice(cand)
    BY DEF Inherited!GoodEdgesToCover
  <2>2. Inherited!ScanChoice(cand) = [edge |-> Least(best), next |-> Least(best)]
    BY <1>4 DEF Inherited!ScanChoice, Inherited!Choice, Inherited!Least, Least
  <2> QED
    BY <2>1, <2>2
<1>6. best \in SUBSET Nat
  BY <1>1, <1>3
<1> HIDE DEF best
<1>7. Least(best) \in best
  BY <1>4, <1>6, LeastProperties
<1> QED
  BY <1>3, <1>5, <1>7

\* The outermost activation, whose vertices T are not tried yet: all others
\* are candidates, and some edge has none of them.
TriesOf(f, T) ==
  /\ f.cand = Vertices(hyper_graph) \ T
  /\ \E e \in EdgeIds(hyper_graph) : hyper_graph[e] \subseteq T

\* It waits for a call with its vertex.
TriedOf(f, T) ==
  /\ f.loop = "tried" /\ f.v \notin f.todo /\ cur = {f.v}
  /\ f.cand = Vertices(hyper_graph) \ (f.todo \cup {f.v})
  /\ \E e \in EdgeIds(hyper_graph) : hyper_graph[e] \subseteq T

\* Every edge that is not hit has a candidate.
Open(cand) == \A e \in uncov : hyper_graph[e] \cap cand # {}

\* Every vertex chosen has a critical edge without a candidate.
Safe(g, crit, cand) ==
  \A i \in 1 .. Len(crit) : \E e \in crit[i] : g[e] \cap cand = {}

\* The activation has all vertices of its edge to try, and no edge has fewer
\* candidates.
Narrowest(f) ==
  /\ f.loop = "untried" /\ f.todo = f.c /\ f.c # {}
  /\ \E d \in uncov :
       /\ f.c = hyper_graph[d] \cap (f.cand \cup f.c)
       /\ \A e \in uncov :
            Cardinality((f.cand \cup f.c) \cap hyper_graph[d])
              <= Cardinality((f.cand \cup f.c) \cap hyper_graph[e])
  /\ Safe(hyper_graph, f.crit, f.cand \cup f.c)

MinStarts == pc = "call" /\ stack = <<>> /\ cur = {} /\ args.cand = Vertices(hyper_graph)

MinOuter ==
  /\ pc = "loop" /\ Len(stack) = 1 /\ cur = {}
  /\ stack[1].loop # "repair" /\ TriesOf(stack[1], stack[1].todo)

MinFirst ==
  pc = "call" /\ Len(stack) = 1 /\ TriedOf(stack[1], stack[1].todo \cup {stack[1].v})

\* The call finds an edge without a candidate, and returns.
MinInVain ==
  /\ pc = "loop" /\ Len(stack) = 2 /\ Empty(stack[2])
  /\ TriedOf(stack[1], stack[1].todo)

MinBack == pc = "return" /\ Len(stack) = 1 /\ TriedOf(stack[1], stack[1].todo)

MinCall ==
  /\ pc = "call" /\ Len(stack) >= 2
  /\ Open(args.cand) /\ Safe(hyper_graph, args.crit, args.cand)

MinLoop == pc = "loop" /\ Len(stack) >= 2 /\ Narrowest(stack[Len(stack)])

\* A search with MIN that has found nothing yet.
MinSeeks ==
  /\ object.method = "MIN" /\ found = 0 /\ component # 0
  /\ \/ pc = "call" /\ ~stop_flag
     \/ pc = "loop"
     \/ pc = "return" /\ stack # <<>>

MinInv ==
  MinSeeks =>
    /\ back_steps = 0 /\ ~stop_flag
    /\ \/ MinStarts \/ MinOuter \/ MinFirst \/ MinInVain \/ MinBack
       \/ MinCall \/ MinLoop

\* No edge of a component is empty.
LEMMA EdgesNotEmpty ==
  ASSUME SubGraphsAreComponents, Shape, component # 0
  PROVE  \A e \in EdgeIds(hyper_graph) : hyper_graph[e] # {}
<1>1. component \in DOMAIN sub_graphs
  BY GraphFacts
<1>2. \A e \in EdgeIds(hyper_graph) :
        \E f \in EdgeIds(object.hyper_graph) :
          /\ hyper_graph[e] = object.hyper_graph[f]
          /\ object.hyper_graph[f] # {}
  BY <1>1 DEF SubGraphsAreComponents, AreComponents, hyper_graph
<1> QED
  BY <1>2

\* What is known where RunDiverse_ is called.
LEMMA CallFacts ==
  ASSUME SubGraphsAreComponents, IInv, pc = "call"
  PROVE  /\ stack \in Seq(Frames) /\ Len(stack) \in Nat /\ component # 0
         /\ args.cand \in SUBSET Vertices(hyper_graph) /\ args.cand \cap cur = {}
         /\ cur \in SUBSET Vertices(hyper_graph)
         /\ uncov = Uncovered(hyper_graph, cur)
         /\ uncov \in SUBSET EdgeIds(hyper_graph)
         /\ args.crit \in Seq(SUBSET EdgeIds(hyper_graph))
         /\ Len(args.crit) \in Nat
         /\ \A i \in 1 .. Len(args.crit) :
              \E u \in cur : args.crit[i] = Critical(hyper_graph, cur, u)
<1>1. /\ stack \in Seq(Frames) /\ component # 0
      /\ args.cand \in SUBSET Vertices(hyper_graph) /\ args.cand \cap cur = {}
      /\ ExactAt(hyper_graph, Now, args.crit)
  BY DEF IInv, Shape, CallOK
<1>2. Len(stack) \in Nat
  BY <1>1
<1>3. /\ cur \in SUBSET Vertices(hyper_graph)
      /\ uncov = Uncovered(hyper_graph, cur)
      /\ args.crit \in Seq(SUBSET EdgeIds(hyper_graph))
      /\ \A i \in 1 .. Len(args.crit) :
           /\ cur_list[i] \in cur
           /\ args.crit[i] = Critical(hyper_graph, cur, cur_list[i])
  BY <1>1 DEF ExactAt, Now
<1>4. Len(args.crit) \in Nat
  BY <1>3
<1>5. uncov \in SUBSET EdgeIds(hyper_graph)
  BY <1>3 DEF Uncovered
<1> QED
  BY <1>1, <1>2, <1>3, <1>4, <1>5

\* Whichever vertex of its edge is chosen, every edge left keeps a candidate,
\* and the vertex has a critical edge without one.
LEMMA NarrowestLeavesOpen ==
  ASSUME NEW g, IsHyperGraph(g), NEW U \in SUBSET EdgeIds(g), NEW cand, NEW c,
         cand \cap c = {}, NEW d \in U, c = g[d] \cap (cand \cup c),
         \A e \in U : Cardinality((cand \cup c) \cap g[d])
                        <= Cardinality((cand \cup c) \cap g[e]),
         NEW v \in c
  PROVE  /\ \A e \in UpdatedUncov(g, U, v) : g[e] \cap cand # {}
         /\ d \in NewCrit(g, U, v) /\ g[d] \cap cand = {}
<1>1. d \in NewCrit(g, U, v) /\ g[d] \cap cand = {}
  BY DEF NewCrit, VertexHitting
<1>2. ASSUME NEW e \in UpdatedUncov(g, U, v), g[e] \cap cand = {}
      PROVE  FALSE
  <2> DEFINE X == (cand \cup c) \cap g[e]
  <2>1. e \in U /\ v \notin g[e]
    BY <1>2 DEF UpdatedUncov, VertexHitting
  <2>2. (cand \cup c) \cap g[d] = c
    OBVIOUS
  <2>3. X \subseteq c \ {v}
    BY <1>2, <2>1
  <2>4. c \in SUBSET (0 .. MaxBit - 1)
    <3>1. EdgeIds(g) = 0 .. EdgeNum(g) - 1
      BY IsHyperGraphProperties
    <3>2. g[d] \in SUBSET (0 .. MaxBit - 1)
      BY <3>1 DEF IsHyperGraph
    <3> QED
      BY <3>2
  <2>5. IsFiniteSet(c)
    <3>1. 0 \in Int /\ MaxBit - 1 \in Int
      BY DEF MaxBit
    <3>2. IsFiniteSet(0 .. MaxBit - 1)
      BY <3>1, FS_Interval
    <3> QED
      BY <2>4, <3>2, FS_Subset
  <2> HIDE DEF X
  <2>6. IsFiniteSet(c \ {v}) /\ Cardinality(c \ {v}) = Cardinality(c) - 1
    BY <2>5, FS_RemoveElement
  <2>7. IsFiniteSet(X) /\ Cardinality(X) <= Cardinality(c \ {v})
    BY <2>3, <2>6, FS_Subset
  <2>8. Cardinality(c) \in Nat /\ Cardinality(X) \in Nat
    BY <2>5, <2>7, FS_CardinalityType
  <2>9. Cardinality(c) <= Cardinality(X)
    BY <2>1, <2>2 DEF X
  <2> QED
    BY <2>6, <2>7, <2>8, <2>9
<1> QED
  BY <1>1, <1>2

\* The call covers an edge.
LEMMA MinExpand ==
  ASSUME SubGraphsAreComponents, IInv, MinInv, Expand
  PROVE  MinInv'
<1> DEFINE g == hyper_graph
           d == Len(stack)
<1>1. /\ pc = "call" /\ ~stop_flag /\ uncov # {}
      /\ pc' = "loop"
      /\ UNCHANGED <<given, place, chosen, back_steps, stop_flag, results>>
  BY DEF Expand
<1>2. /\ stack \in Seq(Frames) /\ d \in Nat /\ component # 0
      /\ args.cand \in SUBSET Vertices(g) /\ args.cand \cap cur = {}
      /\ cur \in SUBSET Vertices(g)
      /\ uncov = Uncovered(g, cur) /\ uncov \in SUBSET EdgeIds(g)
      /\ args.crit \in Seq(SUBSET EdgeIds(g)) /\ Len(args.crit) \in Nat
      /\ \A i \in 1 .. Len(args.crit) :
           \E u \in cur : args.crit[i] = Critical(g, cur, u)
  BY <1>1, CallFacts
<1>3. PICK choice \in Inherited!GoodEdgesToCover(args.cand) :
        LET c == args.cand \cap hyper_graph[choice.edge]
        IN stack' = Append(stack,
                      [cand |-> args.cand \ c, c |-> c, todo |-> c,
                       crit |-> args.crit, loop |-> "untried",
                       v |-> NoVertex, back |-> {}, old |-> NoMembers])
  BY DEF Expand
<1>4. PICK cand, e : cand = args.cand /\ e = choice.edge
  OBVIOUS
<1>5. PICK c : c = cand \cap g[e]
  OBVIOUS
<1>6. PICK f : f = [cand |-> cand \ c, c |-> c, todo |-> c,
                    crit |-> args.crit, loop |-> "untried",
                    v |-> NoVertex, back |-> {}, old |-> NoMembers]
  OBVIOUS
<1>7. /\ f.cand = cand \ c /\ f.c = c /\ f.todo = c /\ f.crit = args.crit
      /\ f.loop = "untried"
  BY <1>6
<1>8. stack' = Append(stack, f)
  BY <1>3, <1>4, <1>5, <1>6
<1>9. /\ Len(stack') = d + 1 /\ stack'[d + 1] = f
      /\ \A i \in 1 .. d : stack'[i] = stack[i]
  <2>1. f \in {f} \cup Frames /\ stack \in Seq({f} \cup Frames)
    BY <1>2
  <2> QED
    BY <1>8, <2>1, PushProperties
<1>10. /\ g' = g /\ object' = object /\ component' = component /\ found' = found
       /\ back_steps' = back_steps /\ stop_flag' = stop_flag /\ cur' = cur
       /\ uncov' = uncov
  BY <1>1 DEF given, place, chosen, results, hyper_graph
<1>11. SUFFICES ASSUME object.method = "MIN", found = 0
                PROVE  /\ back_steps = 0
                       /\ MinOuter' \/ MinInVain' \/ MinLoop'
  BY <1>1, <1>10 DEF MinInv, MinSeeks
<1>12. /\ back_steps = 0
       /\ MinStarts \/ MinFirst \/ MinCall
  BY <1>1, <1>2, <1>11 DEF MinInv, MinSeeks, MinOuter, MinInVain, MinBack, MinLoop
<1>13. Shape /\ method = "MIN"
  BY <1>11 DEF IInv, method
<1>14. e \in uncov
  <2>1. choice \in Inherited!GoodEdgesToCover(cand)
    BY <1>4
  <2> QED
    BY <1>1, <1>2, <1>4, <1>13, <2>1, ChoiceProperties
<1>15. e \in EdgeIds(g) /\ g[e] \subseteq Vertices(g)
  BY <1>2, <1>14 DEF Vertices
<1>16. cur # {} =>
         \A a \in uncov : Cardinality(cand \cap g[e]) <= Cardinality(cand \cap g[a])
  <2> SUFFICES ASSUME cur # {}
               PROVE  \A a \in uncov :
                        Cardinality(cand \cap g[e]) <= Cardinality(cand \cap g[a])
    OBVIOUS
  <2>1. choice \in Inherited!GoodEdgesToCover(cand)
    BY <1>4
  <2> QED
    BY <1>1, <1>2, <1>4, <1>13, <2>1, MinChoice
<1>17. CASE MinStarts
  <2>1. d = 0 /\ cur = {} /\ cand = Vertices(g)
    BY <1>2, <1>4, <1>17 DEF MinStarts
  <2>2. c = g[e] /\ f.cand = Vertices(g) \ f.todo
    BY <1>5, <1>7, <1>15, <2>1
  <2>3. TriesOf(f, f.todo)'
    BY <1>7, <1>10, <1>15, <2>2 DEF TriesOf
  <2>4. stack'[1] = f /\ Len(stack') = 1
    BY <1>9, <2>1
  <2> QED
    BY <1>1, <1>7, <1>10, <1>12, <2>1, <2>3, <2>4 DEF MinOuter, TriesOf
<1>18. ASSUME cur # {}, \A a \in uncov : g[a] \cap cand # {},
              Safe(hyper_graph, args.crit, cand), d >= 1
       PROVE  MinLoop'
  <2>1. c # {}
    BY <1>5, <1>14, <1>18
  <2>2. f.cand \cup f.c = cand /\ f.c = g[e] \cap (f.cand \cup f.c)
    BY <1>5, <1>7
  <2>3. \A a \in uncov : Cardinality((f.cand \cup f.c) \cap g[e])
                           <= Cardinality((f.cand \cup f.c) \cap g[a])
    BY <1>16, <1>18, <2>2
  <2>4. Safe(hyper_graph, f.crit, f.cand \cup f.c)
    BY <1>7, <1>18, <2>2
  <2>5. Narrowest(f)
    BY <1>7, <1>14, <2>1, <2>2, <2>3, <2>4 DEF Narrowest
  <2>6. Narrowest(f)'
    BY <1>10, <2>5 DEF Narrowest, Safe
  <2>7. stack'[Len(stack')] = f /\ Len(stack') >= 2
    BY <1>2, <1>9, <1>18
  <2> QED
    BY <1>1, <2>6, <2>7 DEF MinLoop, Narrowest
<1>19. CASE MinFirst
  <2> DEFINE r == stack[1]
  <2>1. /\ d = 1 /\ r.loop = "tried" /\ r.v \notin r.todo /\ cur = {r.v}
        /\ r.cand = Vertices(g) \ (r.todo \cup {r.v})
    BY <1>19 DEF MinFirst, TriedOf
  <2>2. PICK a \in EdgeIds(g) : g[a] \subseteq r.todo \cup {r.v}
    BY <1>19 DEF MinFirst, TriedOf
  <2>3. cand = Vertices(g) \ (r.todo \cup {r.v})
    <3>1. stack # <<>>
      BY <2>1
    <3>2. cand = stack[d].cand
      BY <1>1, <1>4, <3>1 DEF IInv, CallOK
    <3> QED
      BY <2>1, <3>2
  <2>4. CASE c = {}
    <3>1. g[e] \subseteq r.todo
      <4>1. r.v \notin g[e]
        BY <1>2, <1>14, <2>1 DEF Uncovered
      <4>2. g[e] \cap cand = {}
        BY <1>5, <2>4
      <4> QED
        BY <1>15, <2>3, <4>1, <4>2
    <3>2. stack'[1] = r /\ Len(stack') = 2 /\ stack'[2] = f
      BY <1>9, <2>1
    <3>3. TriedOf(r, r.todo)
      BY <1>15, <2>1, <3>1 DEF TriedOf
    <3>4. Empty(f)
      BY <1>7, <2>4 DEF Empty
    <3>5. MinInVain'
      BY <1>1, <1>10, <3>2, <3>3, <3>4 DEF MinInVain, TriedOf, Empty
    <3> QED
      BY <1>12, <3>5
  <2>5. CASE c # {}
    <3>0. cur # {}
      BY <2>1
    <3>1. \A b \in uncov : g[b] \cap cand # {}
      <4> SUFFICES ASSUME NEW b \in uncov, g[b] \cap cand = {} PROVE FALSE
        OBVIOUS
      <4>1. b \in EdgeIds(g)
        BY <1>2
      <4>2. /\ Cardinality(cand \cap g[b]) = 0 /\ Cardinality(cand \cap g[e]) # 0
            /\ Cardinality(cand \cap g[e]) \in 0 .. MaxBit
        <5>1. IsHyperGraph(g)
          BY <1>2, <1>13, GraphFacts
        <5> HIDE DEF g
        <5> QED
          BY <1>5, <1>15, <2>5, <4>1, <5>1, CandidateCount
      <4>3. Cardinality(cand \cap g[e]) <= Cardinality(cand \cap g[b])
        BY <1>16, <3>0
      <4> HIDE DEF g
      <4> QED
        BY <4>2, <4>3
    <3>2. r.v \in g[a] /\ g[a] \cap cand = {}
      <4>1. g[a] \cap cand = {}
        BY <2>2, <2>3
      <4>2. a \notin uncov
        BY <3>1, <4>1
      <4> QED
        BY <1>2, <2>1, <2>2, <4>1, <4>2 DEF Uncovered
    <3>3. Safe(hyper_graph, args.crit, cand)
      <4> SUFFICES ASSUME NEW i \in 1 .. Len(args.crit)
                   PROVE  \E b \in args.crit[i] : g[b] \cap cand = {}
        BY DEF Safe
      <4>1. args.crit[i] = Critical(g, cur, r.v)
        BY <1>2, <2>1
      <4>2. a \in args.crit[i]
        BY <2>1, <2>2, <3>2, <4>1 DEF Critical
      <4> QED
        BY <3>2, <4>2
    <3> QED
      BY <1>12, <1>18, <2>1, <3>0, <3>1, <3>3
  <2> QED
    BY <2>4, <2>5
<1>20. CASE MinCall
  <2>1. cur # {}
    <3>1. 1 \in 1 .. Len(stack) /\ stack # <<>>
      BY <1>2, <1>20 DEF MinCall
    <3>2. PICK m \in Seq(Members) : ChainOK(m)
      BY <1>1 DEF IInv, Chain, Live
    <3>3. Len(m) = d + 1 /\ m[d + 1] = Now /\ Linked(g, stack, m)
      BY <1>1, <3>2 DEF ChainOK
    <3>4. d \in 1 .. Len(m) - 1
      BY <1>2, <1>20, <3>3 DEF MinCall
    <3>5. Waits(g, stack[d], m[d], m[d + 1])
      BY <3>3, <3>4 DEF Linked
    <3> QED
      BY <3>3, <3>5 DEF Waits, Now
  <2>2. /\ \A a \in uncov : g[a] \cap cand # {}
        /\ Safe(hyper_graph, args.crit, cand) /\ d >= 1
    BY <1>2, <1>4, <1>20 DEF MinCall, Open
  <2> QED
    BY <1>12, <1>18, <2>1, <2>2
<1> QED
  BY <1>12, <1>17, <1>19, <1>20

\* A choice leaves every vertex an edge that is critical and has no candidate.
LEMMA OutOfReach ==
  ASSUME NEW g, NEW E, NEW K \in Seq(SUBSET E), NEW U \in SUBSET E,
         NEW cand, NEW c, NEW v \in c,
         Safe(g, K, cand \cup c),
         \E e \in NewCrit(g, U, v) : g[e] \cap cand = {}
  PROVE  Safe(g, UpdatedCrit(g, K, U, v), cand)
<1> DEFINE n == Len(K)
           H == VertexHitting(g, v)
           old == [i \in 1 .. n |-> K[i] \ H]
           new == NewCrit(g, U, v)
<1>1. n \in Nat /\ UpdatedCrit(g, K, U, v) = Append(old, new)
  BY DEF UpdatedCrit
<1>2. old \in Seq(SUBSET E) /\ Len(old) = n /\ new \in SUBSET E
  BY DEF NewCrit
<1>3. \A i \in 1 .. n : old[i] = K[i] \ H
  OBVIOUS
<1>4. ASSUME NEW i \in 1 .. n PROVE \E e \in old[i] : g[e] \cap cand = {}
  <2>1. PICK e \in K[i] : g[e] \cap (cand \cup c) = {}
    BY DEF Safe
  <2>2. e \in old[i]
    BY <1>3, <2>1 DEF VertexHitting
  <2> QED
    BY <2>1, <2>2
<1>5. \E e \in new : g[e] \cap cand = {}
  OBVIOUS
<1> HIDE DEF old, new, n
<1>6. /\ Len(Append(old, new)) = n + 1 /\ Append(old, new)[n + 1] = new
      /\ \A i \in 1 .. n : Append(old, new)[i] = old[i]
  BY <1>2, PushProperties
<1>7. \A i \in 1 .. n + 1 : i = n + 1 \/ i \in 1 .. n
  BY <1>1
<1> QED
  BY <1>1, <1>4, <1>5, <1>6, <1>7 DEF Safe

\* Where no vertex is chosen none violates.
LEMMA NoneViolates ==
  ASSUME SubGraphsAreComponents, IInv, pc = "loop", cur = {}
  PROVE  \A v : ~VertexWouldViolate(hyper_graph, active.crit, v)
<1>1. ExactAt(hyper_graph, Now, active.crit)
  BY LoopFacts DEF FrameAt
<1>2. \A i \in 1 .. Len(active.crit) : cur_list[i] \in cur
  BY <1>1 DEF ExactAt, Now
<1> QED
  BY <1>2 DEF VertexWouldViolate

\* Nor does a vertex of the narrowest edge.
LEMMA NoneOfNarrowestViolates ==
  ASSUME SubGraphsAreComponents, IInv, pc = "loop", Narrowest(active),
         NEW v \in active.todo
  PROVE  ~VertexWouldViolate(hyper_graph, active.crit, v)
<1> DEFINE g == hyper_graph
<1>1. active.c \subseteq active.cand \cup active.c /\ v \in active.c
  BY DEF Narrowest
<1>2. ASSUME NEW i \in 1 .. Len(active.crit)
      PROVE  active.crit[i] \ VertexHitting(g, v) # {}
  <2>1. PICK e \in active.crit[i] : g[e] \cap (active.cand \cup active.c) = {}
    BY DEF Narrowest, Safe
  <2>2. v \notin g[e]
    BY <1>1, <2>1
  <2> QED
    BY <2>1, <2>2 DEF VertexHitting
<1> QED
  BY <1>2 DEF VertexWouldViolate

\* The outermost activation has a vertex to try.
LEMMA OuterTries ==
  ASSUME SubGraphsAreComponents, IInv, component # 0,
         NEW f, NEW T, TriesOf(f, T)
  PROVE  T # {}
<1>1. \A e \in EdgeIds(hyper_graph) : hyper_graph[e] # {}
  BY EdgesNotEmpty DEF IInv
<1> QED
  BY <1>1 DEF TriesOf

\* Which activation a loop with MIN is in.
LEMMA MinLoops ==
  ASSUME SubGraphsAreComponents, IInv, MinInv, MinSeeks, pc = "loop"
  PROVE  /\ back_steps = 0 /\ ~stop_flag
         /\ \/ /\ Len(stack) = 1 /\ cur = {}
               /\ active.loop # "repair" /\ active.todo # {}
               /\ TriesOf(active, active.todo)
            \/ MinInVain /\ Empty(active)
            \/ /\ Len(stack) >= 2 /\ Narrowest(active)
               /\ active.loop = "untried" /\ active.todo # {}
<1>1. active = stack[Len(stack)] /\ component # 0
  BY LoopFacts
<1>2. back_steps = 0 /\ ~stop_flag /\ (MinOuter \/ MinInVain \/ MinLoop)
  BY DEF MinInv, MinStarts, MinFirst, MinBack, MinCall
<1>3. CASE MinOuter
  <2>1. /\ Len(stack) = 1 /\ cur = {} /\ active.loop # "repair"
        /\ TriesOf(active, active.todo)
    BY <1>1, <1>3 DEF MinOuter
  <2>2. active.todo # {}
    BY <1>1, <2>1, OuterTries
  <2> QED
    BY <1>2, <2>1, <2>2
<1>4. CASE MinInVain
  BY <1>1, <1>2, <1>4 DEF MinInVain
<1>5. CASE MinLoop
  BY <1>1, <1>2, <1>5 DEF MinLoop, Narrowest
<1> QED
  BY <1>2, <1>3, <1>4, <1>5

\* A vertex of the edge is chosen.
LEMMA MinDescend ==
  ASSUME SubGraphsAreComponents, IInv, MinInv, Descend
  PROVE  MinInv'
<1> DEFINE g == hyper_graph
           d == Len(stack)
<1>1. pc = "loop" /\ back_steps = 0
  BY DEF Descend, Trying
<1>2. PICK v \in active.todo : DescendWith(v)
  BY DEF Descend
<1> DEFINE h == [active EXCEPT !.todo = @ \ {v}, !.c = {}, !.loop = "tried",
                               !.v = v, !.back = NewCrit(g, uncov, v)]
           L == UpdatedCrit(g, active.crit, uncov, v)
<1>3. /\ cur' = Flip(cur, v) /\ uncov' = UpdatedUncov(g, uncov, v)
      /\ args' = [cand |-> active.cand, crit |-> L]
      /\ stack' = WithTop(stack, h) /\ pc' = "call"
      /\ UNCHANGED <<given, place, next_edge, back_steps, stop_flag, results>>
  BY <1>2 DEF DescendWith
<1>4. /\ stack \in Seq(Frames) /\ stack # <<>> /\ d \in Nat /\ d \in 1 .. d
      /\ active = stack[d] /\ active \in Frames /\ component # 0
      /\ FrameAt(g, active, Now)
  BY <1>1, LoopFacts
<1>5. PICK f : f = h
  OBVIOUS
<1>6. NewCrit(g, uncov, v) \in SUBSET EdgeIds(g)
  <2>1. uncov \in SUBSET EdgeIds(g)
    BY <1>4 DEF FrameAt, ExactAt, Now, Uncovered
  <2> QED
    BY <2>1 DEF NewCrit
<1>7. /\ f \in Frames /\ f.todo = active.todo \ {v}
      /\ f.cand = active.cand /\ f.loop = "tried" /\ f.v = v
  <2>1. v \in Vertices(g)
    BY <1>4 DEF Frames
  <2> QED
    BY <1>4, <1>5, <1>6, <2>1 DEF Frames
<1>8. /\ Len(stack') = d /\ stack'[d] = f
  <2>1. PICK s \in Seq(Frames), t \in Frames : s = stack /\ t = f
    BY <1>4, <1>7
  <2>2. s # <<>> /\ stack' = WithTop(s, t)
    BY <1>3, <1>4, <1>5, <2>1
  <2>3. Len(WithTop(s, t)) = Len(s) /\ WithTop(s, t)[Len(s)] = t
    BY ONLY <2>2, WithTopProperties
  <2> QED
    BY <2>1, <2>2, <2>3
<1>9. /\ g' = g /\ object' = object /\ component' = component /\ found' = found
      /\ back_steps' = back_steps /\ stop_flag' = stop_flag
  BY <1>3 DEF given, place, results, hyper_graph
<1>10. SUFFICES ASSUME object.method = "MIN", found = 0
                PROVE  back_steps = 0 /\ ~stop_flag /\ (MinFirst' \/ MinCall')
  BY <1>9 DEF MinInv, MinSeeks
<1>11. MinSeeks
  BY <1>1, <1>4, <1>10 DEF MinSeeks
<1>12. CASE d = 1 /\ cur = {} /\ TriesOf(active, active.todo)
  <2>1. cur' = {v}
    BY <1>3, <1>12 DEF Flip
  <2>2. f.todo \cup {v} = active.todo
    BY <1>7
  <2>3. TriedOf(f, f.todo \cup {f.v})'
    BY <1>7, <1>9, <1>12, <2>1, <2>2 DEF TriesOf, TriedOf
  <2>4. stack'[1] = f /\ Len(stack') = 1
    BY <1>8, <1>12
  <2> QED
    BY <1>1, <1>3, <1>11, <2>3, <2>4, MinLoops DEF MinFirst, TriedOf
<1>13. CASE d >= 2 /\ Narrowest(active)
  <2> DEFINE cand == active.cand
             c == active.c
  <2>1. PICK e \in uncov :
          /\ c = g[e] \cap (cand \cup c)
          /\ \A a \in uncov : Cardinality((cand \cup c) \cap g[e])
                                <= Cardinality((cand \cup c) \cap g[a])
    BY <1>13 DEF Narrowest
  <2>2. /\ uncov \in SUBSET EdgeIds(g) /\ cand \cap c = {} /\ v \in c
        /\ active.crit \in Seq(SUBSET EdgeIds(g))
    BY <1>4, <1>13 DEF FrameAt, ExactAt, Now, Uncovered, Narrowest
  <2>3. IsHyperGraph(g)
    BY <1>4, GraphFacts DEF IInv
  <2>4. /\ \A a \in UpdatedUncov(g, uncov, v) : g[a] \cap cand # {}
        /\ e \in NewCrit(g, uncov, v) /\ g[e] \cap cand = {}
    <3> HIDE DEF g, cand, c
    <3> QED
      BY <2>1, <2>2, <2>3, NarrowestLeavesOpen
  <2>5. Safe(g, active.crit, cand \cup c)
    BY <1>13 DEF Narrowest
  <2>6. Safe(g, L, cand)
    <3>1. PICK E, q, U, K, a, b :
            E = EdgeIds(g) /\ q = g /\ U = uncov /\ K = active.crit
            /\ a = cand /\ b = c
      OBVIOUS
    <3>2. /\ K \in Seq(SUBSET E) /\ U \in SUBSET E /\ v \in b
          /\ Safe(q, K, a \cup b)
          /\ \E x \in NewCrit(q, U, v) : q[x] \cap a = {}
      BY <2>2, <2>4, <2>5, <3>1
    <3>3. Safe(q, UpdatedCrit(q, K, U, v), a)
      BY ONLY <3>2, OutOfReach
    <3> QED
      BY <3>1, <3>3
  <2>7. Open(args.cand)' /\ Safe(hyper_graph, args.crit, args.cand)'
    BY <1>3, <1>9, <2>4, <2>6 DEF Open, Safe
  <2> QED
    BY <1>1, <1>3, <1>8, <1>11, <1>13, <2>7, MinLoops DEF MinCall
<1>14. ~Empty(active)
  BY DEF Empty
<1> QED
  BY <1>1, <1>11, <1>12, <1>13, <1>14, MinLoops

\* The other steps of the loops: a vertex is passed over nowhere, nothing is
\* repaired, and the only call left in vain is one of the outermost.
LEMMA MinRestOfLoop ==
  ASSUME SubGraphsAreComponents, IInv, MinInv,
         Skip \/ BackOut \/ StartRepair \/ Repair \/ Leave
  PROVE  MinInv'
<1>1. /\ pc = "loop"
      /\ UNCHANGED <<given, component, stop_flag, found>>
  BY DEF Skip, BackOut, StartRepair, Repair, Leave, Trying, Repairing, place,
         results
<1>2. /\ stack \in Seq(Frames) /\ stack # <<>> /\ Len(stack) \in Nat
      /\ active = stack[Len(stack)] /\ component # 0
  BY <1>1, LoopFacts
<1>3. object' = object /\ component' = component /\ hyper_graph' = hyper_graph
  BY <1>1 DEF given, hyper_graph
<1>4. CASE ~MinSeeks
  BY <1>1, <1>2, <1>3, <1>4 DEF MinInv, MinSeeks
<1>5. CASE MinSeeks
  <2>1. back_steps = 0
    BY <1>1, <1>5, MinLoops
  <2>2. ~Skip
    <3> SUFFICES ASSUME NEW v \in active.todo,
                        VertexWouldViolate(hyper_graph, active.crit, v)
                 PROVE  FALSE
      BY DEF Skip
    <3>1. cur # {}
      BY <1>1, NoneViolates
    <3>2. ~Narrowest(active)
      BY <1>1, NoneOfNarrowestViolates
    <3>3. ~Empty(active)
      BY DEF Empty
    <3> QED
      BY <1>1, <1>5, <3>1, <3>2, <3>3, MinLoops
  <2>3. ~BackOut
    BY <2>1 DEF BackOut
  <2>4. ~StartRepair
    BY <1>1, <1>5, MinLoops DEF StartRepair, Empty
  <2>5. ~Repair
    BY <1>1, <1>5, MinLoops DEF Repair, Repairing, Empty
  <2>6. CASE Leave
    <3>1. /\ active.todo = {} \/ active.loop = "repair"
          /\ stack' = Popped(stack) /\ pc' = "return" /\ cur' = cur
          /\ back_steps' = 0
      BY <2>1, <2>6 DEF Leave, Repairing, chosen
    <3>2. MinInVain
      BY <1>1, <1>5, <3>1, MinLoops
    <3>3. Len(stack) = 2 /\ TriedOf(stack[1], stack[1].todo)
      BY <3>2 DEF MinInVain
    <3>4. Len(stack') = 1 /\ stack'[1] = stack[1]
      <4>1. PICK s \in Seq(Frames) : s = stack /\ s # <<>>
        BY <1>2
      <4>2. /\ Len(Popped(s)) = Len(s) - 1
            /\ \A i \in 1 .. Len(s) - 1 : Popped(s)[i] = s[i]
        BY ONLY <4>1, PoppedProperties
      <4> QED
        BY <3>1, <3>3, <4>1, <4>2
    <3>5. PICK r : r = stack[1]
      OBVIOUS
    <3>6. TriedOf(r, r.todo)'
      BY <1>3, <3>1, <3>3, <3>5 DEF TriedOf
    <3>7. MinBack'
      BY <3>1, <3>4, <3>5, <3>6 DEF MinBack, TriedOf
    <3> QED
      BY <1>1, <1>5, <3>1, <3>7, MinLoops DEF MinInv
  <2> QED
    BY <2>2, <2>3, <2>4, <2>5, <2>6
<1> QED
  BY <1>4, <1>5

\* The outermost activation goes on with the vertex a candidate again.
LEMMA MinReturn ==
  ASSUME SubGraphsAreComponents, IInv, MinInv, ReturnTried \/ ReturnRepaired
  PROVE  MinInv'
<1>1. /\ pc = "return" /\ ~stop_flag /\ stack # <<>> /\ pc' = "loop"
      /\ UNCHANGED <<given, component, stop_flag, found>>
  BY DEF ReturnTried, ReturnRepaired, place, results
<1>2. /\ stack \in Seq(Frames) /\ Len(stack) \in Nat /\ component # 0
      /\ active = stack[Len(stack)] /\ active \in Frames
  <2>1. stack \in Seq(Frames) /\ component # 0
    BY <1>1 DEF IInv, Shape
  <2> QED
    BY <1>1, <2>1, TopProperties DEF active
<1>3. object' = object /\ component' = component /\ hyper_graph' = hyper_graph
  BY <1>1 DEF given, hyper_graph
<1>4. CASE ~MinSeeks
  BY <1>1, <1>2, <1>3, <1>4 DEF MinInv, MinSeeks
<1>5. CASE MinSeeks
  <2>1. back_steps = 0 /\ Len(stack) = 1 /\ TriedOf(active, active.todo)
    <3>1. MinBack /\ back_steps = 0
      BY <1>1, <1>5 DEF MinInv, MinStarts, MinOuter, MinFirst, MinInVain, MinCall,
                        MinLoop
    <3> QED
      BY <1>2, <3>1 DEF MinBack
  <2>2. active.loop = "tried"
    BY <2>1 DEF TriedOf
  <2>3. /\ cur' = Flip(cur, active.v) /\ back_steps' = back_steps
        /\ stack' = WithTop(stack, [active EXCEPT !.cand = @ \cup {active.v},
                                                  !.v = NoVertex, !.back = {}])
    BY <2>2 DEF ReturnTried, ReturnRepaired
  <2>4. PICK f : f = [active EXCEPT !.cand = @ \cup {active.v},
                                    !.v = NoVertex, !.back = {}]
    OBVIOUS
  <2>5. PICK e \in EdgeIds(hyper_graph) : hyper_graph[e] \subseteq active.todo
    BY <2>1 DEF TriedOf
  <2>6. active.v \in Vertices(hyper_graph)
    <3>1. PICK m \in Seq(Members) : ChainOK(m)
      BY <1>1 DEF IInv, Chain, Live
    <3>2. Len(m) = Len(stack) + 1 /\ Linked(hyper_graph, stack, m)
      BY <1>1, <3>1 DEF ChainOK
    <3>3. 1 \in 1 .. Len(m) - 1
      BY <2>1, <3>2
    <3>4. Waits(hyper_graph, stack[1], m[1], m[2])
      BY <3>2, <3>3 DEF Linked
    <3> QED
      BY <1>2, <2>1, <3>4 DEF Waits
  <2>7. /\ f \in Frames /\ f.cand = active.cand \cup {active.v}
        /\ f.todo = active.todo /\ f.loop = "tried"
    BY <1>2, <2>2, <2>4, <2>6 DEF Frames
  <2>8. cur' = {}
    BY <2>1, <2>3 DEF TriedOf, Flip
  <2>9. f.cand = Vertices(hyper_graph) \ f.todo
    BY <2>1, <2>6, <2>7 DEF TriedOf
  <2>10. TriesOf(f, f.todo)'
    BY <1>3, <2>5, <2>7, <2>9 DEF TriesOf
  <2>11. Len(stack') = 1 /\ stack'[1] = f
    <3>1. PICK s \in Seq(Frames), t \in Frames : s = stack /\ t = f
      BY <1>2, <2>7
    <3>2. s # <<>> /\ stack' = WithTop(s, t)
      BY <1>1, <2>3, <2>4, <3>1
    <3>3. Len(WithTop(s, t)) = Len(s) /\ WithTop(s, t)[Len(s)] = t
      BY ONLY <3>2, WithTopProperties
    <3> QED
      BY <2>1, <3>1, <3>2, <3>3
  <2>12. MinOuter'
    BY <1>1, <2>7, <2>8, <2>10, <2>11 DEF MinOuter, TriesOf
  <2> QED
    BY <1>1, <2>1, <2>3, <2>12 DEF MinInv
<1> QED
  BY <1>4, <1>5

\* The steps that end a search, or begin one.
LEMMA MinRest ==
  ASSUME SubGraphsAreComponents, IInv, MinInv,
         EnterStopped \/ Found \/ ReturnStopped
           \/ RunDiverse \/ StartComponent \/ NextRound
  PROVE  MinInv'
<1>1. CASE EnterStopped \/ ReturnStopped
  <2>1. /\ pc' = "return" /\ stop_flag
        /\ UNCHANGED <<given, component, found>>
    BY <1>1 DEF EnterStopped, ReturnStopped, place, results
  <2>2. stack' = <<>> \/ (stack # <<>> /\ pc = "return")
    BY <1>1 DEF EnterStopped, ReturnStopped, IInv, Shape
  <2>3. object' = object /\ component' = component
    BY <2>1 DEF given
  <2> QED
    BY <2>1, <2>2, <2>3 DEF MinInv, MinSeeks
<1>2. CASE Found
  BY <1>2, FoundCounted DEF MinInv, MinSeeks
<1>3. CASE NextComponent \/ FillQueue
  BY <1>3 DEF NextComponent, FillQueue, InRunDiverse, MinInv, MinSeeks
<1>4. CASE NextRound
  <2>1. stack' = <<>> /\ pc' \in {"return", "done"}
    BY <1>4 DEF NextRound, InRounds
  <2> QED
    BY <2>1 DEF MinInv, MinSeeks
<1>5. CASE StartSearch \/ StartComponent
  <2>1. PICK c : SearchComponent(c)
    BY <1>5 DEF StartSearch, StartComponent
  <2>2. stack = <<>>
    BY <1>5 DEF StartSearch, StartComponent, InRunDiverse, InRounds
  <2>3. /\ component' = c /\ sub_graphs' = sub_graphs /\ cur' = {}
        /\ back_steps' = 0 /\ pc' = "call" /\ stack' = <<>>
        /\ args' = [cand |-> Vertices(sub_graphs[c]), crit |-> <<>>]
    BY <2>1, <2>2 DEF SearchComponent, given
  <2>4. MinStarts'
    BY <2>3 DEF MinStarts, hyper_graph
  <2> QED
    BY <2>3, <2>4 DEF MinInv, MinSeeks
<1> QED
  BY <1>1, <1>2, <1>3, <1>4, <1>5 DEF RunDiverse

LEMMA MinNext ==
  ASSUME SubGraphsAreComponents, IInv, MinInv, [Next]_vars
  PROVE  MinInv'
<1>1. CASE UNCHANGED vars
  <2>1. UNCHANGED <<object, sub_graphs, component, cur, uncov, back_steps,
                    stop_flag, pc, args, stack, found>>
    BY <1>1 DEF vars, search_vars, given, place, chosen, results
  <2>2. hyper_graph' = hyper_graph
    BY <2>1 DEF hyper_graph
  <2>3. MinSeeks' = MinSeeks
    BY <2>1 DEF MinSeeks
  <2>4. MinStarts' = MinStarts /\ MinOuter' = MinOuter
    BY <2>1, <2>2 DEF MinStarts, MinOuter, TriesOf
  <2>5. MinFirst' = MinFirst /\ MinInVain' = MinInVain /\ MinBack' = MinBack
    BY <2>1, <2>2 DEF MinFirst, MinInVain, MinBack, TriedOf
  <2>6. MinCall' = MinCall
    BY <2>1, <2>2 DEF MinCall, Open, Safe
  <2>7. MinLoop' = MinLoop
    BY <2>1, <2>2 DEF MinLoop, Narrowest, Safe
  <2> QED
    BY <2>1, <2>3, <2>4, <2>5, <2>6, <2>7 DEF MinInv
<1>2. CASE Search
  BY <1>2, MinExpand, MinDescend, MinRestOfLoop, MinReturn, MinRest DEF Search
<1>3. CASE RunDiverse \/ StartComponent \/ NextRound
  BY <1>3, MinRest
<1> QED
  BY <1>1, <1>2, <1>3 DEF Next, Terminated

LEMMA MinInvariance == Spec => []MinInv
<1>1. InitAll => MinInv
  BY DEF InitAll, Init, MinInv, MinSeeks
<1>2. SubGraphsAreComponents /\ IInv /\ MinInv /\ [Next]_vars => MinInv'
  BY MinNext
<1> QED
  BY <1>1, <1>2, Components, Invariance, PTL DEF Spec

\* A search ends without a cover in a stopped call only.
LEMMA MinEnds ==
  ASSUME SubGraphsAreComponents, IInv, MinInv, [Next]_vars, object.method = "MIN",
         pc' = "return", stack' = <<>>, pc # "return" \/ stack # <<>>
  PROVE  found' # 0 \/ (pc = "call" /\ stop_flag)
<1> SUFFICES ASSUME found' = 0, ~(pc = "call" /\ stop_flag)
             PROVE  FALSE
  OBVIOUS
<1>1. CASE Found
  BY <1>1, FoundCounted
<1>2. CASE ReturnStopped
  <2>1. pc = "return" /\ stop_flag /\ stack # <<>> /\ found = 0 /\ component # 0
    BY <1>2 DEF ReturnStopped, results, IInv, Shape
  <2> QED
    BY <2>1 DEF MinInv, MinSeeks
<1>3. CASE Skip \/ BackOut \/ StartRepair \/ Repair \/ Leave
  <2>1. pc = "loop" /\ found = 0
    BY <1>3 DEF Skip, BackOut, StartRepair, Repair, Leave, Trying, Repairing,
                results
  <2>2. MinSeeks
    BY <2>1, LoopFacts DEF MinSeeks
  <2>3. stack' = Popped(stack) /\ Len(stack) = 1
    <3>1. /\ stack \in Seq(Frames) /\ stack # <<>> /\ Len(stack) \in Nat
          /\ Len(stack) \in 1 .. Len(stack) /\ active \in Frames
      BY <2>1, LoopFacts
    <3>2. \A f \in Frames : WithTop(stack, f) # <<>>
      BY <3>1, WithTopProperties
    <3>3. stack' = Popped(stack)
      BY <1>3 DEF Skip, BackOut, StartRepair, Repair, Leave, Trying, Repairing
    <3>4. Len(Popped(stack)) = Len(stack) - 1 /\ Len(<<>>) = 0
      BY <3>1, PoppedProperties
    <3> QED
      BY <3>1, <3>3, <3>4
  <2>4. back_steps = 0 /\ active.todo # {} /\ active.loop # "repair"
    BY <2>1, <2>2, <2>3, MinLoops DEF MinInVain
  <2> QED
    BY <1>3, <2>4 DEF Skip, BackOut, StartRepair, Repair, Leave, Trying, Repairing
<1> QED
  BY <1>1, <1>2, <1>3
     DEF Next, Search, EnterStopped, Expand, Descend, DescendWith, ReturnTried,
         ReturnRepaired, RunDiverse, StartSearch, StartComponent, NextComponent,
         FillQueue, NextRound, SearchComponent, InRunDiverse, InRounds,
         Terminated, vars, search_vars

\* With MIN no search fails: one that ends has found a cover, whichever way
\* back the object has, unless it was stopped before it began.
THEOREM MinSucceeds == Spec => MinFinds
<1>1. SubGraphsAreComponents /\ IInv /\ MinInv /\ [Next]_vars
        => [object.method = "MIN" /\ pc' = "return" /\ stack' = <<>>
              /\ (pc # "return" \/ stack # <<>>)
            => found' # 0 \/ (pc = "call" /\ stop_flag)]_search_vars
  BY MinEnds
<1> QED
  BY <1>1, Components, Invariance, MinInvariance, PTL DEF Spec, MinFinds

-----------------------------------------------------------------------------
(***************************************************************************)
(* RandomEnumAutoInc with MIN: no round is without a cover, so that what   *)
(* has been proved of the choice holds of it without a condition.          *)
(***************************************************************************)

\* The slot after those judged has a cover.
SlotFilled == cover_index < Len(vc_list) /\ vc_list[cover_index + 1] # {}

\* The round has found nothing yet.
RoundSeeks ==
  \/ component = 0
  \/ component = 1 /\ found = 0 /\ (pc \in {"call", "loop"} \/ stack # <<>>)

MinRounds ==
  (object.is_auto_inc /\ object.method = "MIN") =>
    /\ EveryRoundFound
    /\ pc # "done" => IF RoundSeeks THEN ~stop_flag ELSE SlotFilled

\* A cover found has a vertex.
LEMMA FoundNotEmpty ==
  ASSUME SubGraphsAreComponents, IInv, Found
  PROVE  component # 0 /\ cur # {}
<1>1. pc = "call" /\ ~stop_flag /\ uncov = {} /\ component # 0
  BY DEF Found, IInv, Shape
<1>2. Uncovered(hyper_graph, cur) = {}
  BY <1>1, FoundMinimal DEF IsMinimalHittingSet
<1>3. component \in DOMAIN sub_graphs
  BY <1>1, GraphFacts DEF IInv
<1>4. Vertices(hyper_graph) # {}
  BY <1>3 DEF SubGraphsAreComponents, AreComponents, hyper_graph
<1>5. PICK e \in EdgeIds(hyper_graph) : TRUE
  BY <1>4 DEF Vertices
<1> QED
  BY <1>1, <1>2, <1>5 DEF Uncovered

\* Which steps are those of a search.
LEMMA SearchSteps ==
  ASSUME IInv, Search
  PROVE  /\ pc \in {"call", "loop"} \/ stack # <<>>
         /\ pc # "done" /\ pc' \in {"call", "loop", "return"}
         /\ component # 0 /\ UNCHANGED <<object, sub_graphs, component>>
         /\ ~Found =>
              UNCHANGED <<cover_index, vc_list, found, stop_flag>>
<1>1. /\ pc \in {"call", "loop"} \/ (pc = "return" /\ stack # <<>>)
      /\ pc' \in {"call", "loop", "return"}
  BY DEF Search, EnterStopped, Found, Expand, Skip, Descend, DescendWith,
         BackOut, ReturnTried, StartRepair, Repair, ReturnRepaired,
         Leave, ReturnStopped, Trying, Repairing
<1>2. UNCHANGED <<object, sub_graphs, component>>
  BY DEF Search, EnterStopped, Found, Expand, Skip, Descend, DescendWith,
         BackOut, ReturnTried, StartRepair, Repair, ReturnRepaired,
         Leave, ReturnStopped, given, place
<1>3. ~Found => UNCHANGED <<cover_index, vc_list, found, stop_flag>>
  BY DEF Search, EnterStopped, Expand, Skip, Descend, DescendWith,
         BackOut, ReturnTried, StartRepair, Repair, ReturnRepaired,
         Leave, ReturnStopped, place, results
<1>4. component # 0
  BY <1>1 DEF IInv, Shape
<1> QED
  BY <1>1, <1>2, <1>3, <1>4

\* The hypergraph of an object of RandomEnumAutoInc has a component.
LEMMA HasComponent ==
  ASSUME SubGraphsAreComponents, Shape, object.is_auto_inc
  PROVE  Len(sub_graphs) \in Nat /\ Len(sub_graphs) >= 1
<1> DEFINE g == object.hyper_graph
<1>1. object \in Objects
  BY DEF Shape
<1>2. Vertices(g) # {}
  BY <1>1, AutoObjectsAssumption
<1>3. PICK e \in EdgeIds(g) : g[e] # {}
  BY <1>2 DEF Vertices
<1>4. \E i \in DOMAIN sub_graphs : TRUE
  BY <1>3 DEF SubGraphsAreComponents, AreComponents
<1>5. Len(sub_graphs) \in Nat /\ DOMAIN sub_graphs = 1 .. Len(sub_graphs)
  BY DEF SubGraphsAreComponents, AreComponents
<1> QED
  BY <1>4, <1>5

LEMMA MinRoundsNext ==
  ASSUME SubGraphsAreComponents, IInv, MinInv, MinRounds, [Next]_vars
  PROVE  MinRounds'
<1>1. CASE Search /\ ~Found
  <2>1. /\ UNCHANGED <<object, component, cover_index, vc_list, found, stop_flag>>
        /\ pc \in {"call", "loop"} \/ stack # <<>>
        /\ pc # "done" /\ pc' \in {"call", "loop", "return"} /\ component # 0
    BY <1>1, SearchSteps
  <2> SUFFICES ASSUME object.is_auto_inc, object.method = "MIN"
               PROVE  /\ EveryRoundFound'
                      /\ IF RoundSeeks' THEN ~stop_flag' ELSE SlotFilled'
    BY <2>1 DEF MinRounds
  <2>2. EveryRoundFound /\ IF RoundSeeks THEN ~stop_flag ELSE SlotFilled
    BY <2>1 DEF MinRounds
  <2>3. EveryRoundFound'
    BY <2>1, <2>2 DEF EveryRoundFound
  <2>4. SlotFilled' <=> SlotFilled
    BY <2>1 DEF SlotFilled
  <2>5. RoundSeeks' => RoundSeeks
    BY <2>1 DEF RoundSeeks
  <2>6. ASSUME RoundSeeks, ~RoundSeeks'
        PROVE  FALSE
    <3>1. /\ pc' = "return" /\ stack' = <<>> /\ found' = 0 /\ ~stop_flag
          /\ pc # "return" \/ stack # <<>>
      BY <2>1, <2>2, <2>6 DEF RoundSeeks
    <3> QED
      BY <3>1, MinEnds
  <2> QED
    BY <2>1, <2>2, <2>3, <2>4, <2>5, <2>6
<1>2. CASE Found
  <2> SUFFICES ASSUME object.is_auto_inc, object.method = "MIN"
               PROVE  EveryRoundFound' /\ ~RoundSeeks' /\ SlotFilled'
    BY <1>2 DEF MinRounds, Found, given
  <2>1. EveryRoundFound
    BY <1>2 DEF MinRounds, Found
  <2>2. /\ cover_index' = cover_index /\ cover_index \in Nat
        /\ Len(vc_list) \in Nat /\ Len(vc_list') \in Nat
        /\ cover_index <= Len(vc_list) /\ Len(vc_list) <= Len(vc_list')
        /\ \A i \in 1 .. Len(vc_list) : i # cover_index + 1 => vc_list'[i] = vc_list[i]
        /\ cover_index + 1 \in 1 .. Len(vc_list')
        /\ cur \subseteq vc_list'[cover_index + 1]
    BY <1>2, FoundSlot
  <2>3. EveryRoundFound'
    <3> SUFFICES ASSUME NEW i \in 1 .. cover_index
                 PROVE  i <= Len(vc_list') /\ vc_list'[i] # {}
      BY <2>2 DEF EveryRoundFound
    <3>1. i <= Len(vc_list) /\ vc_list[i] # {}
      BY <2>1 DEF EveryRoundFound
    <3>2. i \in 1 .. Len(vc_list) /\ i # cover_index + 1 /\ i <= Len(vc_list')
      BY <2>2, <3>1
    <3> QED
      BY <2>2, <3>1, <3>2
  <2>4. SlotFilled'
    BY <1>2, <2>2, FoundNotEmpty DEF SlotFilled
  <2>5. ~RoundSeeks'
    <3>1. component' # 0 /\ found' # 0
      BY <1>2, FoundNotEmpty, FoundCounted DEF Found
    <3> QED
      BY <3>1 DEF RoundSeeks
  <2> QED
    BY <2>3, <2>4, <2>5
<1>3. CASE RunDiverse
  BY <1>3 DEF RunDiverse, StartSearch, NextComponent, FillQueue, InRunDiverse,
              SearchComponent, given, MinRounds
<1>4. CASE StartComponent
  <2>1. /\ UNCHANGED <<object, cover_index, vc_list, stop_flag, stack>>
        /\ component' = component + 1 /\ found' = 0 /\ pc' = "call"
        /\ pc = "return" /\ stack = <<>>
    BY <1>4 DEF StartComponent, SearchComponent, InRounds, given
  <2>2. component \in Nat
    BY DEF SubGraphsAreComponents, AreComponents, IInv, Shape
  <2> SUFFICES ASSUME object.is_auto_inc, object.method = "MIN"
               PROVE  /\ EveryRoundFound'
                      /\ IF RoundSeeks' THEN ~stop_flag' ELSE SlotFilled'
    BY <2>1 DEF MinRounds
  <2>3. EveryRoundFound /\ IF RoundSeeks THEN ~stop_flag ELSE SlotFilled
    BY <2>1 DEF MinRounds
  <2>4. RoundSeeks <=> component = 0
    BY <2>1 DEF RoundSeeks
  <2>5. RoundSeeks' <=> component = 0
    BY <2>1, <2>2 DEF RoundSeeks
  <2>6. EveryRoundFound' /\ (SlotFilled' <=> SlotFilled)
    BY <2>1, <2>3 DEF EveryRoundFound, SlotFilled
  <2> QED
    BY <2>1, <2>3, <2>4, <2>5, <2>6
<1>5. CASE NextRound
  <2>1. /\ UNCHANGED <<object, vc_list>> /\ object.is_auto_inc
        /\ component = Len(sub_graphs) /\ cover_index' = cover_index + 1
        /\ pc = "return" /\ stack = <<>>
        /\ stop_flag' => pc' = "done"
        /\ ~stop_flag' => component' = 0
    BY <1>5 DEF NextRound, InRounds, given
  <2> SUFFICES ASSUME object.method = "MIN"
               PROVE  /\ EveryRoundFound'
                      /\ pc' # "done" => RoundSeeks' /\ ~stop_flag'
    BY <2>1 DEF MinRounds
  <2>2. component \in Nat /\ component >= 1 /\ cover_index \in Nat
    BY <2>1, HasComponent DEF IInv, Shape
  <2>3. ~RoundSeeks
    BY <2>1, <2>2 DEF RoundSeeks
  <2>4. EveryRoundFound /\ SlotFilled
    BY <2>1, <2>3 DEF MinRounds
  <2>5. Len(vc_list) \in Nat
    BY CoversOfList DEF IInv
  <2>6. EveryRoundFound'
    <3> SUFFICES ASSUME NEW i \in 1 .. cover_index + 1
                 PROVE  i <= Len(vc_list) /\ vc_list[i] # {}
      BY <2>1 DEF EveryRoundFound
    <3>1. CASE i = cover_index + 1
      BY <2>2, <2>4, <2>5, <3>1 DEF SlotFilled
    <3>2. CASE i \in 1 .. cover_index
      BY <2>4, <3>2 DEF EveryRoundFound
    <3> QED
      BY <2>2, <3>1, <3>2
  <2> QED
    BY <2>1, <2>6 DEF RoundSeeks
<1>6. CASE UNCHANGED vars
  <2>1. UNCHANGED <<object, component, cover_index, vc_list, found, stop_flag, pc, stack>>
    BY <1>6 DEF vars, search_vars, given, place, results
  <2> QED
    BY <2>1 DEF MinRounds, EveryRoundFound, RoundSeeks, SlotFilled
<1> QED
  BY <1>1, <1>2, <1>3, <1>4, <1>5, <1>6 DEF Next, Terminated

LEMMA MinRoundsInvariance == Spec => []MinRounds
<1>1. InitAll => MinRounds
  <2> SUFFICES ASSUME InitAll PROVE MinRounds
    OBVIOUS
  <2>1. cover_index = 0 /\ component = 0 /\ ~stop_flag
    BY DEF InitAll, Init
  <2> QED
    BY <2>1 DEF MinRounds, EveryRoundFound, RoundSeeks
<1>2. SubGraphsAreComponents /\ IInv /\ MinInv /\ MinRounds /\ [Next]_vars
        => MinRounds'
  BY MinRoundsNext
<1> QED
  BY <1>1, <1>2, Components, Invariance, MinInvariance, PTL DEF Spec

\* With MIN the covers AutoInc has chosen and not cut are always a greedy
\* choice from all covers judged, and those pushed are at least half as far
\* apart as the same number of covers of the list can be: no round is without
\* a cover, of which neither Validate nor IncMaxmin could tell.
THEOREM MinChoosesWell ==
  Spec => [](object.method = "MIN" => SelectionGreedy /\ HalfOptimal)
<1>1. /\ MinRounds
      /\ EveryRoundFound => SelectionGreedy
      /\ EveryRoundFound => HalfOptimal
      => (object.method = "MIN" => SelectionGreedy /\ HalfOptimal)
  BY DEF MinRounds, SelectionGreedy, HalfOptimal
<1> QED
  BY <1>1, MinRoundsInvariance, GreedyChoice, HalfOptimality, PTL

-----------------------------------------------------------------------------
(***************************************************************************)
(* What RandomEnumAutoInc records of a connected hypergraph.               *)
(***************************************************************************)
AutoRecorded ==
  (object.is_auto_inc /\ Len(sub_graphs) = 1) =>
    /\ component = 0 => found = 0
    /\ found # 0 => stop_flag
    /\ \A i \in 1 .. Len(vc_list) :
         /\ vc_list[i] # {} => /\ IsMinimalHittingSet(sub_graphs[1], vc_list[i])
                               /\ i <= cover_index \/ (i = cover_index + 1 /\ found # 0)
         /\ i = cover_index + 1 /\ found # 0 => vc_list[i] # {}

LEMMA AutoRecordedNext ==
  ASSUME SubGraphsAreComponents, IInv, AutoRecorded, [Next]_vars
  PROVE  AutoRecorded'
<1>1. CASE Search /\ ~Found
  BY <1>1, SearchSteps DEF AutoRecorded
<1>2. CASE Found
  <2>1. /\ UNCHANGED <<object, sub_graphs, component>>
        /\ found' # 0 /\ pc = "call" /\ uncov = {} /\ ~stop_flag
    BY <1>2, FoundCounted DEF Found, given
  <2> SUFFICES ASSUME object.is_auto_inc, Len(sub_graphs) = 1
               PROVE  AutoRecorded'
    BY <2>1 DEF AutoRecorded
  <2>2. component = 1 /\ cur # {}
    BY <1>2, FoundNotEmpty DEF IInv, Shape
  <2>3. stop_flag' /\ found = 0
    BY <1>2, <2>1 DEF Found, AutoRecorded
  <2>4. IsMinimalHittingSet(sub_graphs[1], cur)
    BY <2>1, <2>2, FoundMinimal DEF hyper_graph
  <2>5. /\ cover_index' = cover_index /\ cover_index \in Nat
        /\ Len(vc_list) \in Nat /\ Len(vc_list') \in Nat
        /\ cover_index <= Len(vc_list) /\ Len(vc_list) <= Len(vc_list')
        /\ Len(vc_list') = Len(vc_list) \/ Len(vc_list') = cover_index + 1
        /\ \A i \in 1 .. Len(vc_list) : i # cover_index + 1 => vc_list'[i] = vc_list[i]
        /\ vc_list'[cover_index + 1] =
              (IF cover_index = Len(vc_list) THEN {} ELSE vc_list[cover_index + 1])
                \cup cur
    BY <1>2, FoundSlot
  <2>6. vc_list'[cover_index + 1] = cur
    <3>1. cover_index # Len(vc_list) =>
            cover_index + 1 \in 1 .. Len(vc_list) /\ ~(cover_index + 1 <= cover_index)
      BY <2>5
    <3> QED
      BY <2>3, <2>5, <3>1 DEF AutoRecorded
  <2>7. ASSUME NEW i \in 1 .. Len(vc_list'), i # cover_index + 1
        PROVE  i \in 1 .. Len(vc_list) /\ vc_list'[i] = vc_list[i]
    BY <2>5, <2>7
  <2>8. ASSUME NEW i \in 1 .. Len(vc_list')
        PROVE  /\ vc_list'[i] # {} =>
                    /\ IsMinimalHittingSet(sub_graphs[1], vc_list'[i])
                    /\ i <= cover_index \/ i = cover_index + 1
               /\ i = cover_index + 1 => vc_list'[i] # {}
    <3>1. CASE i = cover_index + 1
      BY <2>2, <2>4, <2>6, <3>1
    <3>2. CASE i # cover_index + 1
      BY <2>3, <2>7, <3>2 DEF AutoRecorded
    <3> QED
      BY <3>1, <3>2
  <2> QED
    BY <2>1, <2>2, <2>3, <2>5, <2>8 DEF AutoRecorded
<1>3. CASE RunDiverse
  BY <1>3 DEF RunDiverse, StartSearch, NextComponent, FillQueue, InRunDiverse,
              SearchComponent, given, AutoRecorded
<1>4. CASE StartComponent
  <2>1. /\ UNCHANGED <<object, sub_graphs, cover_index, vc_list, stop_flag>>
        /\ component < Len(sub_graphs) /\ component' = component + 1 /\ found' = 0
    BY <1>4 DEF StartComponent, SearchComponent, given
  <2>2. component \in 0 .. Len(sub_graphs)
    BY DEF IInv, Shape
  <2>3. Len(sub_graphs) = 1 => component = 0
    BY <2>1, <2>2
  <2> QED
    BY <2>1, <2>3 DEF AutoRecorded
<1>5. CASE NextRound
  <2>1. /\ UNCHANGED <<object, sub_graphs, vc_list>>
        /\ cover_index' = cover_index + 1 /\ found' = 0
    BY <1>5 DEF NextRound, given
  <2>2. cover_index \in Nat
    BY DEF IInv, Shape
  <2>3. \A i \in 1 .. Len(vc_list) :
          i <= cover_index \/ i = cover_index + 1 => i <= cover_index + 1
    <3>1. Len(vc_list) \in Nat
      BY CoversOfList DEF IInv
    <3> QED
      BY <2>2, <3>1
  <2> QED
    BY <2>1, <2>3 DEF AutoRecorded
<1>6. CASE UNCHANGED vars
  BY <1>6 DEF vars, search_vars, given, place, results, AutoRecorded
<1> QED
  BY <1>1, <1>2, <1>3, <1>4, <1>5, <1>6 DEF Next, Terminated

LEMMA AutoRecordedInit ==
  ASSUME InitAll, SubGraphsAreComponents
  PROVE  AutoRecorded
<1>1. /\ found = 0 /\ vc_list = [i \in 1 .. object.number_of_vc |-> {}]
      /\ object \in Objects
  BY DEF InitAll, Init
<1>2. object.number_of_vc \in Nat
  BY <1>1, ObjectsAssumption DEF IsObject
<1>3. Len(vc_list) = object.number_of_vc
  BY <1>1, <1>2
<1> QED
  BY <1>1, <1>3 DEF AutoRecorded

LEMMA AutoRecordedInvariance == Spec => []AutoRecorded
<1>1. InitAll => AutoRecorded
  BY AutoRecordedInit, ComponentsInit
<1>2. SubGraphsAreComponents /\ IInv /\ AutoRecorded /\ [Next]_vars => AutoRecorded'
  BY AutoRecordedNext
<1> QED
  BY <1>1, <1>2, Components, Invariance, PTL DEF Spec

\* Of a connected hypergraph RandomEnumAutoInc records minimal hitting sets
\* too: every slot has one as soon as its round has found it, and nothing
\* before, while no round has failed; with MIN none does.  (Of a hypergraph
\* with more components it does not: the stop flag of the first cover stops
\* the searches of the other components.)
THEOREM AutoMinimality ==
  Spec => [](/\ object.is_auto_inc /\ Len(sub_graphs) = 1
             /\ EveryRoundFound \/ object.method = "MIN"
             => RecordedMinimal)
<1>1. SubGraphsAreComponents /\ IInv /\ AutoRecorded /\ MinRounds =>
        (/\ object.is_auto_inc /\ Len(sub_graphs) = 1
         /\ EveryRoundFound \/ object.method = "MIN"
         => RecordedMinimal)
  <2> SUFFICES ASSUME SubGraphsAreComponents, IInv, AutoRecorded, MinRounds,
                      object.is_auto_inc, Len(sub_graphs) = 1,
                      EveryRoundFound \/ object.method = "MIN",
                      NEW i \in DOMAIN vc_list, NEW c \in DOMAIN sub_graphs
               PROVE  LET part == vc_list[i] \cap Vertices(sub_graphs[c])
                      IN IF Given(i, c)
                         THEN IsMinimalHittingSet(sub_graphs[c], part)
                         ELSE part = {}
    BY DEF RecordedMinimal
  <2>1. c = 1
    <3>1. DOMAIN sub_graphs = 1 .. 1
      BY DEF SubGraphsAreComponents, AreComponents
    <3> QED
      BY <3>1
  <2>2. i \in 1 .. Len(vc_list)
    <3>1. vc_list \in Seq(SUBSET Vertices(object.hyper_graph))
      BY DEF IInv, Shape
    <3> QED
      BY <3>1
  <2>3. EveryRoundFound
    BY DEF MinRounds
  <2>4. Given(i, c) => vc_list[i] # {}
    <3>1. CASE i = cover_index + 1 /\ found # 0
      BY <2>2, <3>1 DEF AutoRecorded
    <3>2. CASE i <= cover_index
      <4>1. i \in 1 .. cover_index
        BY <2>2, <3>2 DEF IInv, Shape
      <4> QED
        BY <2>3, <4>1 DEF EveryRoundFound
    <3> QED
      BY <3>1, <3>2 DEF Given
  <2>5. vc_list[i] # {} => /\ IsMinimalHittingSet(sub_graphs[c], vc_list[i])
                           /\ Given(i, c)
    BY <2>1, <2>2 DEF AutoRecorded, Given
  <2>6. vc_list[i] # {} => vc_list[i] \cap Vertices(sub_graphs[c]) = vc_list[i]
    BY <2>5 DEF IsMinimalHittingSet
  <2> QED
    BY <2>4, <2>5, <2>6
<1> QED
  BY <1>1, Components, Invariance, AutoRecordedInvariance, MinRoundsInvariance, PTL

-----------------------------------------------------------------------------
(***************************************************************************)
(* RepairFindsNothing, for every method but PRIORITY.  Until a repair a    *)
(* search that always goes back to the last choice is one of MMCS, and     *)
(* loses no minimal hitting set: those left to try are with an activation  *)
(* still to try them.  A dead end has nothing left of its own, and what    *)
(* the other activations have left has vertices that it may not choose, so *)
(* that what a repair chooses from holds no minimal hitting set at all.    *)
(***************************************************************************)

\* The search is one of these and has found nothing yet.
Seeks ==
  /\ object.certain /\ method # "PRIORITY"
  /\ found = 0 /\ component # 0 /\ ~stop_flag /\ Live

Unrepaired(s) == \A i \in 1 .. Len(s) : s[i].loop # "repair"

\* The vertices of activation f are among the candidates cand.
Beneath(f, cand) ==
  f.cand \cup f.todo \cup f.c \subseteq cand /\ f.v \in cand \cup {NoVertex}

Nested(s) == \A i, j \in 1 .. Len(s) : i < j => Beneath(s[j], s[i].cand)

\* The sets that the call about to be entered tries.
Calls == IF pc = "call" THEN Within(cur, args.cand) ELSE {}

\* No minimal hitting set is lost.
NothingLost ==
  /\ \A i \in 1 .. Len(stack) : FrameOK(hyper_graph, cur, stack, i)
  /\ Nested(stack)
  /\ pc = "call" => CallReady(hyper_graph, cur, args.cand, args.crit)
  /\ MinimalCovers(hyper_graph, 0) \subseteq Whole(cur, stack, Calls)

\* All that activation f works with.
AllOf(f) ==
  f.cand \cup f.todo \cup f.c
    \cup (IF f.loop = "repair" /\ f.v # NoVertex THEN f.old.cur ELSE {})

\* From the first activation that repairs on, all is chosen from K, which
\* holds no minimal hitting set.
Confined(g, s, C, k, K) ==
  /\ s[k].loop = "repair" /\ \A i \in 1 .. k - 1 : s[i].loop # "repair"
  /\ \A S \in SUBSET K : ~IsMinimalHittingSet(g, S)
  /\ C \subseteq K
  /\ \A i \in k .. Len(s) : AllOf(s[i]) \subseteq K

Hopeless(g, s, C) ==
  \E k \in 1 .. Len(s), K \in SUBSET Vertices(g) : Confined(g, s, C, k, K)

\* A dead end is one before any step back, and a repair always steps back.
Turned ==
  pc = "loop" =>
    /\ stack[Len(stack)].v = NoVertex
    /\ stack[Len(stack)].loop = "untried" => back_steps = 0
    /\ stack[Len(stack)].loop = "repair" /\ back_steps = 0 =>
         stack[Len(stack)].todo # {}

DeadEndInv ==
  Seeks =>
    /\ Turned
    /\ \/ Unrepaired(stack) /\ (back_steps = 0 => NothingLost)
       \/ Hopeless(hyper_graph, stack, cur)

-----------------------------------------------------------------------------
LEMMA SeekFacts ==
  ASSUME SubGraphsAreComponents, IInv, Seeks
  PROVE  /\ stack \in Seq(Frames) /\ Len(stack) \in Nat
         /\ IsHyperGraph(hyper_graph) /\ IsFiniteSet(EdgeIds(hyper_graph))
         /\ cur \in SUBSET Vertices(hyper_graph)
         /\ NoVertex \notin Vertices(hyper_graph) /\ NoVertex \notin cur
         /\ back_steps \in Nat
         /\ stack # <<>> => /\ Len(stack) \in 1 .. Len(stack)
                            /\ active = stack[Len(stack)] /\ active \in Frames
<1>1. /\ stack \in Seq(Frames) /\ component # 0 /\ Shape /\ back_steps \in Nat
      /\ pc = "loop" => stack # <<>>
  BY DEF Seeks, IInv, Shape
<1>2. Len(stack) \in Nat
  BY <1>1
<1>3. stack # <<>> => /\ Len(stack) \in 1 .. Len(stack)
                      /\ active = stack[Len(stack)] /\ active \in Frames
  BY <1>1, TopProperties DEF active
<1>4. /\ IsHyperGraph(hyper_graph)
      /\ NoVertex \notin Vertices(hyper_graph)
  BY <1>1, GraphFacts
<1>5. IsFiniteSet(EdgeIds(hyper_graph))
  BY <1>4, IsHyperGraphProperties
<1>6. PICK m \in Seq(Members) : ChainOK(m)
  BY DEF IInv, Chain, Seeks
<1>7. Now \in Members
  <2>1. /\ Len(m) = IF pc = "loop" THEN Len(stack) ELSE Len(stack) + 1
        /\ m[Len(m)] = Now
    BY <1>6 DEF ChainOK
  <2>2. pc = "loop" => Len(stack) \in 1 .. Len(stack)
    BY <1>1, <1>3
  <2>3. Len(m) \in 1 .. Len(m)
    BY <1>2, <2>1, <2>2
  <2> QED
    BY <2>1, <2>3
<1>8. cur \in SUBSET Vertices(hyper_graph)
  BY <1>7 DEF Now, Members, NoMembers
<1> QED
  BY <1>1, <1>2, <1>3, <1>4, <1>5, <1>8

\* The innermost activation becomes f.
LEMMA TopBecomes ==
  ASSUME NEW F, NEW s \in Seq(F), s # <<>>, NEW f \in F
  PROVE  /\ Len(WithTop(s, f)) = Len(s) /\ WithTop(s, f)[Len(s)] = f
         /\ \A i \in 1 .. Len(s) - 1 : WithTop(s, f)[i] = s[i]
         /\ Len(s) \in Nat /\ Len(s) \in 1 .. Len(s)
<1>1. Len(s) \in Nat /\ Len(s) \in 1 .. Len(s)
  BY TopProperties
<1>2. /\ Len(WithTop(s, f)) = Len(s) /\ WithTop(s, f)[Len(s)] = f
      /\ \A i \in 1 .. Len(s) - 1 : WithTop(s, f)[i] = s[i]
  BY ONLY s \in Seq(F), s # <<>>, f \in F, WithTopProperties
<1> QED
  BY <1>1, <1>2

LEMMA HopelessTop ==
  ASSUME NEW g, NEW F, NEW s \in Seq(F), s # <<>>, NEW C, Hopeless(g, s, C),
         NEW a, a = s[Len(s)], NEW f \in F, NEW D,
         a.loop = "repair" => f.loop = "repair",
         AllOf(f) \cup D \subseteq AllOf(a) \cup C
  PROVE  Hopeless(g, WithTop(s, f), D)
<1> DEFINE t == WithTop(s, f)
           d == Len(s)
<1>1. /\ Len(t) = d /\ t[d] = f /\ d \in Nat /\ d \in 1 .. d
      /\ \A i \in 1 .. d - 1 : t[i] = s[i]
  BY TopBecomes
<1>2. PICK k \in 1 .. d, K \in SUBSET Vertices(g) : Confined(g, s, C, k, K)
  BY DEF Hopeless
<1> HIDE DEF t
<1>3. t[k].loop = "repair" /\ \A i \in 1 .. k - 1 : t[i].loop # "repair"
  <2>1. \A i \in 1 .. k - 1 : i \in 1 .. d - 1
    BY <1>1
  <2>2. k = d \/ k \in 1 .. d - 1
    BY <1>1
  <2> QED
    BY <1>1, <1>2, <2>1, <2>2 DEF Confined
<1>4. AllOf(a) \cup C \subseteq K
  <2>1. d \in k .. d
    BY <1>1
  <2> QED
    BY <1>2, <2>1 DEF Confined
<1>5. ASSUME NEW i \in k .. d
      PROVE  AllOf(t[i]) \subseteq K
  <2>1. CASE i = d
    BY <1>1, <1>4, <2>1
  <2>2. CASE i # d
    <3>1. i \in 1 .. d - 1
      BY <1>1, <2>2
    <3> QED
      BY <1>1, <1>2, <3>1 DEF Confined
  <2> QED
    BY <2>1, <2>2
<1>6. Confined(g, t, D, k, K)
  BY <1>1, <1>2, <1>3, <1>4, <1>5 DEF Confined
<1> QED
  BY <1>1, <1>6 DEF Hopeless, t

LEMMA HopelessPushed ==
  ASSUME NEW g, NEW F, NEW s \in Seq(F), s # <<>>, NEW C, Hopeless(g, s, C),
         NEW f \in F, f.cand \cup f.todo \cup f.c \subseteq s[Len(s)].cand,
         f.v = NoVertex
  PROVE  Hopeless(g, Append(s, f), C)
<1> DEFINE t == Append(s, f)
           d == Len(s)
<1>1. /\ d \in Nat /\ Len(t) = d + 1 /\ t[d + 1] = f
      /\ \A i \in 1 .. d : t[i] = s[i]
  BY PushProperties
<1>2. PICK k \in 1 .. d, K \in SUBSET Vertices(g) : Confined(g, s, C, k, K)
  BY DEF Hopeless
<1> HIDE DEF t
<1>3. t[k].loop = "repair" /\ \A i \in 1 .. k - 1 : t[i].loop # "repair"
  <2>1. \A i \in 1 .. k - 1 : i \in 1 .. d
    BY <1>1
  <2> QED
    BY <1>1, <1>2, <2>1 DEF Confined
<1>4. s[d].cand \subseteq K
  <2>1. d \in k .. d
    BY <1>1
  <2> QED
    BY <1>2, <2>1 DEF Confined, AllOf
<1>5. ASSUME NEW i \in k .. d + 1
      PROVE  AllOf(t[i]) \subseteq K
  <2>1. CASE i = d + 1
    BY <1>1, <1>4, <2>1 DEF AllOf
  <2>2. CASE i # d + 1
    <3>1. i \in 1 .. d /\ i \in k .. d
      BY <1>1, <2>2
    <3> QED
      BY <1>1, <1>2, <3>1 DEF Confined
  <2> QED
    BY <2>1, <2>2
<1>6. Confined(g, t, C, k, K) /\ k \in 1 .. d + 1
  BY <1>1, <1>2, <1>3, <1>5 DEF Confined
<1> QED
  BY <1>1, <1>6 DEF Hopeless, t

\* An activation that returns leaves the search without hope, or it was the
\* only one that repaired.
LEMMA HopelessPopped ==
  ASSUME NEW g, NEW F, NEW s \in Seq(F), s # <<>>, NEW C, Hopeless(g, s, C)
  PROVE  \/ Hopeless(g, Popped(s), C)
         \/ s[Len(s)].loop = "repair" /\ Unrepaired(Popped(s))
              /\ \A i \in 1 .. Len(s) - 1 : s[i].loop # "repair"
<1> DEFINE t == Popped(s)
           d == Len(s)
<1>1. /\ d \in Nat /\ d \in 1 .. d /\ Len(t) = d - 1
      /\ \A i \in 1 .. d - 1 : t[i] = s[i]
  <2>1. s # <<>> /\ t = Popped(s)
    OBVIOUS
  <2> QED
    BY ONLY <2>1, s \in Seq(F), TopProperties, PoppedProperties
<1>2. PICK k \in 1 .. d, K \in SUBSET Vertices(g) : Confined(g, s, C, k, K)
  BY DEF Hopeless
<1> HIDE DEF t
<1>3. CASE k = d
  <2>1. s[d].loop = "repair" /\ \A i \in 1 .. d - 1 : s[i].loop # "repair"
    BY <1>2, <1>3 DEF Confined
  <2>2. Unrepaired(t)
    BY <1>1, <2>1 DEF Unrepaired
  <2> QED
    BY <2>1, <2>2 DEF t
<1>4. CASE k # d
  <2>1. k \in 1 .. d - 1
    BY <1>1, <1>4
  <2>2. /\ \A i \in 1 .. k - 1 : i \in 1 .. d - 1
        /\ \A i \in k .. d - 1 : i \in 1 .. d - 1 /\ i \in k .. d
    BY <1>1, <2>1
  <2>3. Confined(g, t, C, k, K)
    BY <1>1, <1>2, <2>1, <2>2 DEF Confined
  <2> QED
    BY <1>1, <2>1, <2>3 DEF Hopeless, t
<1> QED
  BY <1>3, <1>4

LEMMA NestedTop ==
  ASSUME NEW F, NEW s \in Seq(F), s # <<>>, Nested(s),
         NEW a, a = s[Len(s)], NEW f \in F,
         f.cand \cup f.todo \cup f.c \cup {f.v}
           \subseteq a.cand \cup a.todo \cup a.c \cup {a.v, NoVertex},
         NoVertex \notin f.cand \cup f.todo \cup f.c
  PROVE  Nested(WithTop(s, f))
<1> DEFINE t == WithTop(s, f)
           d == Len(s)
<1>1. /\ Len(t) = d /\ t[d] = f /\ d \in Nat /\ d \in 1 .. d
      /\ \A i \in 1 .. d - 1 : t[i] = s[i]
  BY TopBecomes
<1> HIDE DEF t
<1>2. ASSUME NEW i \in 1 .. d, NEW j \in 1 .. d, i < j
      PROVE  Beneath(t[j], t[i].cand)
  <2>1. i \in 1 .. d - 1 /\ t[i] = s[i] /\ Beneath(s[j], s[i].cand)
    BY <1>1, <1>2 DEF Nested
  <2>2. CASE j = d
    <3>1. Beneath(f, s[i].cand)
      BY <2>1, <2>2 DEF Beneath
    <3> QED
      BY <1>1, <2>1, <2>2, <3>1
  <2>3. CASE j # d
    BY <1>1, <2>1, <2>3
  <2> QED
    BY <2>2, <2>3
<1> QED
  BY <1>1, <1>2 DEF Nested, t

LEMMA NestedPushed ==
  ASSUME NEW F, NEW s \in Seq(F), Nested(s), NEW f \in F, f.v = NoVertex,
         s # <<>> => f.cand \cup f.todo \cup f.c \subseteq s[Len(s)].cand
  PROVE  Nested(Append(s, f))
<1> DEFINE t == Append(s, f)
           d == Len(s)
<1>1. /\ d \in Nat /\ Len(t) = d + 1 /\ t[d + 1] = f
      /\ \A i \in 1 .. d : t[i] = s[i]
  BY PushProperties
<1> HIDE DEF t
<1>2. ASSUME NEW i \in 1 .. d + 1, NEW j \in 1 .. d + 1, i < j
      PROVE  Beneath(t[j], t[i].cand)
  <2>1. i \in 1 .. d /\ t[i] = s[i] /\ d \in 1 .. d /\ s # <<>>
    BY <1>1, <1>2
  <2>2. CASE j = d + 1
    <3>1. f.cand \cup f.todo \cup f.c \subseteq s[d].cand
      BY <2>1
    <3>2. s[d].cand \subseteq s[i].cand
      <4>1. CASE i = d
        BY <4>1
      <4>2. CASE i # d
        <5>1. i < d
          BY <1>1, <2>1, <4>2
        <5> QED
          BY <2>1, <5>1 DEF Nested, Beneath
      <4> QED
        BY <4>1, <4>2
    <3>3. Beneath(f, s[i].cand)
      BY <3>1, <3>2 DEF Beneath
    <3> QED
      BY <1>1, <2>1, <2>2, <3>3
  <2>3. CASE j # d + 1
    <3>1. j \in 1 .. d
      BY <1>1, <2>3
    <3> QED
      BY <1>1, <1>2, <2>1, <3>1 DEF Nested
  <2> QED
    BY <2>2, <2>3
<1> QED
  BY <1>1, <1>2 DEF Nested, t

LEMMA NestedPopped ==
  ASSUME NEW F, NEW s \in Seq(F), s # <<>>, Nested(s)
  PROVE  Nested(Popped(s))
<1> DEFINE t == Popped(s)
           d == Len(s)
<1>1. /\ d \in Nat /\ Len(t) = d - 1
      /\ \A i \in 1 .. d - 1 : t[i] = s[i]
  <2>1. s # <<>> /\ t = Popped(s)
    OBVIOUS
  <2> QED
    BY ONLY <2>1, s \in Seq(F), TopProperties, PoppedProperties
<1> HIDE DEF t
<1>2. \A i \in 1 .. d - 1 : i \in 1 .. d
  BY <1>1
<1> QED
  BY <1>1, <1>2 DEF Nested, t

\* A step that passes over no minimal hitting set.
LEMMA SteppedSeek ==
  ASSUME UNCHANGED <<given, component>>, NothingLost, NEW lost,
         Stepped(hyper_graph, cur, stack, Calls, cur', stack', Calls', lost),
         MinimalCovers(hyper_graph, 0) \cap lost = {},
         Nested(stack'),
         pc' = "call" => CallReady(hyper_graph, cur', args'.cand, args'.crit)
  PROVE  NothingLost'
<1>1. /\ \A i \in 1 .. Len(stack') : FrameOK(hyper_graph, cur', stack', i)
      /\ Whole(cur, stack, Calls) \subseteq Whole(cur', stack', Calls') \cup lost
  BY DEF Stepped, Narrowed
<1>2. hyper_graph' = hyper_graph
  BY SameComponent
<1>3. MinimalCovers(hyper_graph, 0)' = MinimalCovers(hyper_graph, 0)
  BY <1>2 DEF MinimalCovers, IsApproximateCover, Uncovered, EdgeNum, EdgeIds,
              Vertices
<1>4. MinimalCovers(hyper_graph, 0) \subseteq Whole(cur', stack', Calls')
  BY <1>1 DEF NothingLost
<1>5. CallReady(hyper_graph', cur', args'.cand, args'.crit)
        <=> CallReady(hyper_graph, cur', args'.cand, args'.crit)
  BY <1>2
<1> QED
  BY <1>1, <1>2, <1>3, <1>4, <1>5 DEF NothingLost

LEMMA SeekExpand ==
  ASSUME SubGraphsAreComponents, IInv, Seeks, NothingLost, Expand
  PROVE  NothingLost'
<1> DEFINE g == hyper_graph
           s == stack
<1>1. /\ pc = "call" /\ ~stop_flag /\ uncov # {} /\ pc' = "loop"
      /\ UNCHANGED <<given, place, chosen, back_steps, stop_flag, results>>
  BY DEF Expand
<1>2. /\ args.cand \in SUBSET Vertices(g) /\ component # 0
      /\ cur \in SUBSET Vertices(g)
      /\ uncov = Uncovered(g, cur) /\ uncov \in SUBSET EdgeIds(g)
      /\ args.crit \in Seq(SUBSET EdgeIds(g))
  BY <1>1, CallFacts
<1>3. /\ s \in Seq(Frames) /\ NoVertex \notin cur /\ IsFiniteSet(EdgeIds(g))
      /\ NoVertex \notin Vertices(g)
  BY SeekFacts
<1>4. PICK choice \in Inherited!GoodEdgesToCover(args.cand) :
        LET c == args.cand \cap hyper_graph[choice.edge]
        IN stack' = Append(stack,
                      [cand |-> args.cand \ c, c |-> c, todo |-> c,
                       crit |-> args.crit, loop |-> "untried",
                       v |-> NoVertex, back |-> {}, old |-> NoMembers])
  BY DEF Expand
<1>5. PICK cand, c, b : cand = args.cand /\ c = args.cand \cap g[choice.edge] /\ b = cur
  OBVIOUS
<1>6. PICK f : f = [cand |-> cand \ c, c |-> c, todo |-> c,
                    crit |-> args.crit, loop |-> "untried",
                    v |-> NoVertex, back |-> {}, old |-> NoMembers]
  OBVIOUS
<1>7. /\ f \in Frames /\ f.cand = cand \ c /\ f.c = c /\ f.todo = c
      /\ f.crit = args.crit /\ f.v = NoVertex /\ f.back = {}
  <2>1. NoMembers \in Members
    BY DEF Members
  <2>2. f \in Frames
    BY <1>2, <1>5, <1>6, <2>1 DEF Frames, Crits
  <2> QED
    BY <1>6, <2>2
<1>8. stack' = Append(s, f) /\ c \in SUBSET cand
  BY <1>4, <1>5, <1>6
<1>9. \E e \in uncov : g[e] \cap (cand \ c) = {}
  <2>1. choice \in Inherited!GoodEdgesToCover(cand) /\ Shape
    BY <1>5 DEF IInv
  <2>2. \/ choice.edge \in uncov
        \/ method \in {"MAX", "PRIORITY"}
             /\ (method = "MAX" => \A e \in uncov : cand \cap g[e] = {})
    BY <1>1, <1>2, <2>1, ChoiceProperties
  <2>3. method # "PRIORITY"
    BY DEF Seeks
  <2>4. CASE choice.edge \in uncov
    BY <1>5, <2>4
  <2>5. CASE \A e \in uncov : cand \cap g[e] = {}
    BY <1>1, <2>5
  <2> QED
    BY <2>2, <2>3, <2>4, <2>5
<1> DEFINE lost == Within(cur, cand \ c) \ {}
<1>10. MinimalCovers(g, 0) \cap lost = {}
  <2>1. PICK e \in uncov : g[e] \cap (cand \ c) = {}
    BY <1>9
  <2>2. ASSUME NEW S \in MinimalCovers(g, 0), S \in Within(cur, cand \ c)
        PROVE  FALSE
    <3>1. e \in Uncovered(g, S)
      BY <1>2, <2>1, <2>2 DEF Uncovered, Within
    <3>2. Uncovered(g, S) = {}
      BY <1>3, <2>2, ExactCovers DEF MinimalCovers
    <3> QED
      BY <3>1, <3>2
  <2> QED
    BY <2>2
<1>11. CallReady(g, cur, cand, args.crit)
       /\ \A i \in 1 .. Len(s) : FrameOK(g, cur, s, i)
  BY <1>1, <1>5 DEF NothingLost
<1>12. Stepped(g, cur, s, Within(cur, cand), cur, Append(s, f), {}, lost)
  <2>1. PICK F, x, h, crit, k2 :
          x = s /\ F = Frames /\ h = g /\ crit = args.crit /\ k2 = {}
    OBVIOUS
  <2>2. /\ x \in Seq(F) /\ NoVertex \notin b /\ cand \cap b = {}
        /\ HoldsCritical(h, b, crit) /\ c \in SUBSET cand
        /\ f \in F /\ f.cand = cand \ c /\ f.todo = c /\ f.crit = crit
        /\ f.v = NoVertex /\ f.back = {}
        /\ \A i \in 1 .. Len(x) : FrameOK(h, b, x, i)
        /\ k2 \in SUBSET Within(b, cand \ c)
    BY <1>3, <1>5, <1>7, <1>8, <1>11, <2>1 DEF CallReady
  <2>3. Stepped(h, b, x, Within(b, cand), b, Append(x, f), k2,
                Within(b, cand \ c) \ k2)
    BY ONLY <2>2, PushStep
  <2> QED
    BY <1>5, <2>1, <2>3
<1>13. Calls = Within(cur, cand) /\ Calls' = {} /\ cur' = cur
  BY <1>1, <1>5 DEF Calls, chosen
<1>14. Nested(stack')
  <2>1. s # <<>> => cand = s[Len(s)].cand
    BY <1>1, <1>5 DEF IInv, CallOK
  <2>2. s # <<>> => f.cand \cup f.todo \cup f.c \subseteq s[Len(s)].cand
    BY <1>7, <1>8, <2>1
  <2>3. Nested(Append(s, f))
    BY <1>3, <1>7, <2>2, NestedPushed DEF NothingLost
  <2> QED
    BY <1>8, <2>3
<1> HIDE DEF lost, g, s
<1>16. UNCHANGED <<given, component>>
  BY <1>1 DEF place
<1>17. Stepped(hyper_graph, cur, stack, Calls, cur', stack', Calls', lost)
  BY ONLY <1>8, <1>12, <1>13 DEF g, s
<1> QED
  BY <1>1, <1>10, <1>14, <1>16, <1>17, SteppedSeek DEF g

\* A vertex that would violate is passed over.
LEMMA SeekSkip ==
  ASSUME SubGraphsAreComponents, IInv, Seeks, Turned, NothingLost, Skip
  PROVE  NothingLost'
<1> DEFINE g == hyper_graph
           s == stack
<1>1. /\ pc = "loop" /\ active.loop \in {"untried", "tried"} /\ pc' = "loop"
      /\ UNCHANGED <<given, place, chosen, next_edge, back_steps, stop_flag, pc,
                     args, results>>
  BY DEF Skip, Trying
<1>2. PICK v \in active.todo :
        /\ VertexWouldViolate(g, active.crit, v)
        /\ stack' = WithTop(stack, [active EXCEPT !.todo = @ \ {v}])
  BY DEF Skip
<1>3. PICK a, R, b : a = active /\ R = active.todo \ {v} /\ b = cur
  OBVIOUS
<1>4. PICK f : f = [active EXCEPT !.todo = @ \ {v}]
  OBVIOUS
<1>5. /\ s \in Seq(Frames) /\ s # <<>> /\ NoVertex \notin b
      /\ Len(s) \in 1 .. Len(s) /\ Len(s) \in Nat /\ a = s[Len(s)]
      /\ a \in Frames
      /\ NoVertex \notin Vertices(g)
  BY <1>1, <1>3, LoopFacts, SeekFacts
<1>6. a.v = NoVertex /\ \A i \in 1 .. Len(s) : FrameOK(g, b, s, i)
  BY <1>1, <1>3, <1>5 DEF NothingLost, Turned
<1>7. a.back = {}
  BY <1>5, <1>6 DEF FrameOK
<1>8. /\ f \in Frames /\ f.cand = a.cand /\ f.todo = R /\ f.crit = a.crit
      /\ f.v = NoVertex /\ f.back = {} /\ f.c = a.c
  BY <1>3, <1>4, <1>5, <1>6, <1>7 DEF Frames
<1>9. /\ R \in SUBSET a.todo /\ a.todo \ R \in SUBSET a.todo
      /\ \A w \in a.todo \ R : VertexWouldViolate(g, a.crit, w)
      /\ stack' = WithTop(s, f)
  BY <1>2, <1>3, <1>4
<1> DEFINE lost == Passed(b, s, a.todo \ R)
<1>10. Stepped(g, b, s, {}, b, WithTop(s, f), {}, lost)
  <2>1. PICK F, x, h : x = s /\ F = Frames /\ h = g
    OBVIOUS
  <2>2. /\ x \in Seq(F) /\ x # <<>> /\ NoVertex \notin b /\ a = x[Len(x)]
        /\ a.v = NoVertex /\ R \in SUBSET a.todo /\ f \in F
        /\ f.cand = a.cand /\ f.todo = R /\ f.crit = a.crit
        /\ f.v = NoVertex /\ f.back = {}
        /\ \A i \in 1 .. Len(x) : FrameOK(h, b, x, i)
    BY <1>5, <1>6, <1>8, <1>9, <2>1
  <2>3. Stepped(h, b, x, {}, b, WithTop(x, f), {}, Passed(b, x, a.todo \ R))
    BY ONLY <2>2, SkipStep
  <2> QED
    BY <2>1, <2>3
<1>11. MinimalCovers(g, 0) \cap lost = {}
  <2>1. PICK F, x, h, W, theta :
          x = s /\ F = Frames /\ h = g /\ W = a.todo \ R /\ theta = 0
    OBVIOUS
  <2>2. /\ x \in Seq(F) /\ x # <<>> /\ NoVertex \notin b /\ a = x[Len(x)]
        /\ a.v = NoVertex /\ FrameOK(h, b, x, Len(x)) /\ W \in SUBSET a.todo
        /\ \A w \in W : VertexWouldViolate(h, a.crit, w)
    BY <1>5, <1>6, <1>9, <2>1
  <2>3. MinimalCovers(h, theta) \cap Passed(b, x, W) = {}
    BY ONLY <2>2, PassedNotMinimal
  <2> QED
    BY <2>1, <2>3
<1>12. Nested(stack')
  <2>1. /\ f.cand \cup f.todo \cup f.c \cup {f.v}
             \subseteq a.cand \cup a.todo \cup a.c \cup {a.v, NoVertex}
        /\ NoVertex \notin f.cand \cup f.todo \cup f.c
    BY <1>5, <1>8, <1>9 DEF Frames
  <2>2. Nested(WithTop(s, f))
    BY <1>5, <1>8, <2>1, NestedTop DEF NothingLost
  <2> QED
    BY <1>9, <2>2
<1>13. Calls = {} /\ Calls' = {} /\ cur' = b /\ cur = b
  BY <1>1, <1>3 DEF Calls, chosen
<1> HIDE DEF lost, g, s
<1>14. UNCHANGED <<given, component>>
  BY <1>1 DEF place
<1>15. Stepped(hyper_graph, cur, stack, Calls, cur', stack', Calls', lost)
  BY ONLY <1>9, <1>10, <1>13 DEF g, s
<1> QED
  BY <1>1, <1>11, <1>12, <1>14, <1>15, SteppedSeek DEF g

\* The call for a vertex tries the sets that have it, its activation keeps
\* those that have another that is left.
LEMMA SeekDescend ==
  ASSUME SubGraphsAreComponents, IInv, Seeks, Turned, NothingLost, Descend
  PROVE  NothingLost'
<1> DEFINE g == hyper_graph
           s == stack
<1>1. pc = "loop"
  BY DEF Descend, Trying
<1>2. PICK v \in active.todo : DescendWith(v)
  BY DEF Descend
<1>3. /\ cur' = Flip(cur, v) /\ pc' = "call"
      /\ args' = [cand |-> active.cand,
                  crit |-> UpdatedCrit(g, active.crit, uncov, v)]
      /\ stack' = WithTop(stack,
                    [active EXCEPT !.todo = @ \ {v}, !.c = {}, !.loop = "tried",
                       !.v = v, !.back = NewCrit(g, uncov, v)])
      /\ UNCHANGED <<given, component>>
  BY <1>2 DEF DescendWith, place
<1>4. PICK a, b, b2, q :
        /\ a = active /\ b = cur /\ b2 = cur \cup {v}
        /\ q = UpdatedCrit(g, active.crit, uncov, v)
  OBVIOUS
<1>5. PICK f : f = [active EXCEPT !.todo = @ \ {v}, !.c = {}, !.loop = "tried",
                       !.v = v, !.back = NewCrit(g, uncov, v)]
  OBVIOUS
<1>6. /\ s \in Seq(Frames) /\ s # <<>> /\ NoVertex \notin b
      /\ Len(s) \in 1 .. Len(s) /\ Len(s) \in Nat /\ a = s[Len(s)]
      /\ a \in Frames /\ NoVertex \notin Vertices(g)
      /\ uncov = Uncovered(g, cur) /\ uncov \in SUBSET EdgeIds(g)
  <2>1. FrameAt(g, active, Now)
    BY <1>1, LoopFacts
  <2>2. uncov = Uncovered(g, cur)
    BY <2>1 DEF FrameAt, ExactAt, Now
  <2> QED
    BY <1>1, <1>4, <2>2, LoopFacts, SeekFacts DEF Uncovered
<1>7. a.v = NoVertex /\ \A i \in 1 .. Len(s) : FrameOK(g, b, s, i)
  BY <1>1, <1>4, <1>6 DEF NothingLost, Turned
<1>8. v \in a.todo /\ v \in Vertices(g) /\ v # NoVertex
      /\ a.crit \in Seq(SUBSET EdgeIds(g))
  BY <1>4, <1>6 DEF Frames, Crits
<1>9. /\ f \in Frames /\ f.cand = a.cand /\ f.todo = a.todo \ {v}
      /\ f.crit = a.crit /\ f.v = v /\ f.back = NewCrit(g, Uncovered(g, b), v)
      /\ f.c = {}
  <2>1. NewCrit(g, uncov, v) \in SUBSET EdgeIds(g)
    BY <1>6 DEF NewCrit
  <2> QED
    BY <1>4, <1>5, <1>6, <1>8, <2>1 DEF Frames
<1>10. /\ v \notin b /\ CallReady(g, b2, a.cand, q)
       /\ Stepped(g, b, s, {}, b2, WithTop(s, f), Within(b2, a.cand), {})
  <2>1. PICK F, x, h, W : x = s /\ F = Frames /\ h = g /\ W = {}
    OBVIOUS
  <2>2. /\ x \in Seq(F) /\ x # <<>> /\ NoVertex \notin b /\ a = x[Len(x)]
        /\ f \in F /\ Chooses(h, b, a, v, f, b2, q, W)
        /\ \A i \in 1 .. Len(x) : FrameOK(h, b, x, i)
    BY <1>4, <1>6, <1>7, <1>8, <1>9, <2>1 DEF Chooses
  <2>3. /\ v \notin b
        /\ CallReady(h, b2, a.cand, q)
        /\ Stepped(h, b, x, {}, b2, WithTop(x, f), Within(b2, a.cand),
                   Passed(b, x, W))
    BY ONLY <2>2, ChooseStep
  <2>4. Passed(b, x, W) = {}
    BY <2>1 DEF Passed
  <2> QED
    BY <2>1, <2>3, <2>4
<1>11. Nested(stack')
  <2>1. /\ f.cand \cup f.todo \cup f.c \cup {f.v}
             \subseteq a.cand \cup a.todo \cup a.c \cup {a.v, NoVertex}
        /\ NoVertex \notin f.cand \cup f.todo \cup f.c
    BY <1>6, <1>8, <1>9 DEF Frames
  <2>2. Nested(WithTop(s, f))
    BY <1>6, <1>9, <2>1, NestedTop DEF NothingLost
  <2> QED
    BY <1>3, <1>5, <2>2
<1>12. /\ cur' = b2 /\ cur = b /\ stack' = WithTop(s, f)
       /\ args'.cand = a.cand /\ args'.crit = q
       /\ Calls = {} /\ Calls' = Within(b2, a.cand)
  <2>1. cur' = b2 /\ args'.cand = a.cand /\ args'.crit = q
    BY <1>3, <1>4, <1>10 DEF Flip
  <2> QED
    BY <1>1, <1>3, <1>4, <1>5, <2>1 DEF Calls
<1> HIDE DEF g, s
<1>13. /\ Stepped(hyper_graph, cur, stack, Calls, cur', stack', Calls', {})
       /\ MinimalCovers(hyper_graph, 0) \cap {} = {}
  BY ONLY <1>10, <1>12 DEF g, s
<1>14. CallReady(hyper_graph, cur', args'.cand, args'.crit)
  BY ONLY <1>10, <1>12 DEF g
<1> QED
  BY <1>3, <1>11, <1>13, <1>14, SteppedSeek

\* A call has returned: nothing changes in what is ahead.
LEMMA SeekReturn ==
  ASSUME SubGraphsAreComponents, IInv, Seeks, NothingLost, ReturnTried
  PROVE  NothingLost'
<1> DEFINE g == hyper_graph
           s == stack
<1>1. /\ pc = "return" /\ ~stop_flag /\ stack # <<>> /\ pc' = "loop"
      /\ cur' = Flip(cur, active.v)
      /\ stack' = WithTop(stack, [active EXCEPT !.cand = @ \cup {active.v},
                                                !.v = NoVertex, !.back = {}])
      /\ UNCHANGED <<given, component>>
  BY DEF ReturnTried, place
<1>2. PICK a, b, b2 : a = active /\ b = cur /\ b2 = cur \ {active.v}
  OBVIOUS
<1>3. PICK f : f = [active EXCEPT !.cand = @ \cup {active.v},
                                  !.v = NoVertex, !.back = {}]
  OBVIOUS
<1>4. /\ s \in Seq(Frames) /\ s # <<>> /\ NoVertex \notin b
      /\ Len(s) \in 1 .. Len(s) /\ Len(s) \in Nat /\ a = s[Len(s)]
      /\ a \in Frames /\ NoVertex \notin Vertices(g)
  BY <1>1, <1>2, SeekFacts
<1>5. a.v \in Vertices(g) /\ a.v # NoVertex
      /\ \A i \in 1 .. Len(s) : FrameOK(g, b, s, i)
  <2>1. PICK m \in Seq(Members) : ChainOK(m)
    BY <1>1 DEF IInv, Chain, Seeks
  <2>2. Len(m) = Len(s) + 1 /\ Linked(g, s, m)
    BY <1>1, <2>1 DEF ChainOK
  <2>3. Waits(g, s[Len(s)], m[Len(s)], m[Len(s) + 1])
    BY <1>4, <2>2 DEF Linked
  <2>4. a.v \in Vertices(g)
    BY <1>4, <2>3 DEF Waits
  <2> QED
    BY <1>2, <1>4, <2>4 DEF NothingLost
<1>6. /\ f \in Frames /\ f.cand = a.cand \cup {a.v} /\ f.todo = a.todo
      /\ f.crit = a.crit /\ f.v = NoVertex /\ f.back = {} /\ f.c = a.c
  BY <1>2, <1>3, <1>4, <1>5 DEF Frames
<1>7. /\ Flip(b, a.v) = b2
      /\ Stepped(g, b, s, {}, b2, WithTop(s, f), {}, {})
  <2>1. PICK F, x, h : x = s /\ F = Frames /\ h = g
    OBVIOUS
  <2>2. /\ x \in Seq(F) /\ x # <<>> /\ NoVertex \notin b /\ a = x[Len(x)]
        /\ a.v # NoVertex /\ f \in F
        /\ f.cand = a.cand \cup {a.v} /\ f.todo = a.todo /\ f.crit = a.crit
        /\ f.v = NoVertex /\ f.back = {} /\ b2 = b \ {a.v}
        /\ \A i \in 1 .. Len(x) : FrameOK(h, b, x, i)
    BY <1>2, <1>4, <1>5, <1>6, <2>1
  <2>3. /\ TakenBack(h, b, a, b2)
        /\ Stepped(h, b, x, {}, b2, WithTop(x, f), {}, {})
    BY ONLY <2>2, TakeBackStep
  <2> QED
    BY <2>1, <2>3 DEF TakenBack
<1>8. Nested(stack')
  <2>1. /\ f.cand \cup f.todo \cup f.c \cup {f.v}
             \subseteq a.cand \cup a.todo \cup a.c \cup {a.v, NoVertex}
        /\ NoVertex \notin f.cand \cup f.todo \cup f.c
    BY <1>4, <1>5, <1>6 DEF Frames
  <2>2. Nested(WithTop(s, f))
    BY <1>4, <1>6, <2>1, NestedTop DEF NothingLost
  <2> QED
    BY <1>1, <1>3, <2>2
<1>9. /\ cur' = b2 /\ cur = b /\ stack' = WithTop(s, f)
      /\ Calls = {} /\ Calls' = {}
  BY <1>1, <1>2, <1>3, <1>7 DEF Calls
<1> HIDE DEF g, s
<1>10. /\ Stepped(hyper_graph, cur, stack, Calls, cur', stack', Calls', {})
       /\ MinimalCovers(hyper_graph, 0) \cap {} = {}
  BY ONLY <1>7, <1>9 DEF g, s
<1> QED
  BY <1>1, <1>8, <1>10, SteppedSeek

\* An activation without anything left returns.
LEMMA SeekLeave ==
  ASSUME SubGraphsAreComponents, IInv, Seeks, Turned, NothingLost,
         pc = "loop", pc' = "return", active.todo = {}, stack' = Popped(stack),
         UNCHANGED <<given, component, cur>>
  PROVE  NothingLost'
<1> DEFINE g == hyper_graph
           s == stack
<1>1. PICK a, b : a = active /\ b = cur
  OBVIOUS
<1>2. /\ s \in Seq(Frames) /\ s # <<>> /\ NoVertex \notin b
      /\ Len(s) \in 1 .. Len(s) /\ a = s[Len(s)]
  BY <1>1, LoopFacts, SeekFacts
<1>3. a.v = NoVertex /\ \A i \in 1 .. Len(s) : FrameOK(g, b, s, i)
  BY <1>1, <1>2 DEF NothingLost, Turned
<1>4. Stepped(g, b, s, {}, b, Popped(s), {}, {})
  <2>1. PICK F, x, h, q : x = s /\ F = Frames /\ h = g /\ q = {}
    OBVIOUS
  <2>2. /\ x \in Seq(F) /\ x # <<>> /\ NoVertex \notin b /\ a = x[Len(x)]
        /\ a.v = NoVertex
        /\ \A i \in 1 .. Len(x) : FrameOK(h, b, x, i)
    BY <1>2, <1>3, <2>1
  <2>3. Stepped(h, b, x, q, b, Popped(x), q, Passed(b, x, a.todo))
    BY ONLY <2>2, PopStep
  <2>4. Passed(b, x, a.todo) = {}
    BY <1>1 DEF Passed
  <2> QED
    BY <2>1, <2>3, <2>4
<1>5. Nested(stack')
  BY <1>2, NestedPopped DEF NothingLost
<1>6. cur' = b /\ cur = b /\ Calls = {} /\ Calls' = {}
  BY <1>1 DEF Calls
<1> HIDE DEF g, s
<1>7. /\ Stepped(hyper_graph, cur, stack, Calls, cur', stack', Calls', {})
      /\ MinimalCovers(hyper_graph, 0) \cap {} = {}
  BY ONLY <1>4, <1>6, stack' = Popped(stack) DEF g, s
<1> QED
  BY <1>5, <1>7, SteppedSeek

\* Every set of vertices is to be tried when a search begins.
LEMMA SeekStarts ==
  ASSUME SubGraphsAreComponents, NEW c, SearchComponent(c), stack = <<>>,
         c \in DOMAIN sub_graphs
  PROVE  NothingLost' /\ Unrepaired(stack') /\ Turned'
<1> DEFINE g == sub_graphs[c]
<1>1. /\ hyper_graph' = g /\ cur' = {} /\ pc' = "call" /\ stack' = <<>>
      /\ args'.cand = Vertices(g) /\ args'.crit = <<>>
  BY DEF SearchComponent, hyper_graph, given
<1>2. Len(stack') = 0 /\ 1 .. Len(stack') = {}
  BY <1>1
<1>3. CallReady(g, {}, Vertices(g), <<>>)
  <2>1. Len(<<>>) = 0 /\ 1 .. 0 = {}
    OBVIOUS
  <2> QED
    BY <2>1 DEF CallReady, HoldsCritical
<1>4. Calls' = SUBSET Vertices(g)
  BY <1>1 DEF Calls, Within
<1>5. MinimalCovers(g, 0) \subseteq Whole({}, stack', Calls')
  BY <1>2, <1>4 DEF Whole, MinimalCovers
<1>6. MinimalCovers(hyper_graph, 0)' \subseteq Whole(cur, stack, Calls)'
  BY <1>1, <1>5 DEF Whole, MinimalCovers, IsApproximateCover, Uncovered,
                    EdgeNum, EdgeIds, Vertices, Ahead, Left
<1>7. CallReady(hyper_graph', cur', args'.cand, args'.crit)
  BY <1>1, <1>3
<1>8. NothingLost'
  BY <1>1, <1>2, <1>6, <1>7 DEF NothingLost, Nested
<1> QED
  BY <1>1, <1>2, <1>8 DEF Unrepaired, Turned

-----------------------------------------------------------------------------
\* In a dead end no minimal hitting set is left among what can be chosen:
\* what is ahead of another activation has a vertex that it has still to
\* try, which is neither chosen nor a candidate.
LEMMA DeadEnd ==
  ASSUME SubGraphsAreComponents, IInv, Seeks, Turned, NothingLost,
         Unrepaired(stack), pc = "loop", active.todo = {},
         NEW f, f = [active EXCEPT !.todo = active.c, !.loop = "repair"]
  PROVE  Hopeless(hyper_graph, WithTop(stack, f), cur)
<1> DEFINE g == hyper_graph
           d == Len(stack)
           K == cur \cup active.cand \cup active.c
<1>1. /\ stack \in Seq(Frames) /\ stack # <<>> /\ d \in Nat /\ d \in 1 .. d
      /\ active = stack[d] /\ active \in Frames
      /\ cur \in SUBSET Vertices(g) /\ NoVertex \notin cur
      /\ IsFiniteSet(EdgeIds(g))
  BY LoopFacts, SeekFacts
<1>2. K \in SUBSET Vertices(g)
  BY <1>1 DEF Frames
<1>3. \A i \in 1 .. d : FrameOK(g, cur, stack, i)
  BY DEF NothingLost
<1>4. ASSUME NEW S \in SUBSET K, IsMinimalHittingSet(g, S)
      PROVE  FALSE
  <2>1. S \in MinimalCovers(g, 0)
    BY <1>1, <1>4, ExactCovers
  <2>2. S \in Whole(cur, stack, {})
    BY <2>1 DEF NothingLost, Calls
  <2>3. PICK i \in 1 .. d : S \in Ahead(cur, stack, i)
    BY <2>2 DEF Whole
  <2>4. PICK u \in S : u \in stack[i].todo
    BY <2>3 DEF Ahead
  <2>5. i # d
    BY <1>1, <2>4
  <2>6. i < d
    BY <1>1, <2>5
  <2>7. u \notin stack[i].cand /\ u \notin Left(cur, stack, i + 1)
    BY <1>3, <2>4 DEF FrameOK
  <2>8. Beneath(active, stack[i].cand)
    BY <1>1, <2>6 DEF NothingLost, Nested
  <2>9. u \in cur
    BY <2>4, <2>7, <2>8 DEF Beneath
  <2>10. PICK j \in i + 1 .. d : u = stack[j].v
    BY <2>7, <2>9 DEF Left
  <2>11. j \in 1 .. d /\ i < j
    BY <1>1, <2>10
  <2>12. u \in stack[i].cand \cup {NoVertex}
    BY <2>10, <2>11 DEF NothingLost, Nested, Beneath
  <2> QED
    BY <1>1, <2>7, <2>9, <2>12
<1>5. /\ f \in Frames /\ f.loop = "repair" /\ f.v = active.v /\ f.c = active.c
      /\ f.cand = active.cand /\ f.todo = active.c
  BY <1>1 DEF Frames
<1>6. AllOf(f) \subseteq K
  BY <1>1, <1>5 DEF AllOf, Turned
<1> DEFINE t == WithTop(stack, f)
<1>7. /\ Len(t) = d /\ t[d] = f
      /\ \A i \in 1 .. d - 1 : t[i] = stack[i]
  <2>1. PICK s, h : s = stack /\ h = f
    OBVIOUS
  <2>2. s \in Seq(Frames) /\ s # <<>> /\ h \in Frames
    BY <1>1, <1>5, <2>1
  <2>3. /\ Len(WithTop(s, h)) = Len(s) /\ WithTop(s, h)[Len(s)] = h
        /\ \A i \in 1 .. Len(s) - 1 : WithTop(s, h)[i] = s[i]
    BY ONLY <2>2, TopBecomes
  <2> QED
    BY <2>1, <2>3
<1> HIDE DEF t, K
<1>8. Confined(g, t, cur, d, K)
  <2>1. \A i \in 1 .. d - 1 : t[i].loop # "repair"
    <3>1. \A i \in 1 .. d - 1 : i \in 1 .. d
      BY <1>1
    <3> QED
      BY <1>7, <3>1 DEF Unrepaired
  <2>2. \A i \in d .. d : i = d
    BY <1>1
  <2>3. cur \subseteq K
    BY DEF K
  <2> QED
    BY <1>4, <1>5, <1>6, <1>7, <2>1, <2>2, <2>3 DEF Confined
<1> QED
  BY <1>1, <1>2, <1>7, <1>8 DEF Hopeless, t

\* Activations none of which repairs.
LEMMA UnrepairedTop ==
  ASSUME NEW F, NEW s \in Seq(F), s # <<>>, NEW f \in F, f.loop # "repair",
         Unrepaired(s)
  PROVE  Unrepaired(WithTop(s, f))
<1> DEFINE t == WithTop(s, f)
           d == Len(s)
<1>1. /\ Len(t) = d /\ t[d] = f /\ d \in Nat /\ d \in 1 .. d
      /\ \A i \in 1 .. d - 1 : t[i] = s[i]
  BY TopBecomes
<1> HIDE DEF t
<1>2. \A i \in 1 .. d : i = d \/ i \in 1 .. d - 1
  BY <1>1
<1> QED
  BY <1>1, <1>2 DEF Unrepaired, t

LEMMA UnrepairedPushed ==
  ASSUME NEW F, NEW s \in Seq(F), NEW f \in F, f.loop # "repair",
         Unrepaired(s)
  PROVE  Unrepaired(Append(s, f))
<1> DEFINE t == Append(s, f)
           d == Len(s)
<1>1. /\ d \in Nat /\ Len(t) = d + 1 /\ t[d + 1] = f
      /\ \A i \in 1 .. d : t[i] = s[i]
  BY PushProperties
<1> HIDE DEF t
<1>2. \A i \in 1 .. d + 1 : i = d + 1 \/ i \in 1 .. d
  BY <1>1
<1> QED
  BY <1>1, <1>2 DEF Unrepaired, t

LEMMA UnrepairedPopped ==
  ASSUME NEW F, NEW s \in Seq(F), s # <<>>, Unrepaired(s)
  PROVE  Unrepaired(Popped(s))
<1> DEFINE t == Popped(s)
           d == Len(s)
<1>1. /\ d \in Nat /\ Len(t) = d - 1
      /\ \A i \in 1 .. d - 1 : t[i] = s[i]
  <2>1. s # <<>> /\ t = Popped(s)
    OBVIOUS
  <2> QED
    BY ONLY <2>1, s \in Seq(F), TopProperties, PoppedProperties
<1> HIDE DEF t
<1>2. \A i \in 1 .. d - 1 : i \in 1 .. d
  BY <1>1
<1> QED
  BY <1>1, <1>2 DEF Unrepaired, t

\* What goes back without any activation that repairs goes back to the end.
LEMMA BackToTheEnd ==
  ASSUME IInv, Seeks, back_steps # 0,
         \A i \in 1 .. Len(stack) - 1 : stack[i].loop # "repair",
         Unrepaired(stack) \/ pc = "loop"
  PROVE  pc # "call" /\ Len(stack) <= back_steps
<1>1. stack \in Seq(Frames) /\ Len(stack) \in Nat
  BY DEF IInv, Shape
<1>2. /\ pc # "call"
      /\ \E k \in 0 .. Len(stack) :
         /\ k = 0 \/ stack[k].loop = "repair"
         /\ Len(stack) - k <= back_steps
         /\ pc = "loop" => k < Len(stack)
  BY DEF IInv, GoesBack, Seeks
<1>3. PICK k \in 0 .. Len(stack) :
         /\ k = 0 \/ stack[k].loop = "repair"
         /\ Len(stack) - k <= back_steps
         /\ pc = "loop" => k < Len(stack)
  BY <1>2
<1>4. k # 0 => k \in 1 .. Len(stack) /\ (k < Len(stack) => k \in 1 .. Len(stack) - 1)
  BY <1>1
<1>5. k = 0
  BY <1>3, <1>4 DEF Unrepaired
<1> QED
  BY <1>1, <1>2, <1>3, <1>5

-----------------------------------------------------------------------------
\* The innermost activation changes in a search without hope, or in one
\* where none repairs.
LEMMA TopNext ==
  ASSUME SubGraphsAreComponents, IInv, Seeks, DeadEndInv, stack # <<>>,
         NEW f \in Frames, stack' = WithTop(stack, f),
         UNCHANGED <<given, component>>,
         active.loop = "repair" <=> f.loop = "repair",
         AllOf(f) \cup cur' \subseteq AllOf(active) \cup cur,
         Unrepaired(stack) /\ back_steps' = 0 => NothingLost'
  PROVE  \/ Unrepaired(stack') /\ (back_steps' = 0 => NothingLost')
         \/ Hopeless(hyper_graph', stack', cur')
<1>1. /\ stack \in Seq(Frames) /\ Len(stack) \in 1 .. Len(stack)
      /\ active = stack[Len(stack)]
  BY SeekFacts
<1>2. hyper_graph' = hyper_graph
  BY SameComponent
<1>3. CASE Unrepaired(stack)
  <2>1. f.loop # "repair"
    BY <1>1, <1>3 DEF Unrepaired
  <2>2. Unrepaired(stack')
    BY <1>1, <1>3, <2>1, UnrepairedTop
  <2> QED
    BY <1>3, <2>2
<1>4. CASE Hopeless(hyper_graph, stack, cur)
  <2>1. PICK s, g, C, D, a : /\ s = stack /\ g = hyper_graph /\ C = cur /\ D = cur'
                             /\ a = active
    OBVIOUS
  <2>2. /\ s \in Seq(Frames) /\ s # <<>> /\ Hopeless(g, s, C) /\ a = s[Len(s)]
        /\ (a.loop = "repair" => f.loop = "repair")
        /\ AllOf(f) \cup D \subseteq AllOf(a) \cup C
    BY <1>1, <1>4, <2>1
  <2>3. Hopeless(g, WithTop(s, f), D)
    BY ONLY <2>2, f \in Frames, HopelessTop
  <2> QED
    BY <1>2, <2>1, <2>3
<1> QED
  BY <1>3, <1>4 DEF DeadEndInv

LEMMA DeadEndExpand ==
  ASSUME SubGraphsAreComponents, IInv, Seeks, DeadEndInv, Expand
  PROVE  DeadEndInv'
<1>1. /\ pc = "call" /\ ~stop_flag /\ uncov # {} /\ pc' = "loop"
      /\ UNCHANGED <<given, place, chosen, back_steps, stop_flag, results>>
  BY DEF Expand
<1>2. PICK choice \in Inherited!GoodEdgesToCover(args.cand) :
        LET c == args.cand \cap hyper_graph[choice.edge]
        IN stack' = Append(stack,
                      [cand |-> args.cand \ c, c |-> c, todo |-> c,
                       crit |-> args.crit, loop |-> "untried",
                       v |-> NoVertex, back |-> {}, old |-> NoMembers])
  BY DEF Expand
<1>3. PICK cand, c : cand = args.cand /\ c = args.cand \cap hyper_graph[choice.edge]
  OBVIOUS
<1>4. PICK f : f = [cand |-> cand \ c, c |-> c, todo |-> c,
                    crit |-> args.crit, loop |-> "untried",
                    v |-> NoVertex, back |-> {}, old |-> NoMembers]
  OBVIOUS
<1>5. /\ f \in Frames /\ f.cand = cand \ c /\ f.c = c /\ f.todo = c
      /\ f.v = NoVertex /\ f.loop = "untried"
  <2>1. NoMembers \in Members
    BY DEF Members
  <2>2. args.cand \in SUBSET Vertices(hyper_graph)
        /\ args.crit \in Seq(SUBSET EdgeIds(hyper_graph))
    BY <1>1, CallFacts
  <2>3. f \in Frames
    BY <1>3, <1>4, <2>1, <2>2 DEF Frames, Crits
  <2> QED
    BY <1>4, <2>3
<1>6. stack' = Append(stack, f) /\ stack \in Seq(Frames)
  BY <1>2, <1>3, <1>4, SeekFacts
<1>7. back_steps = 0
  BY <1>1 DEF IInv, GoesBack, Seeks
<1>8. Turned'
  <2>1. stack'[Len(stack')] = f
    BY <1>5, <1>6, PushProperties
  <2>2. back_steps' = 0
    BY <1>1, <1>7
  <2> QED
    BY <1>5, <2>1, <2>2 DEF Turned
<1>9. CASE Unrepaired(stack) /\ NothingLost
  <2>1. Unrepaired(stack')
    BY <1>5, <1>6, <1>9, UnrepairedPushed
  <2>2. NothingLost'
    BY <1>9, SeekExpand
  <2> QED
    BY <1>8, <2>1, <2>2 DEF DeadEndInv
<1>10. CASE Hopeless(hyper_graph, stack, cur)
  <2>1. PICK s, g, C : s = stack /\ g = hyper_graph /\ C = cur
    OBVIOUS
  <2>2. s # <<>>
    <3>1. Len(s) # 0
      BY <1>6, <1>10, <2>1 DEF Hopeless
    <3> QED
      BY <3>1
  <2>3. args.cand = s[Len(s)].cand
    BY <1>1, <2>1, <2>2 DEF IInv, CallOK
  <2>4. /\ s \in Seq(Frames) /\ Hopeless(g, s, C)
        /\ f.cand \cup f.todo \cup f.c \subseteq s[Len(s)].cand
    BY <1>3, <1>5, <1>6, <1>10, <2>1, <2>3
  <2>5. Hopeless(g, Append(s, f), C)
    BY ONLY <1>5, <2>2, <2>4, HopelessPushed
  <2>6. hyper_graph' = hyper_graph /\ cur' = cur
    <3>1. UNCHANGED <<given, component>>
      BY <1>1 DEF place
    <3> QED
      BY <1>1, <3>1, SameComponent DEF chosen
  <2>7. Hopeless(hyper_graph', stack', cur')
    BY <1>6, <2>1, <2>5, <2>6
  <2> QED
    BY <1>8, <2>7 DEF DeadEndInv
<1> QED
  BY <1>7, <1>9, <1>10 DEF DeadEndInv

LEMMA DeadEndSkip ==
  ASSUME SubGraphsAreComponents, IInv, Seeks, DeadEndInv, Skip
  PROVE  DeadEndInv'
<1>1. /\ pc = "loop" /\ active.loop \in {"untried", "tried"} /\ back_steps = 0
      /\ UNCHANGED <<given, place, chosen, next_edge, back_steps, stop_flag, pc,
                     args, results>>
  BY DEF Skip, Trying
<1>2. PICK v \in active.todo :
        stack' = WithTop(stack, [active EXCEPT !.todo = @ \ {v}])
  BY DEF Skip
<1>3. /\ stack \in Seq(Frames) /\ stack # <<>> /\ active = stack[Len(stack)]
      /\ active \in Frames
  BY <1>1, LoopFacts
<1>4. PICK f : f = [active EXCEPT !.todo = @ \ {v}]
  OBVIOUS
<1>5. /\ f \in Frames /\ f.loop = active.loop /\ f.v = active.v
      /\ f.cand = active.cand /\ f.c = active.c /\ f.todo = active.todo \ {v}
      /\ stack' = WithTop(stack, f)
  BY <1>2, <1>3, <1>4 DEF Frames
<1>6. Turned
  BY DEF DeadEndInv
<1>7. Turned'
  <2>1. stack'[Len(stack')] = f
    BY <1>3, <1>5, TopBecomes
  <2>2. active.v = NoVertex /\ back_steps' = 0
    BY <1>1, <1>3, <1>6 DEF Turned
  <2> QED
    BY <1>1, <1>5, <2>1, <2>2 DEF Turned
<1>8. AllOf(f) \cup cur' \subseteq AllOf(active) \cup cur
  BY <1>1, <1>5 DEF AllOf, chosen
<1>9. Unrepaired(stack) => NothingLost'
  <2> SUFFICES ASSUME Unrepaired(stack) PROVE NothingLost'
    OBVIOUS
  <2>1. NothingLost
    <3>1. ~Hopeless(hyper_graph, stack, cur)
      BY DEF Hopeless, Confined, Unrepaired
    <3> QED
      BY <1>1, <3>1 DEF DeadEndInv
  <2> QED
    BY <1>6, <2>1, SeekSkip
<1>10. UNCHANGED <<given, component>>
  BY <1>1 DEF place
<1> QED
  BY <1>1, <1>3, <1>5, <1>7, <1>8, <1>9, <1>10, TopNext DEF DeadEndInv

LEMMA DeadEndStartRepair ==
  ASSUME SubGraphsAreComponents, IInv, Seeks, DeadEndInv, StartRepair
  PROVE  DeadEndInv'
<1>1. /\ pc = "loop" /\ active.loop = "untried"
      /\ active.todo = {} /\ active.c # {}
      /\ UNCHANGED <<given, place, chosen, next_edge, back_steps, stop_flag, pc,
                     args, results>>
  BY DEF StartRepair
<1>2. PICK f : f = [active EXCEPT !.todo = active.c, !.loop = "repair"]
  OBVIOUS
<1>3. /\ stack \in Seq(Frames) /\ stack # <<>> /\ active = stack[Len(stack)]
      /\ active \in Frames
  BY <1>1, LoopFacts
<1>4. /\ f \in Frames /\ f.loop = "repair" /\ f.v = active.v
      /\ f.cand = active.cand /\ f.c = active.c /\ f.todo = active.c
      /\ stack' = WithTop(stack, f)
  BY <1>2, <1>3 DEF Frames, StartRepair
<1>5. Turned /\ active.v = NoVertex /\ back_steps = 0
  BY <1>1, <1>3 DEF DeadEndInv, Turned
<1>6. Turned'
  <2>1. stack'[Len(stack')] = f
    BY <1>3, <1>4, TopBecomes
  <2> QED
    BY <1>1, <1>4, <1>5, <2>1 DEF Turned
<1>7. hyper_graph' = hyper_graph /\ cur' = cur
  <2>1. UNCHANGED <<given, component>>
    BY <1>1 DEF place
  <2> QED
    BY <1>1, <2>1, SameComponent DEF chosen
<1>8. Hopeless(hyper_graph, WithTop(stack, f), cur)
  <2>1. CASE Unrepaired(stack) /\ NothingLost
    BY <1>1, <1>2, <1>5, <2>1, DeadEnd
  <2>2. CASE Hopeless(hyper_graph, stack, cur)
    <3>1. PICK s, g, C, a : s = stack /\ g = hyper_graph /\ C = cur /\ a = active
      OBVIOUS
    <3>2. /\ s \in Seq(Frames) /\ s # <<>> /\ Hopeless(g, s, C)
          /\ a = s[Len(s)] /\ f.loop = "repair"
          /\ AllOf(f) \cup C \subseteq AllOf(a) \cup C
      BY <1>3, <1>4, <1>5, <2>2, <3>1 DEF AllOf
    <3>3. Hopeless(g, WithTop(s, f), C)
      BY ONLY <3>2, <1>4, HopelessTop
    <3> QED
      BY <3>1, <3>3
  <2> QED
    BY <1>5, <2>1, <2>2 DEF DeadEndInv
<1>9. Hopeless(hyper_graph', stack', cur')
  BY <1>4, <1>7, <1>8
<1> QED
  BY <1>6, <1>9 DEF DeadEndInv

LEMMA DeadEndDescend ==
  ASSUME SubGraphsAreComponents, IInv, Seeks, DeadEndInv, Descend
  PROVE  DeadEndInv'
<1>1. pc = "loop" /\ active.loop \in {"untried", "tried"} /\ back_steps = 0
  BY DEF Descend, Trying
<1>2. PICK v \in active.todo : DescendWith(v)
  BY DEF Descend
<1>3. /\ cur' = Flip(cur, v) /\ pc' = "call"
      /\ stack' = WithTop(stack,
                    [active EXCEPT !.todo = @ \ {v}, !.c = {}, !.loop = "tried",
                       !.v = v, !.back = NewCrit(hyper_graph, uncov, v)])
      /\ UNCHANGED <<given, component>>
  BY <1>2 DEF DescendWith, place
<1>4. /\ stack \in Seq(Frames) /\ stack # <<>> /\ active = stack[Len(stack)]
      /\ active \in Frames
  BY <1>1, LoopFacts
<1>5. PICK f : f = [active EXCEPT !.todo = @ \ {v}, !.c = {}, !.loop = "tried",
                       !.v = v, !.back = NewCrit(hyper_graph, uncov, v)]
  OBVIOUS
<1>6. /\ f \in Frames /\ f.loop = "tried" /\ f.c = {}
      /\ f.cand = active.cand /\ f.todo = active.todo \ {v}
      /\ stack' = WithTop(stack, f)
  <2>1. FrameAt(hyper_graph, active, Now)
    BY <1>1, LoopFacts
  <2>2. uncov \in SUBSET EdgeIds(hyper_graph)
    BY <2>1 DEF FrameAt, ExactAt, Now, Uncovered
  <2>3. NewCrit(hyper_graph, uncov, v) \in SUBSET EdgeIds(hyper_graph)
    BY <2>2 DEF NewCrit
  <2>4. v \in Vertices(hyper_graph)
    BY <1>4 DEF Frames
  <2> QED
    BY <1>3, <1>4, <1>5, <2>3, <2>4 DEF Frames
<1>7. Turned'
  BY <1>3 DEF Turned
<1>8. AllOf(f) \cup cur' \subseteq AllOf(active) \cup cur
  BY <1>3, <1>6 DEF AllOf, Flip
<1>9. Unrepaired(stack) => NothingLost'
  <2> SUFFICES ASSUME Unrepaired(stack) PROVE NothingLost'
    OBVIOUS
  <2>1. ~Hopeless(hyper_graph, stack, cur)
    BY DEF Hopeless, Confined, Unrepaired
  <2> QED
    BY <1>1, <2>1, SeekDescend DEF DeadEndInv
<1>10. active.loop # "repair" /\ f.loop # "repair"
  BY <1>1, <1>6
<1>11. \/ Unrepaired(stack') /\ (back_steps' = 0 => NothingLost')
       \/ Hopeless(hyper_graph', stack', cur')
  BY <1>3, <1>4, <1>6, <1>8, <1>9, <1>10, TopNext
<1> QED
  BY <1>7, <1>11 DEF DeadEndInv

LEMMA DeadEndReturnTried ==
  ASSUME SubGraphsAreComponents, IInv, Seeks, DeadEndInv, ReturnTried
  PROVE  DeadEndInv'
<1>1. /\ pc = "return" /\ ~stop_flag /\ stack # <<>> /\ pc' = "loop"
      /\ active.loop # "repair"
      /\ cur' = Flip(cur, active.v)
      /\ stack' = WithTop(stack, [active EXCEPT !.cand = @ \cup {active.v},
                                                !.v = NoVertex, !.back = {}])
      /\ UNCHANGED <<given, component, back_steps>>
  BY DEF ReturnTried, place
<1>2. /\ stack \in Seq(Frames) /\ active = stack[Len(stack)]
      /\ active \in Frames /\ Len(stack) \in 1 .. Len(stack) /\ Len(stack) \in Nat
  BY <1>1, SeekFacts
<1>3. active.loop = "tried" /\ active.v \in Vertices(hyper_graph) /\ active.v \in cur
  <2>1. PICK m \in Seq(Members) : ChainOK(m)
    BY <1>1 DEF IInv, Chain, Seeks
  <2>2. Len(m) = Len(stack) + 1 /\ m[Len(m)] = Now /\ Linked(hyper_graph, stack, m)
    BY <1>1, <2>1 DEF ChainOK
  <2>3. Waits(hyper_graph, stack[Len(stack)], m[Len(stack)], Now)
    BY <1>2, <2>2 DEF Linked
  <2> QED
    BY <1>1, <1>2, <2>3 DEF Waits, Now
<1>4. PICK f : f = [active EXCEPT !.cand = @ \cup {active.v},
                                  !.v = NoVertex, !.back = {}]
  OBVIOUS
<1>5. /\ f \in Frames /\ f.loop = "tried" /\ f.v = NoVertex
      /\ f.cand = active.cand \cup {active.v} /\ f.c = active.c
      /\ f.todo = active.todo /\ stack' = WithTop(stack, f)
  BY <1>1, <1>2, <1>3, <1>4 DEF Frames
<1>6. Turned'
  <2>1. stack'[Len(stack')] = f
    BY <1>1, <1>2, <1>5, TopBecomes
  <2> QED
    BY <1>5, <2>1 DEF Turned
<1>7. AllOf(f) \cup cur' \subseteq AllOf(active) \cup cur
  BY <1>1, <1>3, <1>5 DEF AllOf, Flip
<1>8. Unrepaired(stack) /\ back_steps' = 0 => NothingLost'
  <2> SUFFICES ASSUME Unrepaired(stack), back_steps' = 0 PROVE NothingLost'
    OBVIOUS
  <2>1. ~Hopeless(hyper_graph, stack, cur)
    BY DEF Hopeless, Confined, Unrepaired
  <2>2. back_steps = 0
    BY <1>1
  <2> QED
    BY <2>1, <2>2, SeekReturn DEF DeadEndInv
<1>9. active.loop # "repair" /\ f.loop # "repair"
  BY <1>3, <1>5
<1>10. \/ Unrepaired(stack') /\ (back_steps' = 0 => NothingLost')
       \/ Hopeless(hyper_graph', stack', cur')
  BY <1>1, <1>5, <1>7, <1>8, <1>9, TopNext
<1> QED
  BY <1>6, <1>10 DEF DeadEndInv

LEMMA DeadEndRepair ==
  ASSUME SubGraphsAreComponents, IInv, Seeks, DeadEndInv, Repair
  PROVE  DeadEndInv'
<1>1. /\ pc = "loop" /\ active.loop = "repair" /\ pc' = "call"
      /\ UNCHANGED <<given, component>>
  BY DEF Repair, Repairing, place
<1>2. /\ stack \in Seq(Frames) /\ stack # <<>> /\ active = stack[Len(stack)]
      /\ Len(stack) \in 1 .. Len(stack)
  BY <1>1, LoopFacts
<1>3. PICK v \in active.todo, f \in Frames :
           /\ stack' = WithTop(stack, f)
           /\ f.todo = active.todo \ {v} /\ f.c = active.c
           /\ f.cand = active.cand /\ f.loop = "repair" /\ f.old = Now
           /\ RepairedAt(hyper_graph, Now, v, Now', args'.crit)
  BY RepairProperties
<1>4. cur' \subseteq cur \cup {v}
  BY <1>3 DEF RepairedAt, Now
<1>5. AllOf(f) \cup cur' \subseteq AllOf(active) \cup cur
  <2>1. f.old.cur = cur
    BY <1>3 DEF Now
  <2>2. AllOf(f) \subseteq f.cand \cup f.todo \cup f.c \cup f.old.cur
    BY DEF AllOf
  <2>3. active.cand \cup active.todo \cup active.c \subseteq AllOf(active)
    BY DEF AllOf
  <2> QED
    BY <1>3, <1>4, <2>1, <2>2, <2>3
<1>6. ~Unrepaired(stack)
  BY <1>1, <1>2 DEF Unrepaired
<1>7. \/ Unrepaired(stack') /\ (back_steps' = 0 => NothingLost')
      \/ Hopeless(hyper_graph', stack', cur')
  BY <1>1, <1>2, <1>3, <1>5, <1>6, TopNext
<1>8. Turned'
  BY <1>1 DEF Turned
<1> QED
  BY <1>7, <1>8 DEF DeadEndInv

LEMMA DeadEndReturnRepaired ==
  ASSUME SubGraphsAreComponents, IInv, Seeks, DeadEndInv, ReturnRepaired
  PROVE  DeadEndInv'
<1>1. /\ pc = "return" /\ stack # <<>> /\ pc' = "loop"
      /\ active.loop = "repair"
      /\ cur' = active.old.cur
      /\ active.old.cur # {} =>
           back_steps' \in StepsBack(Cardinality(active.old.cur) + 1)
      /\ stack' = WithTop(stack, [active EXCEPT !.v = NoVertex, !.old = NoMembers])
      /\ UNCHANGED <<given, component>>
  BY DEF ReturnRepaired, place
<1>2. /\ stack \in Seq(Frames) /\ active = stack[Len(stack)]
      /\ active \in Frames /\ Len(stack) \in 1 .. Len(stack) /\ Len(stack) \in Nat
      /\ NoVertex \notin Vertices(hyper_graph)
  BY <1>1, SeekFacts
<1>3. /\ active.v # NoVertex
      /\ active.old.cur # {} /\ IsFiniteSet(active.old.cur)
  <2>1. PICK m \in Seq(Members) : ChainOK(m)
    BY <1>1 DEF IInv, Chain, Seeks
  <2>2. Len(m) = Len(stack) + 1 /\ m[Len(m)] = Now /\ Linked(hyper_graph, stack, m)
    BY <1>1, <2>1 DEF ChainOK
  <2>3. Len(stack) \in 1 .. Len(m) /\ Len(stack) \in 1 .. Len(m) - 1
    BY <1>2, <2>2
  <2>4. /\ Waits(hyper_graph, stack[Len(stack)], m[Len(stack)], m[Len(stack) + 1])
        /\ FrameAt(hyper_graph, stack[Len(stack)], m[Len(stack)])
        /\ IsFiniteSet(m[Len(stack)].cur)
    BY <1>2, <2>2, <2>3 DEF Linked
  <2>5. active.old = m[Len(stack)] /\ active.v \in Vertices(hyper_graph)
    BY <1>1, <1>2, <2>4 DEF Waits
  <2>6. m[Len(stack)].cur # {}
    BY <1>1, <1>2, <2>4 DEF FrameAt
  <2> QED
    BY <1>2, <2>4, <2>5, <2>6
<1>4. PICK f : f = [active EXCEPT !.v = NoVertex, !.old = NoMembers]
  OBVIOUS
<1>5. /\ f \in Frames /\ f.loop = "repair" /\ f.v = NoVertex
      /\ f.cand = active.cand /\ f.c = active.c
      /\ f.todo = active.todo /\ stack' = WithTop(stack, f)
  <2>1. NoMembers \in Members
    BY DEF Members
  <2> QED
    BY <1>1, <1>2, <1>4, <2>1 DEF Frames
<1>6. back_steps' # 0
  <2>1. Cardinality(active.old.cur) \in Nat
    BY <1>3, FS_CardinalityType
  <2>2. PICK n : n = Cardinality(active.old.cur) + 1
    OBVIOUS
  <2>3. n \in Nat /\ n # 0
    BY <2>1, <2>2
  <2>4. StepsBack(n) = {n}
    <3>1. object.certain /\ Shape
      BY DEF Seeks, IInv
    <3> QED
      BY <2>3, <3>1, StepsBackProperties
  <2> QED
    BY <1>1, <1>3, <2>2, <2>3, <2>4
<1>7. Turned'
  <2>1. stack'[Len(stack')] = f
    BY <1>1, <1>2, <1>5, TopBecomes
  <2> QED
    BY <1>5, <1>6, <2>1 DEF Turned
<1>8. AllOf(f) \cup cur' \subseteq AllOf(active) \cup cur
  BY <1>1, <1>3, <1>5 DEF AllOf
<1>9. \/ Unrepaired(stack') /\ (back_steps' = 0 => NothingLost')
      \/ Hopeless(hyper_graph', stack', cur')
  BY <1>1, <1>5, <1>6, <1>8, TopNext
<1> QED
  BY <1>7, <1>9 DEF DeadEndInv

\* An activation returns.
LEMMA DeadEndPopped ==
  ASSUME SubGraphsAreComponents, IInv, Seeks, DeadEndInv, BackOut \/ Leave, Seeks'
  PROVE  DeadEndInv'
<1>1. /\ pc = "loop" /\ pc' = "return" /\ stack' = Popped(stack)
      /\ back_steps' = IF BackOut \/ back_steps = 0 THEN back_steps
                       ELSE back_steps - 1
      /\ UNCHANGED <<given, component, cur>>
  BY DEF BackOut, Leave, Trying, place, chosen
<1>2. /\ stack \in Seq(Frames) /\ stack # <<>> /\ Len(stack) \in Nat
      /\ Len(stack) \in 1 .. Len(stack) /\ active = stack[Len(stack)]
      /\ back_steps \in Nat
  BY <1>1, LoopFacts, SeekFacts
<1>3. Turned' /\ Turned
  BY <1>1 DEF Turned, DeadEndInv
<1>4. hyper_graph' = hyper_graph /\ cur' = cur
  BY <1>1, SameComponent
<1>5. Len(stack) > 1
  <2>1. stack' # <<>>
    BY <1>1 DEF Seeks, Live
  <2>2. Len(stack') = Len(stack) - 1 /\ stack' \in Seq(Frames)
    BY <1>1, <1>2, PoppedProperties
  <2>3. Len(stack') # 0
    BY <2>1, <2>2
  <2> QED
    BY <1>2, <2>2, <2>3
<1>6. ASSUME back_steps # 0,
             \A i \in 1 .. Len(stack) - 1 : stack[i].loop # "repair"
      PROVE  back_steps' # 0
  <2>1. Len(stack) <= back_steps
    BY <1>1, <1>6, BackToTheEnd
  <2> QED
    BY <1>1, <1>2, <1>5, <2>1
<1>7. active.loop = "repair" => back_steps # 0
  <2> SUFFICES ASSUME active.loop = "repair", back_steps = 0 PROVE FALSE
    OBVIOUS
  <2>1. active.todo # {}
    BY <1>1, <1>2, <1>3 DEF Turned
  <2> QED
    BY <2>1 DEF BackOut, Leave, Trying
<1>8. CASE Unrepaired(stack) /\ (back_steps = 0 => NothingLost)
  <2>1. Unrepaired(stack')
    BY <1>1, <1>2, <1>8, UnrepairedPopped
  <2>2. ASSUME back_steps' = 0 PROVE NothingLost'
    <3>1. \A i \in 1 .. Len(stack) - 1 : stack[i].loop # "repair"
      BY <1>2, <1>8 DEF Unrepaired
    <3>2. back_steps = 0
      BY <1>6, <2>2, <3>1
    <3>3. active.todo = {}
      <4>1. active.loop # "repair"
        BY <1>2, <1>8 DEF Unrepaired
      <4> QED
        BY <3>2, <4>1 DEF BackOut, Leave, Repairing
    <3> QED
      BY <1>1, <1>3, <1>8, <3>2, <3>3, SeekLeave
  <2> QED
    BY <1>3, <2>1, <2>2 DEF DeadEndInv
<1>9. CASE Hopeless(hyper_graph, stack, cur)
  <2>1. CASE Hopeless(hyper_graph, stack', cur)
    <3>1. Hopeless(hyper_graph', stack', cur')
      BY <1>4, <2>1
    <3> QED
      BY <1>3, <3>1 DEF DeadEndInv
  <2>2. CASE /\ active.loop = "repair" /\ Unrepaired(stack')
             /\ \A i \in 1 .. Len(stack) - 1 : stack[i].loop # "repair"
    <3>1. back_steps' # 0
      BY <1>6, <1>7, <2>2
    <3> QED
      BY <1>3, <2>2, <3>1 DEF DeadEndInv
  <2>3. PICK s, g, C : s = stack /\ g = hyper_graph /\ C = cur
    OBVIOUS
  <2>4. \/ Hopeless(g, Popped(s), C)
        \/ s[Len(s)].loop = "repair" /\ Unrepaired(Popped(s))
              /\ \A i \in 1 .. Len(s) - 1 : s[i].loop # "repair"
    <3>1. s \in Seq(Frames) /\ s # <<>> /\ Hopeless(g, s, C)
      BY <1>2, <1>9, <2>3
    <3> QED
      BY ONLY <3>1, HopelessPopped
  <2> QED
    BY <1>1, <1>2, <2>1, <2>2, <2>3, <2>4
<1> QED
  BY <1>8, <1>9 DEF DeadEndInv

\* A search that goes on after a step of RunDiverse_ went on before it.
LEMMA SeeksOn ==
  ASSUME IInv, Search, Seeks'
  PROVE  /\ Seeks
         /\ \/ Expand \/ Skip \/ Descend \/ ReturnTried \/ StartRepair \/ Repair
            \/ ReturnRepaired \/ BackOut \/ Leave
<1>1. ~Found
  BY FoundCounted DEF Seeks
<1>2. ~EnterStopped /\ ~ReturnStopped
  BY DEF Seeks, EnterStopped, ReturnStopped
<1>3. \/ Expand \/ Skip \/ Descend \/ ReturnTried \/ StartRepair \/ Repair
      \/ ReturnRepaired \/ BackOut \/ Leave
  BY <1>1, <1>2 DEF Search
<1>4. /\ UNCHANGED <<given, component, stop_flag, found>>
      /\ Live
  BY <1>3 DEF Expand, Skip, Descend, DescendWith, ReturnTried, StartRepair,
              Repair, Repairing, Trying, ReturnRepaired, BackOut, Leave, place,
              results, Live
<1> QED
  BY <1>3, <1>4 DEF Seeks, given, method

\* RunDiverse begins a search, or goes on with none.
LEMMA DeadEndStarts ==
  ASSUME SubGraphsAreComponents, IInv, RunDiverse \/ StartComponent \/ NextRound,
         Seeks'
  PROVE  DeadEndInv'
<1>1. Len(sub_graphs) \in Nat /\ component \in 0 .. Len(sub_graphs)
      /\ DOMAIN sub_graphs = 1 .. Len(sub_graphs)
  BY DEF SubGraphsAreComponents, AreComponents, IInv, Shape
<1>2. CASE StartSearch
  <2>1. component \in DOMAIN sub_graphs
    BY <1>1, <1>2 DEF StartSearch, AllFound
  <2>2. PICK c \in DOMAIN sub_graphs : c = component
    BY <2>1
  <2>3. stack = <<>> /\ SearchComponent(c)
    BY <1>2, <2>2 DEF StartSearch, InRunDiverse
  <2> QED
    BY <2>3, SeekStarts DEF DeadEndInv
<1>3. CASE StartComponent
  <2>1. component + 1 \in DOMAIN sub_graphs
    BY <1>1, <1>3 DEF StartComponent
  <2>2. PICK c \in DOMAIN sub_graphs : c = component + 1
    BY <2>1
  <2>3. stack = <<>> /\ SearchComponent(c)
    BY <1>3, <2>2 DEF StartComponent, InRounds
  <2> QED
    BY <2>3, SeekStarts DEF DeadEndInv
<1>4. CASE NextComponent \/ FillQueue \/ NextRound
  <2>1. stack' = <<>> /\ pc' \in {"return", "done"}
    BY <1>4 DEF NextComponent, FillQueue, NextRound, InRunDiverse, InRounds
  <2> QED
    BY <2>1 DEF Seeks, Live
<1> QED
  BY <1>2, <1>3, <1>4 DEF RunDiverse

LEMMA DeadEndNext ==
  ASSUME SubGraphsAreComponents, IInv, DeadEndInv, [Next]_vars
  PROVE  DeadEndInv'
<1> SUFFICES ASSUME Seeks' PROVE DeadEndInv'
  BY DEF DeadEndInv
<1>1. CASE UNCHANGED vars
  <2>1. UNCHANGED search_vars
    BY <1>1 DEF vars
  <2>2. /\ UNCHANGED <<given, component>>
        /\ UNCHANGED <<back_steps, stop_flag, pc, args, stack, found, cur>>
    BY <2>1 DEF search_vars, place, chosen, results
  <2>3. hyper_graph' = hyper_graph /\ method' = method /\ object' = object
    BY <2>2, SameComponent
  <2>4. Seeks' = Seeks /\ Turned' = Turned
    BY <2>2, <2>3 DEF Seeks, Turned, Live
  <2>5. NothingLost' = NothingLost
    BY <2>2, <2>3 DEF NothingLost, Calls
  <2> QED
    BY <2>2, <2>3, <2>4, <2>5 DEF DeadEndInv
<1>2. CASE Search
  BY <1>2, SeeksOn, DeadEndExpand, DeadEndSkip, DeadEndDescend,
     DeadEndReturnTried, DeadEndStartRepair, DeadEndRepair,
     DeadEndReturnRepaired, DeadEndPopped
<1>3. CASE RunDiverse \/ StartComponent \/ NextRound
  BY <1>3, DeadEndStarts
<1> QED
  BY <1>1, <1>2, <1>3 DEF Next, Terminated

\* A cover is found where no activation repairs.
LEMMA FoundUnrepaired ==
  ASSUME SubGraphsAreComponents, IInv, DeadEndInv, Found,
         object.certain, method # "PRIORITY"
  PROVE  Unrepaired(stack)
<1>1. pc = "call" /\ ~stop_flag /\ uncov = {}
  BY DEF Found
<1>2. Seeks
  <2>1. component # 0 /\ Live
    BY <1>1 DEF IInv, Shape, Live
  <2>2. found = 0
    BY <1>1, <2>1 DEF IInv, GoesBack
  <2> QED
    BY <1>1, <2>1, <2>2 DEF Seeks
<1>3. IsMinimalHittingSet(hyper_graph, cur)
  BY <1>1, FoundMinimal
<1>4. ~Hopeless(hyper_graph, stack, cur)
  BY <1>3 DEF Hopeless, Confined
<1> QED
  BY <1>2, <1>4 DEF DeadEndInv

\* With the certain back method, and any method but PRIORITY, a search loses
\* no minimal hitting set before its first dead end, and has none left
\* after it.
THEOREM DeadEndInvariance == Spec => []DeadEndInv
<1>1. InitAll => DeadEndInv
  BY DEF InitAll, Init, DeadEndInv, Seeks
<1>2. SubGraphsAreComponents /\ IInv /\ DeadEndInv /\ [Next]_vars => DeadEndInv'
  BY DeadEndNext
<1> QED
  BY <1>1, <1>2, Components, Invariance, PTL DEF Spec

\* An object has one method.
LEMMA MethodKept ==
  ASSUME [Next]_vars
  PROVE  object' = object
<1>1. CASE Search
  BY <1>1 DEF Search, EnterStopped, Found, Expand, Skip, Descend, DescendWith,
              BackOut, ReturnTried, StartRepair, Repair, ReturnRepaired,
              Leave, ReturnStopped, given
<1>2. CASE RunDiverse \/ StartComponent \/ NextRound
  BY <1>2 DEF RunDiverse, StartSearch, NextComponent, FillQueue,
              StartComponent, NextRound, SearchComponent, given
<1>3. CASE UNCHANGED vars
  BY <1>3 DEF vars, search_vars, given
<1> QED
  BY <1>1, <1>2, <1>3 DEF Next, Terminated

\* With the certain back method, and any method but PRIORITY, no cover is
\* complete only thanks to a repair.
THEOREM DeadEndsFindNothing ==
  Spec /\ object.method # "PRIORITY" => RepairFindsNothing
<1>1. object.method # "PRIORITY" /\ [Next]_vars => (object.method # "PRIORITY")'
  BY MethodKept
<1>2. SubGraphsAreComponents /\ IInv /\ DeadEndInv
        /\ object.method # "PRIORITY" /\ [Next]_vars
      => [object.certain /\ found' > found =>
            \A i \in DOMAIN stack : stack[i].loop # "repair"]_search_vars
  <2> SUFFICES ASSUME SubGraphsAreComponents, IInv, DeadEndInv,
                      object.method # "PRIORITY", [Next]_vars,
                      object.certain, found' > found
               PROVE  \A i \in DOMAIN stack : stack[i].loop # "repair"
    OBVIOUS
  <2>1. Found
    <3>1. found' # found /\ found' # 0
      BY DEF IInv, Shape
    <3>2. Search
      BY <3>1 DEF Next, Terminated, vars, search_vars, results, RunDiverse,
             StartSearch, NextComponent, FillQueue, StartComponent, NextRound,
             SearchComponent
    <3> QED
      BY <3>1, <3>2 DEF Search, EnterStopped, Expand, Skip, Descend, DescendWith,
                  BackOut, ReturnTried, StartRepair, Repair, ReturnRepaired,
                  Leave, ReturnStopped, results
  <2>2. Unrepaired(stack)
    BY <2>1, FoundUnrepaired DEF method
  <2>3. stack \in Seq(Frames)
    BY DEF IInv, Shape
  <2>4. DOMAIN stack = 1 .. Len(stack)
    BY <2>3
  <2> QED
    BY <2>2, <2>4 DEF Unrepaired
<1> QED
  BY <1>1, <1>2, Components, Invariance, DeadEndInvariance, PTL
     DEF Spec, RepairFindsNothing
=============================================================================
