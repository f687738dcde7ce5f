-------------------------- MODULE CoverSearchProofs --------------------------
(***************************************************************************)
(* What the proofs about the algorithms share: the call stack, the         *)
(* bookkeeping, minimal covers, the part of the search space that an       *)
(* activation has still ahead of it, and that GetSubGraph splits a         *)
(* hypergraph into its connected components.                               *)
(***************************************************************************)
EXTENDS CoverBookkeeping, CallStack, SubGraphs, SequenceTheorems, FiniteSetTheorems,
        WellFoundedInduction, TLAPS

-----------------------------------------------------------------------------
(***************************************************************************)
(* The stack: what a push, a pop and a change of the last activation leave *)
(* alone.                                                                  *)
(***************************************************************************)

\* The last activation of a stack that is not empty.
LEMMA TopProperties ==
  ASSUME NEW S, NEW s \in Seq(S), s # <<>>
  PROVE  /\ Len(s) \in 1 .. Len(s)
         /\ Len(s) \in Nat
         /\ Top(s) = s[Len(s)]
         /\ Top(s) \in S
<1>1. Len(s) \in Nat \ {0}
  BY EmptySeq
<1>2. Len(s) \in 1 .. Len(s)
  BY <1>1
<1> QED
  BY <1>1, <1>2, ElementOfSeq DEF Top

\* A change of the last activation leaves those below it alone.
LEMMA WithTopProperties ==
  ASSUME NEW S, NEW s \in Seq(S), s # <<>>, NEW f \in S
  PROVE  /\ WithTop(s, f) \in Seq(S)
         /\ Len(WithTop(s, f)) = Len(s)
         /\ WithTop(s, f)[Len(s)] = f
         /\ \A i \in 1 .. Len(s) - 1 : WithTop(s, f)[i] = s[i]
         /\ WithTop(s, f) # <<>>
<1>1. Len(s) \in 1 .. Len(s) /\ Len(s) \in Nat
  BY TopProperties
<1>2. /\ WithTop(s, f) \in Seq(S)
      /\ Len(WithTop(s, f)) = Len(s)
      /\ \A j \in 1 .. Len(s) :
           WithTop(s, f)[j] = IF j = Len(s) THEN f ELSE s[j]
  BY <1>1, ExceptSeq DEF WithTop
<1>3. Len(WithTop(s, f)) # 0
  BY <1>1, <1>2
<1> QED
  BY <1>1, <1>2, <1>3, EmptySeq

\* A call leaves the activations below it alone.
LEMMA PushProperties ==
  ASSUME NEW S, NEW s \in Seq(S), NEW f \in S
  PROVE  /\ Append(s, f) \in Seq(S)
         /\ Len(Append(s, f)) = Len(s) + 1
         /\ Append(s, f)[Len(s) + 1] = f
         /\ \A i \in 1 .. Len(s) : Append(s, f)[i] = s[i]
         /\ Append(s, f) # <<>>
<1>1. Len(s) \in Nat
  BY LenProperties
<1>2. /\ Append(s, f) \in Seq(S)
      /\ Len(Append(s, f)) = Len(s) + 1
      /\ Append(s, f)[Len(s) + 1] = f
      /\ \A i \in 1 .. Len(s) : Append(s, f)[i] = s[i]
  BY <1>1
<1>3. Len(Append(s, f)) # 0
  BY <1>1, <1>2
<1> QED
  BY <1>2, <1>3, EmptySeq

\* A return leaves the activations below it alone.
LEMMA PoppedProperties ==
  ASSUME NEW S, NEW s \in Seq(S), s # <<>>
  PROVE  /\ Popped(s) \in Seq(S)
         /\ Len(Popped(s)) = Len(s) - 1
         /\ \A i \in 1 .. Len(s) - 1 : Popped(s)[i] = s[i]
<1>1. Len(s) \in Nat /\ Len(s) \in 1 .. Len(s)
  BY TopProperties
<1>2. \A i \in 1 .. Len(s) - 1 : s[i] \in S
  BY <1>1, ElementOfSeq
<1> DEFINE n == Len(s) - 1
<1>3. n \in Nat
  BY <1>1
<1>4. /\ SubSeq(s, 1, n) \in Seq(S)
      /\ Len(SubSeq(s, 1, n)) = IF 1 <= n THEN n - 1 + 1 ELSE 0
      /\ \A i \in 1 .. n - 1 + 1 : SubSeq(s, 1, n)[i] = s[1 + i - 1]
  <2> HIDE DEF n
  <2>1. 1 \in Int /\ n \in Int
    BY <1>3
  <2>2. \A i \in 1 .. n : s[i] \in S
    BY <1>2 DEF n
  <2> QED
    BY ONLY <2>1, <2>2, SubSeqProperties
<1>5. \A i \in 1 .. n : i \in 1 .. n - 1 + 1 /\ 1 + i - 1 = i
  BY <1>3
<1>6. Popped(s) = SubSeq(s, 1, n)
  BY DEF Popped
<1>7. Len(s) - 1 = n
  OBVIOUS
<1> DEFINE p == SubSeq(s, 1, n)
<1> HIDE DEF n, p
<1>8. Len(p) = n
  BY <1>3, <1>4 DEF p
<1>9. \A i \in 1 .. n : p[i] = s[i]
  BY <1>4, <1>5 DEF p
<1> QED
  BY <1>4, <1>6, <1>7, <1>8, <1>9 DEF p

-----------------------------------------------------------------------------
(***************************************************************************)
(* The vertices chosen before an activation, and how they change.          *)
(***************************************************************************)

\* ChosenBefore(s, i) depends on the activations before the i-th only.
LEMMA ChosenUnchanged ==
  ASSUME NEW s, NEW t, NEW i, \A j \in 1 .. i - 1 : t[j].v = s[j].v
  PROVE  ChosenBefore(t, i) = ChosenBefore(s, i)
BY DEF ChosenBefore

\* Activation i adds the vertex it has chosen, if any.
LEMMA ChosenNext ==
  ASSUME NEW s, NEW i \in Nat \ {0}
  PROVE  ChosenBefore(s, i + 1) =
           IF s[i].v = NoVertex THEN ChosenBefore(s, i)
                                ELSE ChosenBefore(s, i) \cup {s[i].v}
<1>1. 1 .. (i + 1) - 1 = (1 .. i - 1) \cup {i}
  OBVIOUS
<1> QED
  BY <1>1 DEF ChosenBefore

-----------------------------------------------------------------------------
\* Vertices and edges are natural numbers, of which NoVertex is none.
LEMMA IsHyperGraphProperties ==
  ASSUME NEW g, IsHyperGraph(g)
  PROVE  /\ Vertices(g) \subseteq Nat
         /\ NoVertex \notin Vertices(g)
         /\ IsFiniteSet(EdgeIds(g))
         /\ EdgeNum(g) \in Nat
         /\ EdgeIds(g) = 0 .. EdgeNum(g) - 1
         /\ EdgeIds(g) \subseteq Nat
         /\ \A e \in EdgeIds(g) : g[e] \subseteq Vertices(g)
<1>1. IsHyperGraph(g)
  OBVIOUS
<1>2. IsFiniteSet(EdgeIds(g)) /\ EdgeNum(g) \in Nat
  BY <1>1, FS_CardinalityType DEF IsHyperGraph, EdgeNum
<1>3. EdgeIds(g) = 0 .. EdgeNum(g) - 1
  BY <1>1 DEF IsHyperGraph, EdgeIds
<1>4. \A e \in EdgeIds(g) : g[e] \subseteq 0 .. MaxBit - 1
  BY <1>1, <1>3 DEF IsHyperGraph
<1>5. MaxBit \in Nat
  BY DEF MaxBit
<1>6. Vertices(g) \subseteq Nat
  BY <1>4, <1>5 DEF Vertices
<1> QED
  BY <1>2, <1>3, <1>6 DEF Vertices, NoVertex

\* An edge has at most MaxBit vertices, and no candidate only if it meets no
\* candidate.
LEMMA CandidateCount ==
  ASSUME NEW g, IsHyperGraph(g), NEW e \in EdgeIds(g), NEW cand
  PROVE  /\ Cardinality(cand \cap g[e]) \in 0 .. MaxBit
         /\ Cardinality(cand \cap g[e]) = 0 <=> g[e] \cap cand = {}
<1>1. EdgeIds(g) = 0 .. EdgeNum(g) - 1
  BY IsHyperGraphProperties
<1>2. cand \cap g[e] \in SUBSET (0 .. MaxBit - 1)
  BY <1>1 DEF IsHyperGraph
<1>3. MaxBit \in Nat \ {0}
  BY DEF MaxBit
<1>4. IsFiniteSet(0 .. MaxBit - 1) /\ Cardinality(0 .. MaxBit - 1) = MaxBit
  BY <1>3, FS_Interval
<1>5. /\ IsFiniteSet(cand \cap g[e])
      /\ Cardinality(cand \cap g[e]) <= MaxBit
  <2> HIDE DEF MaxBit
  <2> QED
    BY <1>2, <1>4, FS_Subset
<1>6. Cardinality(cand \cap g[e]) \in Nat
  BY <1>5, FS_CardinalityType
<1>7. Cardinality(cand \cap g[e]) = 0 <=> cand \cap g[e] = {}
  BY <1>5, FS_EmptySet
<1> QED
  BY <1>3, <1>5, <1>6, <1>7

-----------------------------------------------------------------------------
(***************************************************************************)
(* The bookkeeping: from the edges S leaves unhit and the critical edges   *)
(* of S, the updates compute those of S \cup {v}, and undoing them computes *)
(* those of S again.                                                       *)
(***************************************************************************)

\* The first element of a set that has one.
LEMMA LeastProperties ==
  ASSUME NEW S \in SUBSET Nat, S # {}
  PROVE  /\ Least(S) \in S
         /\ \A y \in S : Least(S) <= y
<1>1. \E x \in S : \A y \in S : ~ (<<y, x>> \in OpToRel(<, Nat))
  BY NatLessThanWellFounded, WFMin
<1>2. PICK x \in S : \A y \in S : ~ (<<y, x>> \in OpToRel(<, Nat))
  BY <1>1
<1>3. ASSUME NEW y \in S PROVE ~ (y < x)
  <2>1. <<y, x>> \notin OpToRel(<, Nat)
    BY <1>2
  <2>2. <<y, x>> \in Nat \X Nat
    OBVIOUS
  <2> QED
    BY <2>1, <2>2, Zenon DEF OpToRel
<1>4. \A y \in S : x <= y
  BY <1>3
<1> QED
  BY <1>4 DEF Least

\* Some element is best, whatever each is worth.
LEMMA CheapestExists ==
  ASSUME NEW S, S # {}, NEW f \in [S -> Nat]
  PROVE  \E x \in S : \A y \in S : f[x] <= f[y]
<1> DEFINE W == {f[y] : y \in S}
<1>1. W \in SUBSET Nat /\ W # {}
  OBVIOUS
<1>2. \A y \in S : f[y] \in W
  OBVIOUS
<1> HIDE DEF W
<1>3. Least(W) \in W /\ \A w \in W : Least(W) <= w
  BY <1>1, LeastProperties
<1>4. PICK x \in S : f[x] = Least(W)
  BY <1>3 DEF W
<1> QED
  BY <1>2, <1>3, <1>4

LEMMA DearestExists ==
  ASSUME NEW S, S # {}, NEW n \in Nat, NEW f \in [S -> 0 .. n]
  PROVE  \E x \in S : \A y \in S : f[x] >= f[y]
<1> DEFINE h == [y \in S |-> n - f[y]]
<1>1. h \in [S -> Nat]
  OBVIOUS
<1>2. PICK x \in S : \A y \in S : h[x] <= h[y]
  <2> HIDE DEF h
  <2> QED
    BY <1>1, CheapestExists
<1>3. ASSUME NEW y \in S PROVE f[x] >= f[y]
  <2>1. n - f[x] <= n - f[y] /\ f[x] \in 0 .. n /\ f[y] \in 0 .. n
    BY <1>2
  <2> QED
    BY <2>1
<1> QED
  BY <1>3

\* UpdateCritAndUncov leaves in uncov the edges S \cup {v} does not hit.
LEMMA UncoveredUpdated ==
  ASSUME NEW g, NEW S, NEW v
  PROVE  UpdatedUncov(g, Uncovered(g, S), v) = Uncovered(g, S \cup {v})
BY DEF UpdatedUncov, Uncovered, VertexHitting

\* RestoreCritAndUncov gives uncov back the edges the choice of v took.
LEMMA UncoveredRestored ==
  ASSUME NEW g, NEW S, NEW v
  PROVE  Uncovered(g, S \cup {v}) \cup NewCrit(g, Uncovered(g, S), v)
           = Uncovered(g, S)
BY DEF Uncovered, VertexHitting, NewCrit

\* The edges the choice of v takes from uncov are those v alone hits.
LEMMA CriticalNew ==
  ASSUME NEW g, NEW S, NEW v, v \notin S
  PROVE  NewCrit(g, Uncovered(g, S), v) = Critical(g, S \cup {v}, v)
BY DEF NewCrit, Uncovered, Critical, VertexHitting

\* An edge stays critical for u unless v hits it.
LEMMA CriticalUpdated ==
  ASSUME NEW g, NEW S, NEW v, v \notin S, NEW u \in S
  PROVE  Critical(g, S, u) \ VertexHitting(g, v) = Critical(g, S \cup {v}, u)
<1>1. u # v
  OBVIOUS
<1>2. ASSUME NEW e \in EdgeIds(g)
      PROVE  (g[e] \cap S = {u} /\ v \notin g[e])
               <=> g[e] \cap (S \cup {v}) = {u}
  BY <1>1
<1> QED
  BY <1>2 DEF Critical, VertexHitting

\* A set that hits every edge, each of its vertices one of them alone, is a
\* minimal hitting set.
LEMMA CriticalMinimal ==
  ASSUME NEW g, NEW S, S \subseteq Vertices(g),
         Uncovered(g, S) = {},
         \A u \in S : Critical(g, S, u) # {}
  PROVE  IsMinimalHittingSet(g, S)
<1>1. ASSUME NEW u \in S PROVE Uncovered(g, S \ {u}) # {}
  <2>1. PICK e \in EdgeIds(g) : g[e] \cap S = {u}
    BY DEF Critical
  <2>2. g[e] \cap (S \ {u}) = {}
    BY <2>1
  <2> QED
    BY <2>2 DEF Uncovered
<1> QED
  BY <1>1 DEF IsMinimalHittingSet

\* The shape of an updated crit.
LEMMA UpdatedCritProperties ==
  ASSUME NEW g, NEW E, NEW K \in Seq(SUBSET E),
         NEW U \in SUBSET E, NEW v
  PROVE  /\ Len(K) \in Nat
         /\ UpdatedCrit(g, K, U, v) \in Seq(SUBSET E)
         /\ Len(UpdatedCrit(g, K, U, v)) = Len(K) + 1
         /\ UpdatedCrit(g, K, U, v)[Len(K) + 1]
              = NewCrit(g, U, v)
         /\ \A i \in 1 .. Len(K) :
              UpdatedCrit(g, K, U, v)[i]
                = K[i] \ VertexHitting(g, v)
<1> DEFINE old == [i \in 1 .. Len(K) |-> K[i] \ VertexHitting(g, v)]
<1>1. Len(K) \in Nat
  OBVIOUS
<1>2. old \in Seq(SUBSET E) /\ Len(old) = Len(K)
  BY <1>1
<1>3. \A i \in 1 .. Len(K) : old[i] = K[i] \ VertexHitting(g, v)
  OBVIOUS
<1>4. NewCrit(g, U, v) \in SUBSET E
  BY DEF NewCrit
<1>5. UpdatedCrit(g, K, U, v) = Append(old, NewCrit(g, U, v))
  BY DEF UpdatedCrit
<1> HIDE DEF old
<1> QED
  BY <1>1, <1>2, <1>3, <1>4, <1>5

-----------------------------------------------------------------------------
(***************************************************************************)
(* Minimal covers.                                                         *)
(***************************************************************************)

\* The elements of crit are the critical edges of the vertices of C.
HoldsCritical(g, C, crit) ==
  {crit[k] : k \in 1 .. Len(crit)} = {Critical(g, C, u) : u \in C}

\* The more vertices, the fewer edges are left unhit.
LEMMA UncoveredProperties ==
  ASSUME NEW g, IsFiniteSet(EdgeIds(g)), NEW C
  PROVE  /\ IsFiniteSet(Uncovered(g, C))
         /\ Cardinality(Uncovered(g, C)) \in Nat
         /\ \A S : C \subseteq S =>
              Cardinality(Uncovered(g, S)) <= Cardinality(Uncovered(g, C))
<1>1. IsFiniteSet(Uncovered(g, C))
  <2>1. Uncovered(g, C) \in SUBSET EdgeIds(g)
    BY DEF Uncovered
  <2> QED
    BY <2>1, FS_Subset
<1>2. ASSUME NEW S, C \subseteq S
      PROVE  Cardinality(Uncovered(g, S)) <= Cardinality(Uncovered(g, C))
  <2>1. Uncovered(g, S) \in SUBSET Uncovered(g, C)
    BY <1>2 DEF Uncovered
  <2> QED
    BY <1>1, <2>1, FS_Subset
<1> QED
  BY <1>1, <1>2, FS_CardinalityType

\* With no tolerance the approximate covers are those that hit every edge.
LEMMA ExactCovers ==
  ASSUME NEW g, IsFiniteSet(EdgeIds(g)), NEW S
  PROVE  /\ IsApproximateCover(g, 0, S) <=> Uncovered(g, S) = {}
         /\ S \in MinimalCovers(g, 0) <=> IsMinimalHittingSet(g, S)
<1>1. ASSUME NEW T
      PROVE  IsApproximateCover(g, 0, T) <=> Uncovered(g, T) = {}
  <2>1. IsFiniteSet(Uncovered(g, T)) /\ Cardinality(Uncovered(g, T)) \in Nat
    BY UncoveredProperties
  <2>2. EdgeNum(g) \in Nat
    BY FS_CardinalityType DEF EdgeNum
  <2>3. Cardinality(Uncovered(g, T)) = 0 <=> Uncovered(g, T) = {}
    BY <2>1, FS_EmptySet
  <2>4. 0 * EdgeNum(g) = 0
    BY <2>2
  <2> QED
    BY <2>1, <2>3, <2>4 DEF IsApproximateCover
<1>2. \A T : IsApproximateCover(g, 0, T) <=> Uncovered(g, T) = {}
  BY <1>1
<1>3. S \in MinimalCovers(g, 0) <=> IsMinimalHittingSet(g, S)
  BY <1>2 DEF MinimalCovers, IsMinimalHittingSet
<1> QED
  BY <1>2, <1>3

\* What is above an approximate cover is one.
LEMMA ApproximateAbove ==
  ASSUME NEW g, IsFiniteSet(EdgeIds(g)), NEW theta \in Nat, NEW C, NEW S,
         C \subseteq S, IsApproximateCover(g, theta, C)
  PROVE  IsApproximateCover(g, theta, S)
<1>1. EdgeNum(g) \in Nat
  BY FS_CardinalityType DEF EdgeNum
<1>2. theta * EdgeNum(g) \in Nat
  BY <1>1
<1>3. /\ Cardinality(Uncovered(g, C)) \in Nat /\ Cardinality(Uncovered(g, S)) \in Nat
      /\ Cardinality(Uncovered(g, S)) <= Cardinality(Uncovered(g, C))
  BY UncoveredProperties
<1> DEFINE n == theta * EdgeNum(g)
           c == Cardinality(Uncovered(g, C))
           s == Cardinality(Uncovered(g, S))
<1>4. n \in Nat /\ c \in Nat /\ s \in Nat /\ s <= c /\ 100 * c <= n
  BY <1>2, <1>3 DEF IsApproximateCover
<1> HIDE DEF n, c, s
<1>5. 100 * s <= n
  BY <1>4
<1> QED
  BY <1>5 DEF IsApproximateCover, n, s

\* No minimal cover is strictly above an approximate cover.
LEMMA MinimalAbove ==
  ASSUME NEW g, IsFiniteSet(EdgeIds(g)), NEW theta \in Nat,
         NEW S \in MinimalCovers(g, theta), NEW C \in SUBSET S,
         IsApproximateCover(g, theta, C)
  PROVE  S = C
<1>1. ASSUME NEW u \in S \ C PROVE FALSE
  <2>1. C \subseteq S \ {u}
    OBVIOUS
  <2>2. IsApproximateCover(g, theta, S \ {u})
    BY <2>1, ApproximateAbove
  <2> QED
    BY <2>2 DEF MinimalCovers
<1> QED
  BY <1>1

\* Without u its critical edges are unhit, too.
LEMMA UncoveredWithout ==
  ASSUME NEW g, IsFiniteSet(EdgeIds(g)), NEW C, NEW u \in C
  PROVE  Cardinality(Uncovered(g, C \ {u}))
           = Cardinality(Uncovered(g, C)) + Cardinality(Critical(g, C, u))
<1> DEFINE A == Uncovered(g, C)
           B == Critical(g, C, u)
<1>1. Uncovered(g, C \ {u}) = A \cup B
  BY DEF Uncovered, Critical
<1>2. A \cap B = {}
  BY DEF Uncovered, Critical
<1>3. A \in SUBSET EdgeIds(g) /\ B \in SUBSET EdgeIds(g)
  BY DEF Uncovered, Critical
<1> HIDE DEF A, B
<1>4. IsFiniteSet(A) /\ IsFiniteSet(B)
  BY <1>3, FS_Subset
<1>5. Cardinality(A \cup B) = Cardinality(A) + Cardinality(B) - Cardinality(A \cap B)
  BY <1>4, FS_Union
<1>6. Cardinality(A) \in Nat /\ Cardinality(B) \in Nat /\ Cardinality(A \cap B) = 0
  BY <1>2, <1>4, FS_CardinalityType, FS_EmptySet
<1>7. Cardinality(A \cup B) = Cardinality(A) + Cardinality(B)
  BY <1>5, <1>6
<1> QED
  BY <1>1, <1>7 DEF A, B

\* An approximate cover is minimal if none of its vertices can be left out
\* without its critical edges costing the tolerance: what IsMinimal asks.
LEMMA MinimalByCritical ==
  ASSUME NEW g, IsFiniteSet(EdgeIds(g)), NEW theta \in Nat,
         NEW C \in SUBSET Vertices(g), IsApproximateCover(g, theta, C),
         NEW crit, HoldsCritical(g, C, crit)
  PROVE  C \in MinimalCovers(g, theta) <=>
           \A k \in 1 .. Len(crit) :
             ~(100 * (Cardinality(Uncovered(g, C)) + Cardinality(crit[k]))
                 <= theta * EdgeNum(g))
<1> DEFINE Spare(E) ==
      100 * (Cardinality(Uncovered(g, C)) + Cardinality(E)) <= theta * EdgeNum(g)
<1>1. ASSUME NEW u \in C
      PROVE  IsApproximateCover(g, theta, C \ {u}) <=> Spare(Critical(g, C, u))
  BY UncoveredWithout DEF IsApproximateCover
<1> HIDE DEF Spare
<1>2. C \in MinimalCovers(g, theta) <=> \A u \in C : ~Spare(Critical(g, C, u))
  BY <1>1 DEF MinimalCovers
<1>3. (\A u \in C : ~Spare(Critical(g, C, u)))
        <=> \A E \in {Critical(g, C, u) : u \in C} : ~Spare(E)
  OBVIOUS
<1>4. (\A k \in 1 .. Len(crit) : ~Spare(crit[k]))
        <=> \A E \in {crit[k] : k \in 1 .. Len(crit)} : ~Spare(E)
  OBVIOUS
<1>5. {crit[k] : k \in 1 .. Len(crit)} = {Critical(g, C, u) : u \in C}
  BY DEF HoldsCritical
<1>6. C \in MinimalCovers(g, theta) <=> \A k \in 1 .. Len(crit) : ~Spare(crit[k])
  BY <1>2, <1>3, <1>4, <1>5
<1> QED
  BY <1>6 DEF Spare

\* A vertex that would violate is in no minimal cover above C.
LEMMA ViolatingNotMinimal ==
  ASSUME NEW g, NEW theta, NEW C, NEW crit, HoldsCritical(g, C, crit),
         NEW w, w \notin C, VertexWouldViolate(g, crit, w),
         NEW S, C \cup {w} \subseteq S
  PROVE  S \notin MinimalCovers(g, theta)
<1>1. PICK k \in 1 .. Len(crit) : crit[k] \ VertexHitting(g, w) = {}
  BY DEF VertexWouldViolate
<1>2. PICK u \in C : crit[k] = Critical(g, C, u)
  BY DEF HoldsCritical
<1>3. Critical(g, C \cup {w}, u) = {}
  <2>1. Critical(g, C, u) \ VertexHitting(g, w) = Critical(g, C \cup {w}, u)
    BY CriticalUpdated
  <2> QED
    BY <1>1, <1>2, <2>1
<1>4. ASSUME NEW e \in Uncovered(g, S \ {u}) PROVE e \in Uncovered(g, S)
  <2> SUFFICES ASSUME u \in g[e] PROVE FALSE
    BY DEF Uncovered
  <2>1. e \in EdgeIds(g) /\ g[e] \cap (S \ {u}) = {}
    BY DEF Uncovered
  <2>2. g[e] \cap (C \cup {w}) = {u}
    BY <2>1
  <2> QED
    BY <1>3, <2>1, <2>2 DEF Critical
<1>5. Uncovered(g, S) \subseteq Uncovered(g, S \ {u})
  BY DEF Uncovered
<1>6. Uncovered(g, S \ {u}) = Uncovered(g, S)
  BY <1>4, <1>5
<1>7. IsApproximateCover(g, theta, S \ {u}) <=> IsApproximateCover(g, theta, S)
  BY <1>6 DEF IsApproximateCover
<1> QED
  BY <1>7 DEF MinimalCovers

\* crit after the choice of v.
LEMMA HoldsCriticalUpdated ==
  ASSUME NEW g, NEW C, NEW v, v \notin C,
         NEW crit \in Seq(SUBSET EdgeIds(g)), HoldsCritical(g, C, crit)
  PROVE  HoldsCritical(g, C \cup {v},
                       UpdatedCrit(g, crit, Uncovered(g, C), v))
<1> DEFINE U == Uncovered(g, C)
           new == UpdatedCrit(g, crit, U, v)
<1>1. U \in SUBSET EdgeIds(g)
  BY DEF Uncovered
<1>2. /\ Len(crit) \in Nat /\ Len(new) = Len(crit) + 1
      /\ new[Len(crit) + 1] = NewCrit(g, U, v)
      /\ \A i \in 1 .. Len(crit) : new[i] = crit[i] \ VertexHitting(g, v)
  <2> DEFINE old == [i \in 1 .. Len(crit) |-> crit[i] \ VertexHitting(g, v)]
  <2>1. Len(crit) \in Nat
    OBVIOUS
  <2>2. old \in Seq(SUBSET EdgeIds(g)) /\ Len(old) = Len(crit)
    BY <2>1
  <2>3. \A i \in 1 .. Len(crit) : old[i] = crit[i] \ VertexHitting(g, v)
    OBVIOUS
  <2>4. new = Append(old, NewCrit(g, U, v))
    BY DEF UpdatedCrit
  <2>5. NewCrit(g, U, v) \in SUBSET EdgeIds(g)
    BY <1>1 DEF NewCrit
  <2> HIDE DEF old, new, U
  <2> QED
    BY <2>1, <2>2, <2>3, <2>4, <2>5
<1> HIDE DEF new
<1>3. new[Len(crit) + 1] = Critical(g, C \cup {v}, v)
  BY <1>2, CriticalNew
<1> HIDE DEF U
<1>4. \A u \in C : Critical(g, C \cup {v}, u) = Critical(g, C, u) \ VertexHitting(g, v)
  BY CriticalUpdated
<1>5. ASSUME NEW i \in 1 .. Len(new)
      PROVE  \E u \in C \cup {v} : new[i] = Critical(g, C \cup {v}, u)
  <2>1. CASE i = Len(crit) + 1
    BY <1>3, <2>1
  <2>2. CASE i \in 1 .. Len(crit)
    <3>1. PICK u \in C : crit[i] = Critical(g, C, u)
      BY <2>2 DEF HoldsCritical
    <3> QED
      BY <1>2, <1>4, <2>2, <3>1
  <2>3. i = Len(crit) + 1 \/ i \in 1 .. Len(crit)
    BY <1>2
  <2> QED
    BY <2>1, <2>2, <2>3
<1>6. ASSUME NEW u \in C \cup {v}
      PROVE  \E i \in 1 .. Len(new) : new[i] = Critical(g, C \cup {v}, u)
  <2>1. CASE u = v
    BY <1>2, <1>3, <2>1
  <2>2. CASE u \in C
    <3>1. Critical(g, C, u) \in {crit[k] : k \in 1 .. Len(crit)}
      BY <2>2 DEF HoldsCritical
    <3>2. PICK i \in 1 .. Len(crit) : crit[i] = Critical(g, C, u)
      BY <3>1
    <3>3. i \in 1 .. Len(new)
      BY <1>2
    <3> QED
      BY <1>2, <1>4, <2>2, <3>2, <3>3
  <2> QED
    BY <2>1, <2>2
<1> QED
  BY <1>5, <1>6 DEF HoldsCritical, new, U

-----------------------------------------------------------------------------
(***************************************************************************)
(* What is ahead of an activation.  s are the activations of a search, the *)
(* outermost first, each with the candidates cand, the vertices todo it    *)
(* has still to try, its crit, the vertex v it has chosen, if any, and the *)
(* edges back that v took from uncov; cur are all the vertices chosen.     *)
(***************************************************************************)

\* The cover activation i of s was called with.
Left(cur, s, i) == cur \ {s[j].v : j \in i .. Len(s)}

\* The sets that activation i is still to try after the call it waits for:
\* they have some vertex of todo.
Ahead(cur, s, i) ==
  {S \in SUBSET (Left(cur, s, i + 1) \cup s[i].cand \cup s[i].todo) :
     Left(cur, s, i) \subseteq S /\ S \cap s[i].todo # {}}

\* The sets that a call with the cover cur and the candidates cand tries.
Within(cur, cand) == {S \in SUBSET (cur \cup cand) : cur \subseteq S}

\* Activation i can choose no vertex twice, its crit is exact, and it
\* remembers what its choice took from uncov.
FrameOK(g, cur, s, i) ==
  /\ s[i].cand \cap s[i].todo = {}
  /\ Left(cur, s, i + 1) \cap (s[i].cand \cup s[i].todo) = {}
  /\ HoldsCritical(g, Left(cur, s, i), s[i].crit)
  /\ IF s[i].v = NoVertex THEN s[i].back = {}
     ELSE /\ s[i].v \in Left(cur, s, i + 1)
          /\ s[i].back = NewCrit(g, Uncovered(g, Left(cur, s, i)), s[i].v)

\* The innermost activation was called with the vertices not its own.
LEMMA LeftTop ==
  ASSUME NEW F, NEW s \in Seq(F), NEW cur
  PROVE  /\ Left(cur, s, Len(s) + 1) = cur
         /\ Left(cur, s, Len(s)) = cur \ {s[Len(s)].v}
<1>1. Len(s) \in Nat
  OBVIOUS
<1>2. (Len(s) + 1) .. Len(s) = {} /\ Len(s) .. Len(s) = {Len(s)}
  BY <1>1
<1> QED
  BY <1>2 DEF Left

\* A call adds an activation that has chosen nothing.
LEMMA LeftPushed ==
  ASSUME NEW F, NEW s \in Seq(F), NEW f \in F, NEW cur, f.v \notin cur
  PROVE  /\ \A i \in 1 .. Len(s) + 1 : Left(cur, Append(s, f), i) = Left(cur, s, i)
         /\ Left(cur, Append(s, f), Len(s) + 2) = cur
<1> DEFINE t == Append(s, f)
<1>1. /\ Len(s) \in Nat /\ Len(t) = Len(s) + 1 /\ t[Len(s) + 1] = f
      /\ \A i \in 1 .. Len(s) : t[i] = s[i]
  BY PushProperties
<1>2. ASSUME NEW i \in 1 .. Len(s) + 1
      PROVE  {t[j].v : j \in i .. Len(t)}
               = {s[j].v : j \in i .. Len(s)} \cup {f.v}
  <2>1. i .. Len(t) = (i .. Len(s)) \cup {Len(s) + 1}
    BY <1>1
  <2>2. \A j \in i .. Len(s) : j \in 1 .. Len(s)
    BY <1>1
  <2> QED
    BY <1>1, <2>1, <2>2
<1>3. (Len(s) + 2) .. Len(t) = {}
  BY <1>1
<1> QED
  BY <1>2, <1>3 DEF Left

\* A change of the innermost activation that changes cur by its choice only.
LEMMA LeftWithTop ==
  ASSUME NEW F, NEW s \in Seq(F), s # <<>>, NEW f \in F, NEW cur, NEW cur2,
         cur2 \ {f.v} = cur \ {s[Len(s)].v},
         NEW t, t = WithTop(s, f)
  PROVE  /\ \A i \in 1 .. Len(s) : Left(cur2, t, i) = Left(cur, s, i)
         /\ Left(cur2, t, Len(s) + 1) = cur2
<1>1. /\ Len(s) \in Nat /\ Len(s) \in 1 .. Len(s)
      /\ Len(t) = Len(s) /\ t[Len(s)] = f
      /\ \A i \in 1 .. Len(s) - 1 : t[i] = s[i]
  <2>1. Len(s) \in Nat /\ Len(s) \in 1 .. Len(s)
    BY TopProperties
  <2>2. /\ WithTop(s, f) \in Seq(F)
        /\ Len(WithTop(s, f)) = Len(s)
        /\ WithTop(s, f)[Len(s)] = f
        /\ \A i \in 1 .. Len(s) - 1 : WithTop(s, f)[i] = s[i]
        /\ WithTop(s, f) # <<>>
    <3>1. s # <<>>
      OBVIOUS
    <3> QED
      BY ONLY <3>1, WithTopProperties
  <2> QED
    BY <2>1, <2>2
<1>2. ASSUME NEW i \in 1 .. Len(s)
      PROVE  Left(cur2, t, i) = Left(cur, s, i)
  <2> DEFINE rest == {s[j].v : j \in i .. Len(s) - 1}
  <2>1. i .. Len(s) = (i .. Len(s) - 1) \cup {Len(s)}
    BY <1>1
  <2>2. \A j \in i .. Len(s) - 1 : j \in 1 .. Len(s) - 1
    BY <1>1
  <2>3. {s[j].v : j \in i .. Len(s)} = rest \cup {s[Len(s)].v}
    BY <2>1
  <2>4. {t[j].v : j \in i .. Len(s)} = rest \cup {f.v}
    BY <1>1, <2>1, <2>2
  <2> HIDE DEF rest
  <2>5. cur2 \ (rest \cup {f.v}) = cur \ (rest \cup {s[Len(s)].v})
    OBVIOUS
  <2> QED
    BY <1>1, <2>3, <2>4, <2>5 DEF Left
<1>3. (Len(s) + 1) .. Len(t) = {}
  BY <1>1
<1> QED
  BY <1>2, <1>3 DEF Left

\* The return of an activation that has no choice left in cur.
LEMMA LeftPopped ==
  ASSUME NEW F, NEW s \in Seq(F), s # <<>>, NEW cur, s[Len(s)].v \notin cur,
         NEW t, t = Popped(s)
  PROVE  \A i \in 1 .. Len(s) : Left(cur, t, i) = Left(cur, s, i)
<1>1. /\ Len(s) \in Nat /\ Len(s) \in 1 .. Len(s)
      /\ Len(t) = Len(s) - 1
      /\ \A i \in 1 .. Len(s) - 1 : t[i] = s[i]
  BY TopProperties, PoppedProperties
<1>2. ASSUME NEW i \in 1 .. Len(s)
      PROVE  Left(cur, t, i) = Left(cur, s, i)
  <2>1. i .. Len(s) = (i .. Len(s) - 1) \cup {Len(s)}
    BY <1>1
  <2>2. \A j \in i .. Len(s) - 1 : j \in 1 .. Len(s) - 1
    BY <1>1
  <2>3. {s[j].v : j \in i .. Len(s)}
          = {t[j].v : j \in i .. Len(t)} \cup {s[Len(s)].v}
    BY <1>1, <2>1, <2>2
  <2> QED
    BY <2>3 DEF Left
<1> QED
  BY <1>2

\* An activation that is not touched.
LEMMA FrameUnchanged ==
  ASSUME NEW g, NEW cur, NEW s, NEW cur2, NEW t, NEW i,
         t[i] = s[i], Left(cur2, t, i) = Left(cur, s, i),
         Left(cur2, t, i + 1) = Left(cur, s, i + 1)
  PROVE  /\ FrameOK(g, cur2, t, i) <=> FrameOK(g, cur, s, i)
         /\ Ahead(cur2, t, i) = Ahead(cur, s, i)
BY DEF FrameOK, Ahead

\* The cover an activation was called with are the vertices chosen before.
LEMMA LeftIsChosen ==
  ASSUME NEW g, NEW s, Len(s) \in Nat, NEW cur, cur = ChosenBefore(s, Len(s) + 1),
         \A i \in 1 .. Len(s) : FrameOK(g, cur, s, i)
  PROVE  \A i \in 1 .. Len(s) + 1 : Left(cur, s, i) = ChosenBefore(s, i)
<1> DEFINE d == Len(s)
<1>1. ASSUME NEW i \in 1 .. d + 1, NEW u
      PROVE  u \in Left(cur, s, i) <=> u \in ChosenBefore(s, i)
  <2>1. ASSUME u \in Left(cur, s, i) PROVE u \in ChosenBefore(s, i)
    <3>1. PICK k \in 1 .. (d + 1) - 1 : u = s[k].v /\ u # NoVertex
      BY <2>1 DEF Left, ChosenBefore
    <3>2. ~(k \in i .. d)
      BY <2>1, <3>1 DEF Left
    <3>3. k \in 1 .. i - 1
      BY <3>2
    <3> QED
      BY <3>1, <3>3 DEF ChosenBefore
  <2>2. ASSUME u \in ChosenBefore(s, i) PROVE u \in Left(cur, s, i)
    <3>1. PICK k \in 1 .. i - 1 : u = s[k].v /\ u # NoVertex
      BY <2>2 DEF ChosenBefore
    <3>2. /\ k \in 1 .. d /\ k \in 1 .. (d + 1) - 1
          /\ \A j \in i .. d : j \in (k + 1) .. d
      BY <3>1
    <3>3. u \in Left(cur, s, k + 1)
      <4>1. FrameOK(g, cur, s, k)
        BY <3>2
      <4> QED
        BY <3>1, <4>1 DEF FrameOK
    <3>4. u \notin {s[j].v : j \in i .. d}
      BY <3>2, <3>3 DEF Left
    <3>5. u \in cur
      BY <3>3 DEF Left
    <3> QED
      BY <3>4, <3>5 DEF Left
  <2> QED
    BY <2>1, <2>2
<1> QED
  BY <1>1

-----------------------------------------------------------------------------
(***************************************************************************)
(* The whole search: what the activations have ahead, and the sets a call  *)
(* not yet entered, or made by the innermost of them, tries.  Each step    *)
(* splits one of these regions, so that no set is tried twice.             *)
(***************************************************************************)

\* No set is ahead of two activations, or of one and the call.
NoOverlap(cur, s, calls) ==
  /\ \A i \in 1 .. Len(s) : Ahead(cur, s, i) \cap calls = {}
  /\ \A i, j \in 1 .. Len(s) : i # j => Ahead(cur, s, i) \cap Ahead(cur, s, j) = {}

\* All that is left to try.
Whole(cur, s, calls) == calls \cup UNION {Ahead(cur, s, i) : i \in 1 .. Len(s)}

\* Nothing is left to try that was not before, nothing twice, and at most
\* what is lost is forgotten.
Narrowed(cur, s, calls, cur2, t, calls2, lost) ==
  /\ NoOverlap(cur, s, calls) => NoOverlap(cur2, t, calls2)
  /\ Whole(cur2, t, calls2) \subseteq Whole(cur, s, calls)
  /\ Whole(cur, s, calls) \subseteq Whole(cur2, t, calls2) \cup lost

\* What a step does, and it keeps every activation in order.
Stepped(g, cur, s, calls, cur2, t, calls2, lost) ==
  /\ \A i \in 1 .. Len(t) : FrameOK(g, cur2, t, i)
  /\ Narrowed(cur, s, calls, cur2, t, calls2, lost)

\* What is lost when the innermost activation passes over the vertices W.
Passed(cur, s, W) == {S \in Ahead(cur, s, Len(s)) : S \cap W # {}}

\* The call is entered: what it was to try, its activation and the call that
\* this one makes now try.
LEMMA SplitCall ==
  ASSUME NEW cur, NEW s, NEW calls, NEW cur2, NEW t, NEW calls2, NEW lost,
         Len(s) \in Nat, Len(t) = Len(s) + 1,
         \A i \in 1 .. Len(s) : Ahead(cur2, t, i) = Ahead(cur, s, i),
         Ahead(cur2, t, Len(s) + 1) \cup calls2 \subseteq calls,
         Ahead(cur2, t, Len(s) + 1) \cap calls2 = {},
         calls \ (Ahead(cur2, t, Len(s) + 1) \cup calls2) \subseteq lost
  PROVE  Narrowed(cur, s, calls, cur2, t, calls2, lost)
<1> DEFINE d == Len(s)
           A(i) == Ahead(cur, s, i)
           B(i) == Ahead(cur2, t, i)
<1>1. /\ d \in Nat
      /\ \A i \in 1 .. Len(t) : i \in 1 .. d \/ i = d + 1
      /\ \A i \in 1 .. d : i \in 1 .. Len(t) /\ i # d + 1
      /\ d + 1 \in 1 .. Len(t)
  OBVIOUS
<1>2. /\ \A i \in 1 .. d : B(i) = A(i)
      /\ B(d + 1) \cup calls2 \subseteq calls /\ B(d + 1) \cap calls2 = {}
  OBVIOUS
<1>4. ASSUME NoOverlap(cur, s, calls) PROVE NoOverlap(cur2, t, calls2)
  <2>1. /\ \A i \in 1 .. d : A(i) \cap calls = {}
        /\ \A i, j \in 1 .. d : i # j => A(i) \cap A(j) = {}
    BY <1>4 DEF NoOverlap
  <2> HIDE DEF d, A, B
  <2>2. \A i \in 1 .. Len(t) : B(i) \cap calls2 = {}
    BY <1>1, <1>2, <2>1
  <2>3. \A i, j \in 1 .. Len(t) : i # j => B(i) \cap B(j) = {}
    BY <1>1, <1>2, <2>1
  <2> QED
    BY <2>2, <2>3 DEF NoOverlap, B
<1>5. Whole(cur, s, calls) = calls \cup UNION {A(i) : i \in 1 .. d}
  BY DEF Whole
<1>6. Whole(cur2, t, calls2) = calls2 \cup B(d + 1) \cup UNION {A(i) : i \in 1 .. d}
  <2>1. Whole(cur2, t, calls2) = calls2 \cup UNION {B(i) : i \in 1 .. Len(t)}
    BY DEF Whole
  <2> HIDE DEF d, A, B
  <2>2. UNION {B(i) : i \in 1 .. Len(t)} = B(d + 1) \cup UNION {A(i) : i \in 1 .. d}
    BY <1>1, <1>2
  <2> QED
    BY <2>1, <2>2
<1> HIDE DEF d, A, B
<1>7. Whole(cur2, t, calls2) \subseteq Whole(cur, s, calls)
  BY <1>2, <1>5, <1>6
<1>8. calls \ (B(d + 1) \cup calls2) \subseteq lost
  BY DEF B, d
<1>9. Whole(cur, s, calls) \subseteq Whole(cur2, t, calls2) \cup lost
  BY <1>5, <1>6, <1>8
<1> QED
  BY <1>4, <1>7, <1>9 DEF Narrowed

\* The innermost activation makes a call, or passes over vertices.
LEMMA SplitTop ==
  ASSUME NEW cur, NEW s, NEW cur2, NEW t, NEW calls2, NEW lost,
         Len(s) \in Nat \ {0}, Len(t) = Len(s),
         \A i \in 1 .. Len(s) - 1 : Ahead(cur2, t, i) = Ahead(cur, s, i),
         Ahead(cur2, t, Len(s)) \cup calls2 \subseteq Ahead(cur, s, Len(s)),
         Ahead(cur2, t, Len(s)) \cap calls2 = {},
         Ahead(cur, s, Len(s)) \ (Ahead(cur2, t, Len(s)) \cup calls2) \subseteq lost
  PROVE  Narrowed(cur, s, {}, cur2, t, calls2, lost)
<1> DEFINE d == Len(s)
           A(i) == Ahead(cur, s, i)
           B(i) == Ahead(cur2, t, i)
<1>1. /\ d \in Nat /\ Len(t) = d
      /\ \A i \in 1 .. d : i \in 1 .. d - 1 \/ i = d
      /\ \A i \in 1 .. d - 1 : i \in 1 .. d /\ i # d
      /\ d \in 1 .. d
  OBVIOUS
<1>2. /\ \A i \in 1 .. d - 1 : B(i) = A(i)
      /\ B(d) \cup calls2 \subseteq A(d) /\ B(d) \cap calls2 = {}
  OBVIOUS
<1>4. ASSUME NoOverlap(cur, s, {}) PROVE NoOverlap(cur2, t, calls2)
  <2>1. \A i, j \in 1 .. d : i # j => A(i) \cap A(j) = {}
    BY <1>4 DEF NoOverlap
  <2> HIDE DEF d, A, B
  <2>2. \A i \in 1 .. d : B(i) \cap calls2 = {}
    BY <1>1, <1>2, <2>1
  <2>3. \A i, j \in 1 .. d : i # j => B(i) \cap B(j) = {}
    BY <1>1, <1>2, <2>1
  <2> QED
    BY <1>1, <2>2, <2>3 DEF NoOverlap, B
<1>5. /\ Whole(cur, s, {}) = A(d) \cup UNION {A(i) : i \in 1 .. d - 1}
      /\ Whole(cur2, t, calls2)
           = calls2 \cup B(d) \cup UNION {A(i) : i \in 1 .. d - 1}
  <2>1. /\ Whole(cur, s, {}) = UNION {A(i) : i \in 1 .. d}
        /\ Whole(cur2, t, calls2) = calls2 \cup UNION {B(i) : i \in 1 .. d}
    BY DEF Whole
  <2> HIDE DEF d, A, B
  <2>2. /\ UNION {A(i) : i \in 1 .. d} = A(d) \cup UNION {A(i) : i \in 1 .. d - 1}
        /\ UNION {B(i) : i \in 1 .. d} = B(d) \cup UNION {A(i) : i \in 1 .. d - 1}
    BY <1>1, <1>2
  <2> QED
    BY <2>1, <2>2
<1> HIDE DEF d, A, B
<1>6. Whole(cur2, t, calls2) \subseteq Whole(cur, s, {})
  BY <1>2, <1>5
<1>7. A(d) \ (B(d) \cup calls2) \subseteq lost
  BY DEF A, B, d
<1>8. Whole(cur, s, {}) \subseteq Whole(cur2, t, calls2) \cup lost
  BY <1>5, <1>7
<1> QED
  BY <1>4, <1>6, <1>8 DEF Narrowed

\* Nothing changes in what is ahead.
LEMMA SameWhole ==
  ASSUME NEW cur, NEW s, NEW cur2, NEW t, NEW calls, Len(t) = Len(s),
         \A i \in 1 .. Len(s) : Ahead(cur2, t, i) = Ahead(cur, s, i)
  PROVE  Narrowed(cur, s, calls, cur2, t, calls, {})
<1>1. {Ahead(cur2, t, i) : i \in 1 .. Len(t)} = {Ahead(cur, s, i) : i \in 1 .. Len(s)}
  OBVIOUS
<1>2. Whole(cur2, t, calls) = Whole(cur, s, calls)
  BY <1>1 DEF Whole
<1> QED
  BY <1>2 DEF NoOverlap, Narrowed

\* The innermost activation is gone; calls is what its last call tries.
LEMMA DropTop ==
  ASSUME NEW cur, NEW s, NEW t, NEW calls, NEW lost,
         Len(s) \in Nat \ {0}, Len(t) = Len(s) - 1,
         \A i \in 1 .. Len(s) - 1 : Ahead(cur, t, i) = Ahead(cur, s, i),
         Ahead(cur, s, Len(s)) \subseteq lost
  PROVE  Narrowed(cur, s, calls, cur, t, calls, lost)
<1> DEFINE d == Len(s)
           A(i) == Ahead(cur, s, i)
           B(i) == Ahead(cur, t, i)
<1>1. /\ d \in Nat /\ Len(t) = d - 1
      /\ \A i \in 1 .. d : i \in 1 .. d - 1 \/ i = d
      /\ \A i \in 1 .. d - 1 : i \in 1 .. d
      /\ d \in 1 .. d
  OBVIOUS
<1>2. \A i \in 1 .. d - 1 : B(i) = A(i)
  OBVIOUS
<1>4. ASSUME NoOverlap(cur, s, calls) PROVE NoOverlap(cur, t, calls)
  <2>1. /\ \A i \in 1 .. d : A(i) \cap calls = {}
        /\ \A i, j \in 1 .. d : i # j => A(i) \cap A(j) = {}
    BY <1>4 DEF NoOverlap
  <2> HIDE DEF d, A, B
  <2>2. \A i \in 1 .. d - 1 : B(i) \cap calls = {}
    BY <1>1, <1>2, <2>1
  <2>3. \A i, j \in 1 .. d - 1 : i # j => B(i) \cap B(j) = {}
    BY <1>1, <1>2, <2>1
  <2> QED
    BY <1>1, <2>2, <2>3 DEF NoOverlap, B
<1>5. /\ Whole(cur, s, calls) = calls \cup A(d) \cup UNION {A(i) : i \in 1 .. d - 1}
      /\ Whole(cur, t, calls) = calls \cup UNION {A(i) : i \in 1 .. d - 1}
  <2>1. /\ Whole(cur, s, calls) = calls \cup UNION {A(i) : i \in 1 .. d}
        /\ Whole(cur, t, calls) = calls \cup UNION {B(i) : i \in 1 .. d - 1}
    BY <1>1 DEF Whole
  <2> HIDE DEF d, A, B
  <2>2. /\ UNION {A(i) : i \in 1 .. d} = A(d) \cup UNION {A(i) : i \in 1 .. d - 1}
        /\ UNION {B(i) : i \in 1 .. d - 1} = UNION {A(i) : i \in 1 .. d - 1}
    BY <1>1, <1>2
  <2> QED
    BY <2>1, <2>2
<1>6. A(d) \subseteq lost
  BY DEF A, d
<1> HIDE DEF d, A, B
<1> QED
  BY <1>4, <1>5, <1>6 DEF Narrowed

\* A call with the candidates cand of a set: what it is to try is what it
\* tries after the call it makes with the candidates outside c, and what
\* that call tries.
LEMMA PushStep ==
  ASSUME NEW g, NEW F, NEW s \in Seq(F), NEW cur, NoVertex \notin cur,
         NEW cand, cand \cap cur = {},
         NEW crit, HoldsCritical(g, cur, crit),
         NEW c \in SUBSET cand,
         NEW f \in F, f.cand = cand \ c, f.todo = c, f.crit = crit,
         f.v = NoVertex, f.back = {},
         \A i \in 1 .. Len(s) : FrameOK(g, cur, s, i),
         NEW calls2 \in SUBSET Within(cur, cand \ c)
  PROVE  Stepped(g, cur, s, Within(cur, cand), cur, Append(s, f), calls2,
                 Within(cur, cand \ c) \ calls2)
<1> DEFINE t == Append(s, f)
           d == Len(s)
<1>1. d \in Nat /\ Len(t) = d + 1 /\ t[d + 1] = f /\ \A i \in 1 .. d : t[i] = s[i]
  BY PushProperties
<1>2. /\ \A i \in 1 .. d + 1 : Left(cur, t, i) = Left(cur, s, i)
      /\ Left(cur, t, d + 2) = cur /\ Left(cur, s, d + 1) = cur
  <2>1. f.v \notin cur /\ t = Append(s, f)
    OBVIOUS
  <2>2. /\ \A i \in 1 .. Len(s) + 1 : Left(cur, t, i) = Left(cur, s, i)
        /\ Left(cur, t, Len(s) + 2) = cur
    <3>1. f.v \notin cur
      BY <2>1
    <3>2. /\ \A i \in 1 .. Len(s) + 1 : Left(cur, Append(s, f), i) = Left(cur, s, i)
          /\ Left(cur, Append(s, f), Len(s) + 2) = cur
      BY ONLY <3>1, LeftPushed
    <3> QED
      BY ONLY <2>1, <3>2
  <2>3. Left(cur, s, Len(s) + 1) = cur
    BY ONLY LeftTop
  <2> QED
    BY <2>2, <2>3
<1> HIDE DEF d
<1>3. Left(cur, t, d + 1) = cur /\ Left(cur, t, (d + 1) + 1) = cur
  BY <1>1, <1>2
<1>4. ASSUME NEW i \in 1 .. d
      PROVE  FrameOK(g, cur, t, i) /\ Ahead(cur, t, i) = Ahead(cur, s, i)
  <2>1. i \in 1 .. d + 1 /\ i + 1 \in 1 .. d + 1
    BY <1>1
  <2>2. t[i] = s[i] /\ Left(cur, t, i) = Left(cur, s, i)
        /\ Left(cur, t, i + 1) = Left(cur, s, i + 1)
    BY <1>1, <1>2, <2>1
  <2>3. FrameOK(g, cur, s, i)
    BY DEF d
  <2> HIDE DEF t
  <2> QED
    BY ONLY <2>2, <2>3, FrameUnchanged
<1>5. FrameOK(g, cur, t, d + 1)
  BY <1>1, <1>3 DEF FrameOK
<1>6. Ahead(cur, t, d + 1) = {S \in SUBSET (cur \cup cand) :
                                cur \subseteq S /\ S \cap c # {}}
  <2>1. cur \cup (cand \ c) \cup c = cur \cup cand
    OBVIOUS
  <2> QED
    BY <1>1, <1>3, <2>1 DEF Ahead
<1>7. \A S \in SUBSET (cur \cup cand) :
        S \cap c = {} <=> S \in SUBSET (cur \cup (cand \ c))
  OBVIOUS
<1>8. \A i \in 1 .. d + 1 : i \in 1 .. d \/ i = d + 1
  BY <1>1
<1>9. \A i \in 1 .. Len(t) : FrameOK(g, cur, t, i)
  BY <1>1, <1>4, <1>5, <1>8
<1> DEFINE calls == Within(cur, cand)
<1>10. /\ Ahead(cur, t, d + 1) \cup Within(cur, cand \ c) = calls
       /\ Ahead(cur, t, d + 1) \cap Within(cur, cand \ c) = {}
  BY <1>6, <1>7 DEF Within
<1> DEFINE lost == Within(cur, cand \ c) \ calls2
<1>11. calls \ (Ahead(cur, t, d + 1) \cup calls2) \subseteq lost
  BY <1>10
<1> HIDE DEF calls, t, lost
<1>12. Narrowed(cur, s, calls, cur, t, calls2, lost)
  <2>1. /\ Len(s) \in Nat /\ Len(t) = Len(s) + 1
        /\ \A i \in 1 .. Len(s) : Ahead(cur, t, i) = Ahead(cur, s, i)
        /\ Ahead(cur, t, Len(s) + 1) \cup calls2 \subseteq calls
        /\ Ahead(cur, t, Len(s) + 1) \cap calls2 = {}
        /\ calls \ (Ahead(cur, t, Len(s) + 1) \cup calls2) \subseteq lost
    BY <1>1, <1>4, <1>10, <1>11 DEF d
  <2> QED
    BY ONLY <2>1, SplitCall
<1>13. Stepped(g, cur, s, calls, cur, t, calls2, lost)
  BY ONLY <1>9, <1>12 DEF Stepped
<1> QED
  BY <1>13 DEF calls, t, lost

\* The innermost activation, a, becomes f as it chooses v, keeping some of the
\* other vertices of todo; then cur2 are the vertices chosen, crit is what it
\* calls with, and over the vertices passed it has passed.
Chooses(g, cur, a, v, f, cur2, crit, passed) ==
  /\ a.v = NoVertex /\ a.crit \in Seq(SUBSET EdgeIds(g))
  /\ v \in a.todo /\ v # NoVertex
  /\ f.cand = a.cand /\ f.todo \subseteq a.todo \ {v} /\ f.crit = a.crit
  /\ f.v = v /\ f.back = NewCrit(g, Uncovered(g, cur), v)
  /\ cur2 = cur \cup {v}
  /\ crit = UpdatedCrit(g, a.crit, Uncovered(g, cur), v)
  /\ passed = a.todo \ (f.todo \cup {v})

\* A call may be entered with these arguments.
CallReady(g, cur, cand, crit) == cand \cap cur = {} /\ HoldsCritical(g, cur, crit)

\* What the innermost activation a leaves when it takes back its vertex.
TakenBack(g, cur, a, cur2) ==
  /\ cur2 = Flip(cur, a.v)
  /\ Uncovered(g, cur2) = Uncovered(g, cur) \cup a.back

\* The innermost activation chooses v of todo and calls with its candidates;
\* of the other vertices of todo it keeps those in R and passes over some
\* that would violate.  What it was to try is what it tries after the call
\* and what the call tries, but for sets that are not minimal.
LEMMA ChooseStep ==
  ASSUME NEW g, NEW F, NEW s \in Seq(F), s # <<>>,
         NEW cur, NoVertex \notin cur,
         \A i \in 1 .. Len(s) : FrameOK(g, cur, s, i),
         NEW a, a = s[Len(s)], NEW f \in F, NEW v, NEW cur2, NEW crit, NEW W,
         Chooses(g, cur, a, v, f, cur2, crit, W)
  PROVE  /\ v \notin cur
         /\ CallReady(g, cur2, a.cand, crit)
         /\ Stepped(g, cur, s, {}, cur2, WithTop(s, f), Within(cur2, a.cand),
                    Passed(cur, s, W))
<1> DEFINE t == WithTop(s, f)
           d == Len(s)
           R == f.todo
<1>0. /\ a.v = NoVertex /\ a.crit \in Seq(SUBSET EdgeIds(g))
      /\ v \in a.todo /\ v # NoVertex
      /\ f.cand = a.cand /\ R \subseteq a.todo \ {v} /\ f.crit = a.crit
      /\ f.v = v /\ f.back = NewCrit(g, Uncovered(g, cur), v)
      /\ cur2 = cur \cup {v}
      /\ crit = UpdatedCrit(g, a.crit, Uncovered(g, cur), v)
      /\ W = a.todo \ (R \cup {v})
  BY DEF Chooses
<1> USE <1>0
<1>1. /\ d \in Nat /\ d \in 1 .. d /\ Len(t) = d /\ t[d] = f
      /\ \A i \in 1 .. d - 1 : t[i] = s[i]
  <2>1. d \in Nat /\ d \in 1 .. d
    BY TopProperties
  <2>2. /\ WithTop(s, f) \in Seq(F)
        /\ Len(WithTop(s, f)) = Len(s)
        /\ WithTop(s, f)[Len(s)] = f
        /\ \A i \in 1 .. Len(s) - 1 : WithTop(s, f)[i] = s[i]
        /\ WithTop(s, f) # <<>>
    <3>1. s # <<>>
      OBVIOUS
    <3> QED
      BY ONLY <3>1, WithTopProperties
  <2> QED
    BY <2>1, <2>2
<1>2. Left(cur, s, d + 1) = cur /\ Left(cur, s, d) = cur
  <2>1. Left(cur, s, Len(s) + 1) = cur /\ Left(cur, s, Len(s)) = cur \ {s[Len(s)].v}
    BY ONLY LeftTop
  <2>2. s[Len(s)].v \notin cur
    OBVIOUS
  <2> QED
    BY ONLY <2>1, <2>2
<1>3. FrameOK(g, cur, s, d)
  BY <1>1
<1>4. /\ a.cand \cap a.todo = {} /\ cur \cap (a.cand \cup a.todo) = {}
      /\ HoldsCritical(g, cur, a.crit)
  BY <1>2, <1>3 DEF FrameOK
<1>5. v \notin cur /\ a.cand \cap cur2 = {} /\ R \cap cur2 = {}
  BY <1>4
<1>6. cur2 \ {f.v} = cur \ {s[Len(s)].v}
  BY <1>5
<1>7. /\ \A i \in 1 .. d : Left(cur2, t, i) = Left(cur, s, i)
      /\ Left(cur2, t, d + 1) = cur2
  <2>1. s # <<>> /\ t = WithTop(s, f)
    OBVIOUS
  <2> HIDE DEF t
  <2> QED
    BY ONLY <1>6, <2>1, LeftWithTop
<1>8. ASSUME NEW i \in 1 .. d - 1
      PROVE  FrameOK(g, cur2, t, i) /\ Ahead(cur2, t, i) = Ahead(cur, s, i)
  <2>1. i \in 1 .. d /\ i + 1 \in 1 .. d
    BY <1>1
  <2>2. t[i] = s[i] /\ Left(cur2, t, i) = Left(cur, s, i)
        /\ Left(cur2, t, i + 1) = Left(cur, s, i + 1)
    BY <1>1, <1>7, <2>1
  <2>3. FrameOK(g, cur, s, i)
    BY <2>1
  <2> HIDE DEF t
  <2> QED
    BY ONLY <2>2, <2>3, FrameUnchanged
<1>9. Left(cur2, t, d) = cur /\ Left(cur2, t, d + 1) = cur2
  BY <1>1, <1>2, <1>7
<1> HIDE DEF d
<1>10. FrameOK(g, cur2, t, d)
  <2>1. /\ f.cand = a.cand /\ f.todo = R /\ f.crit = a.crit /\ f.v = v
        /\ f.back = NewCrit(g, Uncovered(g, cur), v) /\ v \in cur2
        /\ v # NoVertex
    OBVIOUS
  <2>2. a.cand \cap R = {} /\ cur2 \cap (a.cand \cup R) = {}
    BY <1>4, <1>5
  <2> QED
    BY ONLY <1>1, <1>4, <1>9, <2>1, <2>2 DEF FrameOK
<1>11. HoldsCritical(g, cur2, UpdatedCrit(g, a.crit, Uncovered(g, cur), v))
  BY <1>4, <1>5, HoldsCriticalUpdated
<1>12. /\ Ahead(cur, s, d) =
            {S \in SUBSET (cur \cup a.cand \cup a.todo) :
               cur \subseteq S /\ S \cap a.todo # {}}
       /\ Ahead(cur2, t, d) =
            {S \in SUBSET (cur2 \cup a.cand \cup R) :
               cur \subseteq S /\ S \cap R # {}}
  <2>1. s[d] = a /\ t[d].cand = a.cand /\ t[d].todo = R
    BY <1>1 DEF d
  <2> QED
    BY ONLY <1>2, <1>9, <2>1 DEF Ahead
<1>13. Ahead(cur2, t, d) \cup Within(cur2, a.cand) \subseteq Ahead(cur, s, d)
  <2>1. v \in a.todo /\ R \subseteq a.todo /\ cur2 = cur \cup {v}
    OBVIOUS
  <2> QED
    BY ONLY <1>12, <2>1 DEF Within
<1>14. Ahead(cur2, t, d) \cap Within(cur2, a.cand) = {}
  <2>1. R \cap (cur2 \cup a.cand) = {}
    BY <1>4, <1>5
  <2> QED
    BY ONLY <1>12, <2>1 DEF Within
<1>15. ASSUME NEW S \in Ahead(cur, s, d), S \cap (a.todo \ (R \cup {v})) = {}
       PROVE  S \in Ahead(cur2, t, d) \cup Within(cur2, a.cand)
  <2>1. /\ S \subseteq cur \cup a.cand \cup a.todo /\ cur \subseteq S
        /\ S \cap a.todo # {}
    BY <1>12
  <2>3. S \subseteq cur \cup a.cand \cup R \cup {v}
    BY <1>15, <2>1
  <2>4. CASE S \cap R # {}
    BY <1>12, <2>1, <2>3, <2>4
  <2>5. CASE S \cap R = {}
    <3>1. v \in S
      BY <2>1, <2>3, <2>5, <1>4
    <3> QED
      BY <2>1, <2>3, <2>5, <3>1 DEF Within
  <2> QED
    BY <2>4, <2>5
<1>16. \A i \in 1 .. d : i \in 1 .. d - 1 \/ i = d
  BY <1>1
<1>17. \A i \in 1 .. d : FrameOK(g, cur2, t, i)
  BY <1>8, <1>10, <1>16
<1> DEFINE calls2 == Within(cur2, a.cand)
           lost == Passed(cur, s, a.todo \ (R \cup {v}))
<1>18. Ahead(cur, s, d) \ (Ahead(cur2, t, d) \cup calls2) \subseteq lost
  BY <1>15 DEF Passed, d
<1>19. /\ Ahead(cur2, t, d) \cup calls2 \subseteq Ahead(cur, s, d)
       /\ Ahead(cur2, t, d) \cap calls2 = {}
  BY <1>13, <1>14
<1> HIDE DEF calls2, lost, t
<1>20. Narrowed(cur, s, {}, cur2, t, calls2, lost)
  <2>1. Len(s) \in Nat \ {0} /\ Len(t) = Len(s)
    BY <1>1 DEF d
  <2>2. \A i \in 1 .. Len(s) - 1 : Ahead(cur2, t, i) = Ahead(cur, s, i)
    BY ONLY <1>8 DEF d
  <2>3. /\ Ahead(cur2, t, Len(s)) \cup calls2 \subseteq Ahead(cur, s, Len(s))
        /\ Ahead(cur2, t, Len(s)) \cap calls2 = {}
        /\ Ahead(cur, s, Len(s)) \ (Ahead(cur2, t, Len(s)) \cup calls2) \subseteq lost
    BY ONLY <1>18, <1>19 DEF d
  <2> QED
    BY ONLY <2>1, <2>2, <2>3, SplitTop
<1>21. \A i \in 1 .. Len(t) : FrameOK(g, cur2, t, i)
  BY <1>1, <1>17
<1>22. Stepped(g, cur, s, {}, cur2, t, calls2, lost)
  BY ONLY <1>20, <1>21 DEF Stepped
<1> QED
  BY <1>5, <1>11, <1>22 DEF calls2, lost, t, CallReady

\* The innermost activation passes over vertices that would violate, and
\* keeps those in R.
LEMMA SkipStep ==
  ASSUME NEW g, NEW F, NEW s \in Seq(F), s # <<>>,
         NEW cur, NoVertex \notin cur,
         NEW a, a = s[Len(s)], a.v = NoVertex, NEW R \in SUBSET a.todo,
         NEW f \in F, f.cand = a.cand, f.todo = R, f.crit = a.crit,
         f.v = NoVertex, f.back = {},
         \A i \in 1 .. Len(s) : FrameOK(g, cur, s, i)
  PROVE  Stepped(g, cur, s, {}, cur, WithTop(s, f), {},
                 Passed(cur, s, a.todo \ R))
<1> DEFINE t == WithTop(s, f)
           d == Len(s)
<1>1. /\ d \in Nat /\ d \in 1 .. d /\ Len(t) = d /\ t[d] = f
      /\ \A i \in 1 .. d - 1 : t[i] = s[i]
  <2>1. d \in Nat /\ d \in 1 .. d
    BY TopProperties
  <2>2. /\ WithTop(s, f) \in Seq(F)
        /\ Len(WithTop(s, f)) = Len(s)
        /\ WithTop(s, f)[Len(s)] = f
        /\ \A i \in 1 .. Len(s) - 1 : WithTop(s, f)[i] = s[i]
        /\ WithTop(s, f) # <<>>
    <3>1. s # <<>>
      OBVIOUS
    <3> QED
      BY ONLY <3>1, WithTopProperties
  <2> QED
    BY <2>1, <2>2
<1>2. Left(cur, s, d + 1) = cur /\ Left(cur, s, d) = cur
  <2>1. Left(cur, s, Len(s) + 1) = cur /\ Left(cur, s, Len(s)) = cur \ {s[Len(s)].v}
    BY ONLY LeftTop
  <2>2. s[Len(s)].v \notin cur
    OBVIOUS
  <2> QED
    BY ONLY <2>1, <2>2
<1>3. FrameOK(g, cur, s, d)
  BY <1>1
<1>4. /\ a.cand \cap a.todo = {} /\ cur \cap (a.cand \cup a.todo) = {}
      /\ HoldsCritical(g, cur, a.crit)
  BY <1>2, <1>3 DEF FrameOK
<1>5. /\ \A i \in 1 .. d : Left(cur, t, i) = Left(cur, s, i)
      /\ Left(cur, t, d + 1) = cur
  <2>1. s # <<>> /\ t = WithTop(s, f) /\ cur \ {f.v} = cur \ {s[Len(s)].v}
    OBVIOUS
  <2> HIDE DEF t
  <2> QED
    BY ONLY <2>1, LeftWithTop
<1>6. ASSUME NEW i \in 1 .. d - 1
      PROVE  FrameOK(g, cur, t, i) /\ Ahead(cur, t, i) = Ahead(cur, s, i)
  <2>1. i \in 1 .. d /\ i + 1 \in 1 .. d
    BY <1>1
  <2>2. t[i] = s[i] /\ Left(cur, t, i) = Left(cur, s, i)
        /\ Left(cur, t, i + 1) = Left(cur, s, i + 1)
    BY <1>1, <1>5, <2>1
  <2>3. FrameOK(g, cur, s, i)
    BY <2>1
  <2> HIDE DEF t
  <2> QED
    BY ONLY <2>2, <2>3, FrameUnchanged
<1>7. Left(cur, t, d) = cur
  BY <1>1, <1>2, <1>5
<1> HIDE DEF d
<1>8. FrameOK(g, cur, t, d)
  <2>1. /\ f.cand = a.cand /\ f.todo = R /\ f.crit = a.crit /\ f.v = NoVertex
        /\ f.back = {}
    OBVIOUS
  <2>2. a.cand \cap R = {} /\ cur \cap (a.cand \cup R) = {}
    BY <1>4
  <2> QED
    BY ONLY <1>1, <1>4, <1>5, <1>7, <2>1, <2>2 DEF FrameOK
<1>9. /\ Ahead(cur, s, d) =
           {S \in SUBSET (cur \cup a.cand \cup a.todo) :
              cur \subseteq S /\ S \cap a.todo # {}}
      /\ Ahead(cur, t, d) =
           {S \in SUBSET (cur \cup a.cand \cup R) :
              cur \subseteq S /\ S \cap R # {}}
  <2>1. s[d] = a /\ t[d].cand = a.cand /\ t[d].todo = R
    BY <1>1 DEF d
  <2> QED
    BY ONLY <1>2, <1>5, <1>7, <2>1 DEF Ahead
<1>10. Ahead(cur, t, d) \subseteq Ahead(cur, s, d)
  <2>1. R \subseteq a.todo
    OBVIOUS
  <2> QED
    BY ONLY <1>9, <2>1
<1>11. ASSUME NEW S \in Ahead(cur, s, d), S \cap (a.todo \ R) = {}
       PROVE  S \in Ahead(cur, t, d)
  <2>1. /\ S \subseteq cur \cup a.cand \cup a.todo /\ cur \subseteq S
        /\ S \cap a.todo # {}
    BY <1>9
  <2>2. S \subseteq cur \cup a.cand \cup R /\ S \cap R # {}
    BY <1>11, <2>1
  <2> QED
    BY <1>9, <2>1, <2>2
<1>12. \A i \in 1 .. d : i \in 1 .. d - 1 \/ i = d
  BY <1>1
<1>13. \A i \in 1 .. d : FrameOK(g, cur, t, i)
  BY <1>6, <1>8, <1>12
<1> DEFINE lost == Passed(cur, s, a.todo \ R)
<1>14. Ahead(cur, s, d) \ Ahead(cur, t, d) \subseteq lost
  BY <1>11 DEF Passed, d
<1> HIDE DEF lost, t
<1>15. Narrowed(cur, s, {}, cur, t, {}, lost)
  <2>1. /\ Len(s) \in Nat \ {0} /\ Len(t) = Len(s)
        /\ \A i \in 1 .. Len(s) - 1 : Ahead(cur, t, i) = Ahead(cur, s, i)
        /\ Ahead(cur, t, Len(s)) \cup {} \subseteq Ahead(cur, s, Len(s))
        /\ Ahead(cur, t, Len(s)) \cap {} = {}
        /\ Ahead(cur, s, Len(s)) \ (Ahead(cur, t, Len(s)) \cup {}) \subseteq lost
    BY <1>1, <1>6, <1>10, <1>14 DEF d
  <2> QED
    BY ONLY <2>1, SplitTop
<1>16. \A i \in 1 .. Len(t) : FrameOK(g, cur, t, i)
  BY <1>1, <1>13
<1>17. Stepped(g, cur, s, {}, cur, t, {}, lost)
  BY ONLY <1>15, <1>16 DEF Stepped
<1> QED
  BY <1>17 DEF lost, t

\* The innermost activation takes back the vertex v it had chosen, which
\* becomes a candidate: nothing changes in what is ahead.
LEMMA TakeBackStep ==
  ASSUME NEW g, NEW F, NEW s \in Seq(F), s # <<>>,
         NEW cur, NoVertex \notin cur,
         NEW a, a = s[Len(s)], a.v # NoVertex,
         NEW f \in F, f.cand = a.cand \cup {a.v}, f.todo = a.todo,
         f.crit = a.crit, f.v = NoVertex, f.back = {},
         \A i \in 1 .. Len(s) : FrameOK(g, cur, s, i),
         NEW cur2, cur2 = cur \ {a.v}
  PROVE  /\ TakenBack(g, cur, a, cur2)
         /\ Stepped(g, cur, s, {}, cur2, WithTop(s, f), {}, {})
<1> DEFINE t == WithTop(s, f)
           d == Len(s)
<1>1. /\ d \in Nat /\ d \in 1 .. d /\ Len(t) = d /\ t[d] = f
      /\ \A i \in 1 .. d - 1 : t[i] = s[i]
  <2>1. d \in Nat /\ d \in 1 .. d
    BY TopProperties
  <2>2. /\ WithTop(s, f) \in Seq(F)
        /\ Len(WithTop(s, f)) = Len(s)
        /\ WithTop(s, f)[Len(s)] = f
        /\ \A i \in 1 .. Len(s) - 1 : WithTop(s, f)[i] = s[i]
        /\ WithTop(s, f) # <<>>
    <3>1. s # <<>>
      OBVIOUS
    <3> QED
      BY ONLY <3>1, WithTopProperties
  <2> QED
    BY <2>1, <2>2
<1>2. Left(cur, s, d + 1) = cur /\ Left(cur, s, d) = cur2
  <2>1. Left(cur, s, Len(s) + 1) = cur /\ Left(cur, s, Len(s)) = cur \ {s[Len(s)].v}
    BY ONLY LeftTop
  <2>2. cur2 = cur \ {s[Len(s)].v}
    OBVIOUS
  <2> QED
    BY ONLY <2>1, <2>2
<1>3. FrameOK(g, cur, s, d)
  BY <1>1
<1>4. /\ a.cand \cap a.todo = {} /\ cur \cap (a.cand \cup a.todo) = {}
      /\ HoldsCritical(g, cur2, a.crit)
      /\ a.v \in cur /\ a.back = NewCrit(g, Uncovered(g, cur2), a.v)
  <2>1. s[d] = a /\ a.v # NoVertex
    OBVIOUS
  <2> QED
    BY ONLY <1>2, <1>3, <2>1 DEF FrameOK
<1>5. Flip(cur, a.v) = cur2 /\ cur2 \cup {a.v} = cur
  BY <1>4 DEF Flip
<1>6. Uncovered(g, cur2) = Uncovered(g, cur) \cup a.back
  <2>1. Uncovered(g, cur2 \cup {a.v}) \cup NewCrit(g, Uncovered(g, cur2), a.v)
          = Uncovered(g, cur2)
    BY ONLY UncoveredRestored
  <2> QED
    BY ONLY <1>4, <1>5, <2>1
<1>7. /\ \A i \in 1 .. d : Left(cur2, t, i) = Left(cur, s, i)
      /\ Left(cur2, t, d + 1) = cur2
  <2>1. s # <<>> /\ t = WithTop(s, f) /\ cur2 \ {f.v} = cur \ {s[Len(s)].v}
    OBVIOUS
  <2> HIDE DEF t
  <2> QED
    BY ONLY <2>1, LeftWithTop
<1>8. ASSUME NEW i \in 1 .. d - 1
      PROVE  FrameOK(g, cur2, t, i) /\ Ahead(cur2, t, i) = Ahead(cur, s, i)
  <2>1. i \in 1 .. d /\ i + 1 \in 1 .. d
    BY <1>1
  <2>2. t[i] = s[i] /\ Left(cur2, t, i) = Left(cur, s, i)
        /\ Left(cur2, t, i + 1) = Left(cur, s, i + 1)
    BY <1>1, <1>7, <2>1
  <2>3. FrameOK(g, cur, s, i)
    BY <2>1
  <2> HIDE DEF t
  <2> QED
    BY ONLY <2>2, <2>3, FrameUnchanged
<1>9. Left(cur2, t, d) = cur2
  BY <1>1, <1>2, <1>7
<1> HIDE DEF d
<1>10. FrameOK(g, cur2, t, d)
  <2>1. /\ f.cand = a.cand \cup {a.v} /\ f.todo = a.todo /\ f.crit = a.crit
        /\ f.v = NoVertex /\ f.back = {}
    OBVIOUS
  <2>2. /\ (a.cand \cup {a.v}) \cap a.todo = {}
        /\ cur2 \cap (a.cand \cup {a.v} \cup a.todo) = {}
    BY <1>4
  <2> QED
    BY ONLY <1>1, <1>4, <1>7, <1>9, <2>1, <2>2 DEF FrameOK
<1>11. Ahead(cur2, t, d) = Ahead(cur, s, d)
  <2>1. /\ s[d] = a /\ t[d].cand = a.cand \cup {a.v} /\ t[d].todo = a.todo
    BY <1>1 DEF d
  <2>2. cur2 \cup (a.cand \cup {a.v}) \cup a.todo = cur \cup a.cand \cup a.todo
    BY <1>5
  <2> QED
    BY ONLY <1>2, <1>7, <1>9, <2>1, <2>2 DEF Ahead
<1>12. \A i \in 1 .. d : i \in 1 .. d - 1 \/ i = d
  BY <1>1
<1>13. /\ \A i \in 1 .. d : FrameOK(g, cur2, t, i)
       /\ \A i \in 1 .. d : Ahead(cur2, t, i) = Ahead(cur, s, i)
  BY <1>8, <1>10, <1>11, <1>12
<1> HIDE DEF t
<1>14. Narrowed(cur, s, {}, cur2, t, {}, {})
  <2>1. /\ Len(t) = Len(s)
        /\ \A i \in 1 .. Len(s) : Ahead(cur2, t, i) = Ahead(cur, s, i)
    BY <1>1, <1>13 DEF d
  <2> QED
    BY ONLY <2>1, SameWhole
<1>15. Stepped(g, cur, s, {}, cur2, t, {}, {})
  BY <1>1, <1>13, <1>14 DEF Stepped
<1> QED
  BY <1>5, <1>6, <1>15 DEF t, TakenBack

\* The innermost activation returns, or is dropped as it makes its last call:
\* what it has not tried has vertices left in todo.
LEMMA PopStep ==
  ASSUME NEW g, NEW F, NEW s \in Seq(F), s # <<>>,
         NEW cur, NoVertex \notin cur,
         NEW a, a = s[Len(s)], a.v = NoVertex,
         \A i \in 1 .. Len(s) : FrameOK(g, cur, s, i), NEW calls
  PROVE  Stepped(g, cur, s, calls, cur, Popped(s), calls, Passed(cur, s, a.todo))
<1> DEFINE t == Popped(s)
           d == Len(s)
<1>1. /\ d \in Nat /\ d \in 1 .. d /\ Len(t) = d - 1
      /\ \A i \in 1 .. d - 1 : t[i] = s[i]
  <2>1. s # <<>> /\ t = Popped(s)
    OBVIOUS
  <2> QED
    BY ONLY <2>1, TopProperties, PoppedProperties
<1>2. Left(cur, s, d + 1) = cur /\ Left(cur, s, d) = cur
  <2>1. Left(cur, s, Len(s) + 1) = cur /\ Left(cur, s, Len(s)) = cur \ {s[Len(s)].v}
    BY ONLY LeftTop
  <2>2. s[Len(s)].v \notin cur
    OBVIOUS
  <2> QED
    BY ONLY <2>1, <2>2
<1>3. FrameOK(g, cur, s, d)
  BY <1>1
<1>4. /\ cur \cap a.todo = {} /\ HoldsCritical(g, cur, a.crit)
      /\ Ahead(cur, s, d) =
           {S \in SUBSET (cur \cup a.cand \cup a.todo) :
              cur \subseteq S /\ S \cap a.todo # {}}
  <2>1. s[d] = a
    OBVIOUS
  <2> QED
    BY ONLY <1>2, <1>3, <2>1 DEF FrameOK, Ahead
<1>5. \A i \in 1 .. d : Left(cur, t, i) = Left(cur, s, i)
  <2>1. s # <<>> /\ t = Popped(s) /\ s[Len(s)].v \notin cur
    OBVIOUS
  <2> HIDE DEF t
  <2> QED
    BY ONLY <2>1, LeftPopped
<1>6. ASSUME NEW i \in 1 .. d - 1
      PROVE  FrameOK(g, cur, t, i) /\ Ahead(cur, t, i) = Ahead(cur, s, i)
  <2>1. i \in 1 .. d /\ i + 1 \in 1 .. d
    BY <1>1
  <2>2. t[i] = s[i] /\ Left(cur, t, i) = Left(cur, s, i)
        /\ Left(cur, t, i + 1) = Left(cur, s, i + 1)
    BY <1>1, <1>5, <2>1
  <2>3. FrameOK(g, cur, s, i)
    BY <2>1
  <2> HIDE DEF t
  <2> QED
    BY ONLY <2>2, <2>3, FrameUnchanged
<1> DEFINE lost == Passed(cur, s, a.todo)
<1>7. Ahead(cur, s, d) \subseteq lost
  BY <1>4 DEF Passed
<1> HIDE DEF lost, t
<1>8. Narrowed(cur, s, calls, cur, t, calls, lost)
  <2>1. /\ Len(s) \in Nat \ {0} /\ Len(t) = Len(s) - 1
        /\ \A i \in 1 .. Len(s) - 1 : Ahead(cur, t, i) = Ahead(cur, s, i)
        /\ Ahead(cur, s, Len(s)) \subseteq lost
    BY <1>1, <1>6, <1>7
  <2> QED
    BY ONLY <2>1, DropTop
<1>9. \A i \in 1 .. Len(t) : FrameOK(g, cur, t, i)
  BY <1>1, <1>6
<1>10. Stepped(g, cur, s, calls, cur, t, calls, lost)
  BY ONLY <1>8, <1>9 DEF Stepped
<1> QED
  BY <1>10 DEF lost, t

\* The call that the innermost activation makes, or the outermost, is over.
LEMMA CallDone ==
  ASSUME NEW cur, NEW s, NEW calls, NoOverlap(cur, s, calls)
  PROVE  /\ NoOverlap(cur, s, {})
         /\ Whole(cur, s, {}) \cap calls = {}
         /\ Whole(cur, s, calls) = Whole(cur, s, {}) \cup calls
BY DEF NoOverlap, Whole

LEMMA CallDoneStep ==
  ASSUME NEW g, NEW cur, NEW s, NEW calls,
         \A i \in 1 .. Len(s) : FrameOK(g, cur, s, i)
  PROVE  /\ Stepped(g, cur, s, calls, cur, s, {}, calls)
         /\ NoOverlap(cur, s, calls) =>
              Whole(cur, s, {}) \cap calls = {} /\ NoOverlap(cur, s, {})
         /\ calls \subseteq Whole(cur, s, calls)
BY DEF Stepped, Narrowed, NoOverlap, Whole

\* No minimal cover is passed over with vertices that would violate.
LEMMA PassedNotMinimal ==
  ASSUME NEW g, NEW theta, NEW F, NEW s \in Seq(F), s # <<>>, NEW cur,
         NoVertex \notin cur,
         NEW a, a = s[Len(s)], a.v = NoVertex, FrameOK(g, cur, s, Len(s)),
         NEW W \in SUBSET a.todo,
         \A w \in W : VertexWouldViolate(g, a.crit, w)
  PROVE  MinimalCovers(g, theta) \cap Passed(cur, s, W) = {}
<1>1. Left(cur, s, Len(s) + 1) = cur /\ Left(cur, s, Len(s)) = cur
  <2>1. Left(cur, s, Len(s) + 1) = cur /\ Left(cur, s, Len(s)) = cur \ {s[Len(s)].v}
    BY ONLY LeftTop
  <2>2. s[Len(s)].v \notin cur
    OBVIOUS
  <2> QED
    BY ONLY <2>1, <2>2
<1>2. cur \cap a.todo = {} /\ HoldsCritical(g, cur, a.crit)
  BY <1>1 DEF FrameOK
<1>3. ASSUME NEW S \in MinimalCovers(g, theta), S \in Passed(cur, s, W)
      PROVE  FALSE
  <2>1. PICK w \in W : w \in S /\ cur \subseteq S
    BY <1>1, <1>3 DEF Passed, Ahead
  <2>2. w \notin cur /\ cur \cup {w} \subseteq S /\ VertexWouldViolate(g, a.crit, w)
    BY <1>2, <2>1
  <2>3. S \notin MinimalCovers(g, theta)
    BY <1>2, <2>2, ViolatingNotMinimal
  <2> QED
    BY <2>3
<1> QED
  BY <1>3

-----------------------------------------------------------------------------
(***************************************************************************)
(* A call that makes no other: the minimal covers among what it tries.     *)
(***************************************************************************)

\* It finds an approximate cover.
LEMMA FoundWithin ==
  ASSUME NEW g, IsFiniteSet(EdgeIds(g)), NEW theta \in Nat, NEW cur, NEW cand,
         IsApproximateCover(g, theta, cur)
  PROVE  MinimalCovers(g, theta) \cap Within(cur, cand) \subseteq {cur}
<1>1. ASSUME NEW S \in MinimalCovers(g, theta), S \in Within(cur, cand)
      PROVE  S = cur
  <2>1. cur \in SUBSET S
    BY <1>1 DEF Within
  <2> QED
    BY <2>1, MinimalAbove
<1> QED
  BY <1>1

\* The edges that no candidate hits are too many.
LEMMA NothingWithin ==
  ASSUME NEW g, IsFiniteSet(EdgeIds(g)), NEW theta \in Nat, NEW cur, NEW cand,
         ~(100 * Cardinality({e \in Uncovered(g, cur) : g[e] \cap cand = {}})
             <= theta * EdgeNum(g))
  PROVE  MinimalCovers(g, theta) \cap Within(cur, cand) = {}
<1> DEFINE unhit == {e \in Uncovered(g, cur) : g[e] \cap cand = {}}
<1>1. ASSUME NEW S \in MinimalCovers(g, theta), S \in Within(cur, cand)
      PROVE  FALSE
  <2>1. unhit \in SUBSET Uncovered(g, S)
    BY <1>1 DEF Uncovered, Within
  <2>2. /\ IsFiniteSet(Uncovered(g, S)) /\ Cardinality(Uncovered(g, S)) \in Nat
        /\ EdgeNum(g) \in Nat
    BY UncoveredProperties, FS_CardinalityType DEF EdgeNum
  <2>3. /\ Cardinality(unhit) \in Nat
        /\ Cardinality(unhit) <= Cardinality(Uncovered(g, S))
    BY <2>1, <2>2, FS_Subset, FS_CardinalityType
  <2>4. 100 * Cardinality(Uncovered(g, S)) <= theta * EdgeNum(g)
    BY <1>1 DEF MinimalCovers, IsApproximateCover
  <2>5. ~(100 * Cardinality(unhit) <= theta * EdgeNum(g))
    OBVIOUS
  <2> DEFINE u == Cardinality(unhit)
             w == Cardinality(Uncovered(g, S))
             n == theta * EdgeNum(g)
  <2>6. u \in Nat /\ w \in Nat /\ n \in Nat /\ u <= w /\ 100 * w <= n
        /\ ~(100 * u <= n)
    BY <2>2, <2>3, <2>4, <2>5
  <2> HIDE DEF u, w, n
  <2> QED
    BY <2>6
<1> QED
  BY <1>1

-----------------------------------------------------------------------------
(***************************************************************************)
(* What is pushed to the output queue.                                     *)
(***************************************************************************)
Elements(out) == {out[i] : i \in 1 .. Len(out)}

NoneTwice(out) == \A i, j \in 1 .. Len(out) : i # j => out[i] # out[j]

LEMMA PushedOnce ==
  ASSUME NEW S, NEW out \in Seq(S), NEW C \in S
  PROVE  /\ Elements(Append(out, C)) = Elements(out) \cup {C}
         /\ C \notin Elements(out) /\ NoneTwice(out) => NoneTwice(Append(out, C))
<1> DEFINE n == Len(out)
           new == Append(out, C)
<1>1. n \in Nat /\ Len(new) = n + 1 /\ new[n + 1] = C /\ \A i \in 1 .. n : new[i] = out[i]
  BY PushProperties
<1>2. /\ \A i \in 1 .. n + 1 : i \in 1 .. n \/ i = n + 1
      /\ n + 1 \in 1 .. n + 1
      /\ \A i \in 1 .. n : i \in 1 .. n + 1
  BY <1>1
<1>3. /\ Elements(new) = {new[i] : i \in 1 .. n + 1}
      /\ Elements(out) = {out[i] : i \in 1 .. n}
      /\ NoneTwice(new) <=> \A i, j \in 1 .. n + 1 : i # j => new[i] # new[j]
      /\ NoneTwice(out) <=> \A i, j \in 1 .. n : i # j => out[i] # out[j]
  BY <1>1 DEF Elements, NoneTwice
<1> HIDE DEF n, new
<1>4. Elements(new) = Elements(out) \cup {C}
  BY <1>1, <1>2, <1>3
<1>5. C \notin Elements(out) /\ NoneTwice(out) => NoneTwice(new)
  BY <1>1, <1>2, <1>3
<1> QED
  BY <1>4, <1>5 DEF new


-----------------------------------------------------------------------------
(***************************************************************************)
(* Recursion on numbers, and the elements of a set in their order.         *)
(***************************************************************************)

\* What holds of 0, and of i + 1 if of i, holds up to n.
LEMMA UpTo ==
  ASSUME NEW n \in Nat, NEW G, 0 \in G,
         \A i \in 0 .. n - 1 : i \in G => i + 1 \in G
  PROVE  \A i \in 0 .. n : i \in G
<1> DEFINE B == {i \in 0 .. n : i \notin G}
<1>1. SUFFICES ASSUME B # {} PROVE FALSE
  BY <1>1
<1>2. B \in SUBSET Nat
  OBVIOUS
<1> DEFINE k == Least(B)
<1>3. k \in B /\ \A i \in B : k <= i
  <2> HIDE DEF B
  <2> QED
    BY <1>1, <1>2, LeastProperties
<1> HIDE DEF k
<1>4. k \in 0 .. n /\ k \notin G /\ k # 0
  BY <1>3
<1>5. k - 1 \in 0 .. n - 1 /\ k - 1 \notin B
  BY <1>3, <1>4
<1>6. k - 1 \in G
  BY <1>4, <1>5
<1>7. (k - 1) + 1 = k
  BY <1>4
<1> QED
  BY <1>4, <1>5, <1>6, <1>7

\* No element occurs twice in the list.
Distinct(list) == \A i, j \in 1 .. Len(list) : list[i] = list[j] => i = j

\* f is what the steps make of base, one after the other.
Iterates(f, base, n, step) ==
  f[0] = base /\ \A i \in 1 .. n : f[i] = step[i][f[i - 1]]

\* A function defined by recursion on 0 .. n exists.
LEMMA IterationExists ==
  ASSUME NEW S, NEW base \in S, NEW n \in Nat, NEW step \in [1 .. n -> [S -> S]]
  PROVE  \E f \in [0 .. n -> S] : Iterates(f, base, n, step)
<1> DEFINE G == {k \in 0 .. n : \E f \in [0 .. k -> S] : Iterates(f, base, k, step)}
<1>1. 0 \in G
  <2> DEFINE h == [i \in 0 .. 0 |-> base]
  <2>1. h \in [0 .. 0 -> S]
    OBVIOUS
  <2>2. h[0] = base
    OBVIOUS
  <2>3. \A i \in 1 .. 0 : h[i] = step[i][h[i - 1]]
    OBVIOUS
  <2> HIDE DEF h
  <2>4. Iterates(h, base, 0, step)
    BY <2>2, <2>3 DEF Iterates
  <2> QED
    BY <2>1, <2>4
<1>2. ASSUME NEW k \in 0 .. n - 1, k \in G
      PROVE  k + 1 \in G
  <2>1. PICK f \in [0 .. k -> S] : Iterates(f, base, k, step)
    BY <1>2
  <2> DEFINE h == [i \in 0 .. k + 1 |->
                     IF i = k + 1 THEN step[k + 1][f[k]] ELSE f[i]]
  <2>2. k + 1 \in 1 .. n /\ f[k] \in S
    OBVIOUS
  <2>3. h \in [0 .. k + 1 -> S]
    BY <2>2
  <2>4. \A i \in 1 .. k + 1 : h[i] = step[i][h[i - 1]]
    <3> TAKE i \in 1 .. k + 1
    <3>1. CASE i = k + 1
      <4>1. h[i] = step[i][f[k]] /\ h[i - 1] = f[k]
        BY <3>1
      <4> QED
        BY <4>1
    <3>2. CASE i \in 1 .. k
      <4>1. h[i] = f[i] /\ h[i - 1] = f[i - 1]
        BY <3>2
      <4> QED
        BY <2>1, <3>2, <4>1 DEF Iterates
    <3> QED
      BY <3>1, <3>2
  <2>5. h[0] = base
    BY <2>1 DEF Iterates
  <2> HIDE DEF h
  <2>6. Iterates(h, base, k + 1, step)
    BY <2>4, <2>5 DEF Iterates
  <2> QED
    BY <2>2, <2>3, <2>6
<1>3. n \in G
  <2> HIDE DEF G
  <2>1. \A i \in 0 .. n : i \in G
    BY <1>1, <1>2, UpTo
  <2> QED
    BY <2>1
<1> QED
  BY <1>3

\* a lists every element of K once.
Increasing(a, K) ==
  /\ Cardinality(K) \in Nat
  /\ a \in [1 .. Cardinality(K) -> K]
  /\ \A i, j \in 1 .. Cardinality(K) : i < j => a[i] < a[j]
  /\ \A x \in K : \E i \in 1 .. Cardinality(K) : a[i] = x

LEMMA AscendingProperties ==
  ASSUME NEW K \in SUBSET Nat, IsFiniteSet(K)
  PROVE  Increasing(Ascending(K), K)
<1> DEFINE n == Cardinality(K)
           below(x) == {y \in K : y < x}
           r == [x \in K |-> Cardinality(below(x))]
<1>1. n \in Nat
  BY FS_CardinalityType
<1>2. ASSUME NEW x \in K
      PROVE  IsFiniteSet(below(x)) /\ r[x] \in 0 .. n - 1
  <2>1. below(x) \in SUBSET (K \ {x})
    OBVIOUS
  <2>2. IsFiniteSet(K \ {x}) /\ Cardinality(K \ {x}) = n - 1
    BY FS_RemoveElement
  <2>3. IsFiniteSet(below(x)) /\ Cardinality(below(x)) <= n - 1
    BY <2>1, <2>2, FS_Subset
  <2>4. Cardinality(below(x)) \in Nat
    BY <2>3, FS_CardinalityType
  <2>5. r[x] = Cardinality(below(x))
    OBVIOUS
  <2> QED
    BY <1>1, <2>3, <2>4, <2>5
<1>3. ASSUME NEW x \in K, NEW y \in K, x < y
      PROVE  r[x] < r[y]
  <2>1. below(x) \in SUBSET below(y) /\ x \in below(y) /\ x \notin below(x)
    <3>1. \A z \in K : z < x => z < y
      BY <1>3
    <3>2. ~(x < x)
      OBVIOUS
    <3> QED
      BY <1>3, <3>1, <3>2
  <2>2. IsFiniteSet(below(y)) /\ IsFiniteSet(below(x))
    BY <1>2
  <2>3. Cardinality(below(x)) <= Cardinality(below(y))
    BY <2>1, <2>2, FS_Subset
  <2>4. Cardinality(below(x)) # Cardinality(below(y))
    BY <2>1, <2>2, FS_Subset
  <2>5. Cardinality(below(x)) \in Nat /\ Cardinality(below(y)) \in Nat
    BY <2>2, FS_CardinalityType
  <2> QED
    BY <2>3, <2>4, <2>5
<1>4. \A x, y \in K : x # y => r[x] # r[y]
  <2> TAKE x \in K, y \in K
  <2>1. r[x] \in 0 .. n - 1 /\ r[y] \in 0 .. n - 1
    BY <1>2
  <2>2. x # y => x < y \/ y < x
    OBVIOUS
  <2> HIDE DEF r
  <2> QED
    BY <1>3, <2>1, <2>2
<1>5. \A i \in 0 .. n - 1 : \E x \in K : r[x] = i
  <2>1. r \in [K -> 0 .. n - 1]
    BY <1>2
  <2> HIDE DEF r
  <2>2. r \in Injection(K, 0 .. n - 1)
    BY <1>4, <2>1 DEF Injection, IsInjective
  <2>3. IsFiniteSet(0 .. n - 1) /\ Cardinality(0 .. n - 1) = n
    <3> HIDE DEF n
    <3>1. 0 \in Int /\ n - 1 \in Int
      BY <1>1
    <3>2. /\ IsFiniteSet(0 .. n - 1)
          /\ Cardinality(0 .. n - 1)
               = IF 0 > n - 1 THEN 0 ELSE (n - 1) - 0 + 1
      BY <3>1, FS_Interval
    <3> QED
      BY <1>1, <3>2
  <2>4. r \in Surjection(K, 0 .. n - 1)
    BY <2>2, <2>3, FS_Injection
  <2> QED
    BY <2>4 DEF Surjection
<1> DEFINE a == Ascending(K)
<1>6. ASSUME NEW i \in 1 .. n
      PROVE  a[i] \in K /\ r[a[i]] = i - 1
  <2>1. i - 1 \in 0 .. n - 1
    BY <1>1
  <2>2. PICK x \in K : r[x] = i - 1
    BY <1>5, <2>1
  <2>3. Cardinality(below(x)) = i - 1
    BY <2>2
  <2>4. a[i] = CHOOSE y \in K : Cardinality(below(y)) = i - 1
    BY DEF Ascending
  <2>5. a[i] \in K /\ Cardinality(below(a[i])) = i - 1
    <3> HIDE DEF a
    <3> QED
      BY <2>3, <2>4
  <2> QED
    BY <2>5
<1>7. a \in [1 .. n -> K]
  <2> DEFINE at(i) == CHOOSE x \in K : Cardinality(below(x)) = i - 1
  <2>1. a = [i \in 1 .. n |-> at(i)]
    BY DEF Ascending
  <2>2. \A i \in 1 .. n : at(i) = a[i]
    <3> HIDE DEF at, a
    <3> QED
      BY <2>1
  <2>3. \A i \in 1 .. n : at(i) \in K
    <3> HIDE DEF at, a
    <3> QED
      BY <1>6, <2>2
  <2> HIDE DEF a, at
  <2> QED
    BY <2>1, <2>3
<1>8. ASSUME NEW i \in 1 .. n, NEW j \in 1 .. n, i < j
      PROVE  a[i] < a[j]
  <2>1. a[i] \in K /\ a[j] \in K /\ r[a[i]] < r[a[j]]
    BY <1>6, <1>8
  <2> DEFINE x == a[i]
             y == a[j]
  <2>2. x \in K /\ y \in K /\ r[x] < r[y]
    BY <2>1
  <2> HIDE DEF a, r, x, y
  <2>3. r[x] \in 0 .. n - 1 /\ r[y] \in 0 .. n - 1
    BY <1>2, <2>2
  <2>4. y < x => r[y] < r[x]
    BY <1>3, <2>2
  <2> HIDE DEF n
  <2>5. x < y
    BY <1>1, <2>2, <2>3, <2>4
  <2> QED
    BY <2>5 DEF x, y
<1>9. ASSUME NEW x \in K
      PROVE  \E i \in 1 .. n : a[i] = x
  <2>1. r[x] \in 0 .. n - 1
    BY <1>2
  <2>2. r[x] + 1 \in 1 .. n /\ (r[x] + 1) - 1 = r[x]
    BY <1>1, <2>1
  <2>3. a[r[x] + 1] \in K /\ r[a[r[x] + 1]] = r[x]
    BY <1>6, <2>2
  <2> HIDE DEF a, r
  <2> QED
    BY <1>4, <2>2, <2>3
<1> HIDE DEF a, r
<1> QED
  BY <1>1, <1>7, <1>8, <1>9 DEF a, Increasing

-----------------------------------------------------------------------------
(***************************************************************************)
(* GetSubGraph splits a hypergraph into its connected components.          *)
(***************************************************************************)

\* What is visited stays flagged.
Visitors(g) ==
  {h \in [Vertices(g) \X Flags(g) -> Flags(g)] :
     \A w \in Vertices(g), s \in Flags(g) : s.vertices \subseteq h[<<w, s>>].vertices}

\* k visits as h does where all vertices of s are flagged.
Agree(g, k, h, s) ==
  \A w \in Vertices(g), t \in Flags(g) :
    s.vertices \subseteq t.vertices => k[<<w, t>>] = h[<<w, t>>]

\* The flags after each vertex of the list.
VisitSteps(g, h, list, s, f) ==
  /\ f \in [0 .. Len(list) -> Flags(g)]
  /\ f[0] = s
  /\ \A i \in 1 .. Len(list) : f[i] = h[<<list[i], f[i - 1]>>]
  /\ \A i \in 0 .. Len(list) : s.vertices \subseteq f[i].vertices

LEMMA VisitStepsExist ==
  ASSUME NEW g, NEW h \in Visitors(g), NEW list \in Seq(Vertices(g)),
         NEW s \in Flags(g)
  PROVE  \E f : VisitSteps(g, h, list, s, f)
<1> DEFINE F == Flags(g)
           n == Len(list)
           step == [i \in 1 .. n |-> [t \in F |-> h[<<list[i], t>>]]]
<1>1. n \in Nat /\ \A i \in 1 .. n : list[i] \in Vertices(g)
  OBVIOUS
<1>2. /\ h \in [Vertices(g) \X F -> F]
      /\ \A w \in Vertices(g), t \in F : t.vertices \subseteq h[<<w, t>>].vertices
  BY DEF Visitors
<1> HIDE DEF F, n
<1>3. step \in [1 .. n -> [F -> F]]
  BY <1>1, <1>2
<1>4. s \in F
  BY DEF F
<1>5. PICK f \in [0 .. n -> F] : Iterates(f, s, n, step)
  <2> HIDE DEF step
  <2> QED
    BY <1>1, <1>3, <1>4, IterationExists
<1>6. f[0] = s /\ \A i \in 1 .. n : i - 1 \in 0 .. n /\ f[i] = h[<<list[i], f[i - 1]>>]
  <2>1. f[0] = s
    BY <1>5 DEF Iterates
  <2>2. ASSUME NEW i \in 1 .. n
        PROVE  i - 1 \in 0 .. n /\ f[i] = h[<<list[i], f[i - 1]>>]
    <3>1. i - 1 \in 0 .. n
      BY <1>1
    <3>2. f[i - 1] \in F
      BY <1>5, <3>1
    <3>3. f[i] = step[i][f[i - 1]]
      BY <1>5 DEF Iterates
    <3> QED
      BY <3>1, <3>2, <3>3
  <2> QED
    BY <2>1, <2>2
<1> DEFINE G == {i \in 0 .. n : s.vertices \subseteq f[i].vertices}
<1>7. 0 \in G
  BY <1>1, <1>6
<1>8. ASSUME NEW i \in 0 .. n - 1, i \in G PROVE i + 1 \in G
  <2>1. i + 1 \in 1 .. n /\ (i + 1) - 1 = i /\ i \in 0 .. n /\ i + 1 \in 0 .. n
    BY <1>1
  <2>2. f[i + 1] = h[<<list[i + 1], f[i]>>] /\ f[i] \in F /\ list[i + 1] \in Vertices(g)
    BY <1>1, <1>5, <1>6, <2>1
  <2>3. f[i].vertices \subseteq f[i + 1].vertices
    BY <1>2, <2>2
  <2> QED
    BY <1>8, <2>1, <2>3
<1>9. \A i \in 0 .. n : i \in G
  <2> HIDE DEF G
  <2> QED
    BY <1>1, <1>7, <1>8, UpTo
<1> QED
  BY <1>5, <1>6, <1>9 DEF VisitSteps, F, n

\* Whatever visits as h does where these steps come makes them.
LEMMA VisitEachSteps ==
  ASSUME NEW g, NEW h \in Visitors(g), NEW list \in Seq(Vertices(g)),
         NEW s \in Flags(g), NEW k, Agree(g, k, h, s),
         NEW f, VisitSteps(g, h, list, s, f)
  PROVE  VisitEach(k, list, s) = f[Len(list)]
<1> DEFINE n == Len(list)
           Is(F) == F = [i \in 0 .. n |-> IF i = 0 THEN s ELSE k[<<list[i], F[i - 1]>>]]
<1>1. n \in Nat /\ \A i \in 1 .. n : list[i] \in Vertices(g)
  OBVIOUS
<1>2. /\ f \in [0 .. n -> Flags(g)] /\ f[0] = s
      /\ \A i \in 1 .. n : i - 1 \in 0 .. n /\ f[i] = k[<<list[i], f[i - 1]>>]
  <2>1. /\ f \in [0 .. n -> Flags(g)] /\ f[0] = s
        /\ \A i \in 1 .. n : f[i] = h[<<list[i], f[i - 1]>>]
        /\ \A i \in 0 .. n : s.vertices \subseteq f[i].vertices
    BY DEF VisitSteps
  <2>2. ASSUME NEW i \in 1 .. n
        PROVE  i - 1 \in 0 .. n /\ f[i] = k[<<list[i], f[i - 1]>>]
    <3>1. i - 1 \in 0 .. n
      BY <1>1
    <3>2. f[i - 1] \in Flags(g) /\ s.vertices \subseteq f[i - 1].vertices
          /\ list[i] \in Vertices(g)
      BY <1>1, <2>1, <3>1
    <3>3. k[<<list[i], f[i - 1]>>] = h[<<list[i], f[i - 1]>>]
      BY <3>2 DEF Agree
    <3> QED
      BY <2>1, <3>1, <3>3
  <2> QED
    BY <2>1, <2>2
<1> HIDE DEF n
<1>3. Is(f)
  <2>1. \A i \in 0 .. n : i # 0 => i \in 1 .. n
    BY <1>1
  <2>2. \A i \in 0 .. n : f[i] = IF i = 0 THEN s ELSE k[<<list[i], f[i - 1]>>]
    BY <1>2, <2>1
  <2>3. f = [i \in 0 .. n |-> f[i]]
    BY <1>2
  <2> QED
    BY <2>2, <2>3
<1>4. ASSUME NEW F, Is(F) PROVE F = f
  <2>1. F = [i \in 0 .. n |-> F[i]]
        /\ \A i \in 0 .. n : F[i] = IF i = 0 THEN s ELSE k[<<list[i], F[i - 1]>>]
    BY <1>4
  <2> DEFINE G == {i \in 0 .. n : F[i] = f[i]}
  <2>2. 0 \in G
    <3>1. 0 \in 0 .. n
      BY <1>1
    <3>2. F[0] = f[0]
      BY <1>2, <2>1, <3>1
    <3> QED
      BY ONLY <3>1, <3>2
  <2>3. ASSUME NEW i \in 0 .. n - 1, i \in G PROVE i + 1 \in G
    <3>1. i + 1 \in 1 .. n /\ (i + 1) - 1 = i /\ i + 1 \in 0 .. n /\ i + 1 # 0
      BY <1>1
    <3>2. F[i + 1] = k[<<list[i + 1], F[(i + 1) - 1]>>]
      BY <2>1, <3>1
    <3>3. f[i + 1] = k[<<list[i + 1], f[(i + 1) - 1]>>]
      BY <1>2, <3>1
    <3>4. F[(i + 1) - 1] = f[(i + 1) - 1]
      BY <2>3, <3>1
    <3>5. F[i + 1] = f[i + 1]
      BY <3>2, <3>3, <3>4
    <3> QED
      BY <3>1, <3>5
  <2>4. \A i \in 0 .. n : i \in G
    <3> HIDE DEF G
    <3> QED
      BY <1>1, <2>2, <2>3, UpTo
  <2> QED
    BY <1>2, <2>1, <2>4
<1>5. VisitEach(k, list, s) = (CHOOSE F : Is(F))[n]
  BY DEF VisitEach, n
<1>6. (CHOOSE F : Is(F)) = f
  <2> HIDE DEF Is
  <2> QED
    BY <1>3, <1>4
<1> QED
  BY <1>5, <1>6 DEF n

LEMMA VisitEachAgrees ==
  ASSUME NEW g, NEW h \in Visitors(g), NEW list \in Seq(Vertices(g)),
         NEW s \in Flags(g), NEW k, Agree(g, k, h, s)
  PROVE  /\ VisitEach(k, list, s) = VisitEach(h, list, s)
         /\ VisitEach(h, list, s) \in Flags(g)
         /\ s.vertices \subseteq VisitEach(h, list, s).vertices
<1>1. PICK f : VisitSteps(g, h, list, s, f)
  BY VisitStepsExist
<1>2. Agree(g, h, h, s)
  BY DEF Agree
<1>3. VisitEach(k, list, s) = f[Len(list)] /\ VisitEach(h, list, s) = f[Len(list)]
  BY <1>1, <1>2, VisitEachSteps
<1>4. Len(list) \in 0 .. Len(list)
  OBVIOUS
<1>5. f[Len(list)] \in Flags(g) /\ s.vertices \subseteq f[Len(list)].vertices
  BY <1>1, <1>4 DEF VisitSteps
<1> QED
  BY <1>3, <1>5

\* The lists the loops go through.
LEMMA Listed ==
  ASSUME NEW g, IsHyperGraph(g), NEW K,
         K \in SUBSET (0 .. MaxBit - 1) \/ K \in SUBSET EdgeIds(g)
  PROVE  /\ Ascending(K) \in Seq(K)
         /\ ToSet(Ascending(K)) = K
         /\ IsFiniteSet(K)
<1>1. IsFiniteSet(0 .. MaxBit - 1) /\ 0 .. MaxBit - 1 \subseteq Nat
  <2>1. 0 \in Int /\ MaxBit - 1 \in Int
    BY DEF MaxBit
  <2> QED
    BY <2>1, FS_Interval
<1>2. IsFiniteSet(EdgeIds(g)) /\ EdgeIds(g) = 0 .. EdgeNum(g) - 1
  BY IsHyperGraphProperties DEF IsHyperGraph
<1>3. K \in SUBSET Nat /\ IsFiniteSet(K)
  <2>1. CASE K \in SUBSET (0 .. MaxBit - 1)
    BY <1>1, <2>1, FS_Subset
  <2>2. CASE K \in SUBSET EdgeIds(g)
    <3>1. EdgeIds(g) \subseteq Nat
      BY IsHyperGraphProperties
    <3>2. IsFiniteSet(K)
      BY <1>2, <2>2, FS_Subset
    <3> QED
      BY <2>2, <3>1, <3>2
  <2> QED
    BY <2>1, <2>2
<1>4. PICK a : a = Ascending(K)
  OBVIOUS
<1>5. Increasing(a, K)
  BY <1>3, <1>4, AscendingProperties
<1>6. a \in Seq(K) /\ DOMAIN a = 1 .. Cardinality(K)
  BY <1>5 DEF Increasing
<1>7. ToSet(a) = K
  BY <1>5, <1>6 DEF ToSet, Increasing
<1> QED
  BY <1>3, <1>4, <1>6, <1>7

LEMMA EdgesListed ==
  ASSUME NEW g, IsHyperGraph(g)
  PROVE  /\ \A e \in EdgeIds(g) : /\ Ascending(g[e]) \in Seq(Vertices(g))
                                  /\ ToSet(Ascending(g[e])) = g[e]
                                  /\ g[e] \subseteq Vertices(g)
         /\ \A w \in Vertices(g) :
              /\ Ascending(VertexHitting(g, w)) \in Seq(EdgeIds(g))
              /\ ToSet(Ascending(VertexHitting(g, w))) = VertexHitting(g, w)
         /\ Ascending(Vertices(g)) \in Seq(Vertices(g))
         /\ ToSet(Ascending(Vertices(g))) = Vertices(g)
         /\ IsFiniteSet(Vertices(g)) /\ IsFiniteSet(EdgeIds(g))
<1>1. /\ EdgeIds(g) = 0 .. EdgeNum(g) - 1
      /\ \A e \in EdgeIds(g) : g[e] \in SUBSET (0 .. MaxBit - 1)
  BY IsHyperGraphProperties DEF IsHyperGraph
<1>2. \A e \in EdgeIds(g) : g[e] \subseteq Vertices(g)
  BY DEF Vertices
<1>3. Vertices(g) \in SUBSET (0 .. MaxBit - 1)
  BY <1>1 DEF Vertices
<1>4. ASSUME NEW e \in EdgeIds(g)
      PROVE  /\ Ascending(g[e]) \in Seq(Vertices(g))
             /\ ToSet(Ascending(g[e])) = g[e]
  <2>1. /\ Ascending(g[e]) \in Seq(g[e])
        /\ ToSet(Ascending(g[e])) = g[e]
    BY <1>1, Listed
  <2> QED
    BY <1>2, <2>1
<1>5. ASSUME NEW w \in Vertices(g)
      PROVE  /\ Ascending(VertexHitting(g, w)) \in Seq(EdgeIds(g))
             /\ ToSet(Ascending(VertexHitting(g, w))) = VertexHitting(g, w)
  <2>1. VertexHitting(g, w) \in SUBSET EdgeIds(g)
    BY DEF VertexHitting
  <2>2. /\ Ascending(VertexHitting(g, w)) \in Seq(VertexHitting(g, w))
        /\ ToSet(Ascending(VertexHitting(g, w))) = VertexHitting(g, w)
    BY <2>1, Listed
  <2> QED
    BY <2>1, <2>2
<1>6. /\ Ascending(Vertices(g)) \in Seq(Vertices(g))
      /\ ToSet(Ascending(Vertices(g))) = Vertices(g)
      /\ IsFiniteSet(Vertices(g))
  BY <1>3, Listed
<1>7. IsFiniteSet(EdgeIds(g))
  BY DEF IsHyperGraph
<1> QED
  BY <1>2, <1>4, <1>5, <1>6, <1>7

\* What becomes of the flags for one edge of a vertex.
TakeOne(g, h, e, s) ==
  IF e \in ToSet(s.edges) THEN s
  ELSE VisitEach(h, Ascending(g[e]), [s EXCEPT !.edges = Append(@, e)])

LEMMA TakeOneAgrees ==
  ASSUME NEW g, IsHyperGraph(g), NEW h \in Visitors(g), NEW e \in EdgeIds(g),
         NEW s \in Flags(g), NEW k, NEW r, r.vertices \subseteq s.vertices,
         Agree(g, k, h, r)
  PROVE  /\ TakeOne(g, k, e, s) = TakeOne(g, h, e, s)
         /\ TakeOne(g, h, e, s) \in Flags(g)
         /\ s.vertices \subseteq TakeOne(g, h, e, s).vertices
<1>1. CASE e \in ToSet(s.edges)
  BY <1>1 DEF TakeOne
<1>2. CASE e \notin ToSet(s.edges)
  <2>1. PICK t : t = [s EXCEPT !.edges = Append(@, e)]
    OBVIOUS
  <2>2. t \in Flags(g) /\ t.vertices = s.vertices
    <3>1. PICK x, y : x = s.vertices /\ y = s.edges
      OBVIOUS
    <3>2. x \in SUBSET Vertices(g) /\ y \in Seq(EdgeIds(g)) /\ s = [vertices |-> x, edges |-> y]
      BY <3>1 DEF Flags
    <3>3. Append(y, e) \in Seq(EdgeIds(g))
      BY <3>2
    <3>4. PICK z : z = Append(y, e)
      OBVIOUS
    <3>5. t = [vertices |-> x, edges |-> z]
      BY <2>1, <3>2, <3>4
    <3> QED
      BY <3>1, <3>2, <3>3, <3>4, <3>5 DEF Flags
  <2>3. Agree(g, k, h, t)
    BY <2>2 DEF Agree
  <2>4. Ascending(g[e]) \in Seq(Vertices(g))
    BY EdgesListed
  <2>5. PICK list : list = Ascending(g[e])
    OBVIOUS
  <2>6. /\ VisitEach(k, list, t) = VisitEach(h, list, t)
        /\ VisitEach(h, list, t) \in Flags(g)
        /\ t.vertices \subseteq VisitEach(h, list, t).vertices
    BY <2>2, <2>3, <2>4, <2>5, VisitEachAgrees
  <2>7. /\ TakeOne(g, k, e, s) = VisitEach(k, list, t)
        /\ TakeOne(g, h, e, s) = VisitEach(h, list, t)
    BY <1>2, <2>1, <2>5 DEF TakeOne
  <2> QED
    BY <2>2, <2>6, <2>7
<1> QED
  BY <1>1, <1>2

\* The flags after each edge of the list.
TakeSteps(g, h, list, s, f) ==
  /\ f \in [0 .. Len(list) -> Flags(g)]
  /\ f[0] = s
  /\ \A i \in 1 .. Len(list) : f[i] = TakeOne(g, h, list[i], f[i - 1])
  /\ \A i \in 0 .. Len(list) : s.vertices \subseteq f[i].vertices

LEMMA TakeStepsExist ==
  ASSUME NEW g, IsHyperGraph(g), NEW h \in Visitors(g), NEW list \in Seq(EdgeIds(g)),
         NEW s \in Flags(g)
  PROVE  \E f : TakeSteps(g, h, list, s, f)
<1> DEFINE F == Flags(g)
           n == Len(list)
           step == [i \in 1 .. n |-> [t \in F |-> TakeOne(g, h, list[i], t)]]
<1>1. n \in Nat /\ \A i \in 1 .. n : list[i] \in EdgeIds(g)
  OBVIOUS
<1>2. \A e \in EdgeIds(g), t \in F :
        TakeOne(g, h, e, t) \in F /\ t.vertices \subseteq TakeOne(g, h, e, t).vertices
  <2> TAKE e \in EdgeIds(g), t \in F
  <2>1. Agree(g, h, h, t) /\ t.vertices \subseteq t.vertices
    BY DEF Agree
  <2> QED
    BY <2>1, TakeOneAgrees
<1> HIDE DEF F, n
<1>3. step \in [1 .. n -> [F -> F]]
  BY <1>1, <1>2
<1>4. s \in F
  BY DEF F
<1>5. PICK f \in [0 .. n -> F] : Iterates(f, s, n, step)
  <2> HIDE DEF step
  <2> QED
    BY <1>1, <1>3, <1>4, IterationExists
<1>6. f[0] = s /\ \A i \in 1 .. n : i - 1 \in 0 .. n /\ f[i] = TakeOne(g, h, list[i], f[i - 1])
  <2>1. f[0] = s
    BY <1>5 DEF Iterates
  <2>2. ASSUME NEW i \in 1 .. n
        PROVE  i - 1 \in 0 .. n /\ f[i] = TakeOne(g, h, list[i], f[i - 1])
    <3>1. i - 1 \in 0 .. n
      BY <1>1
    <3>2. f[i - 1] \in F
      BY <1>5, <3>1
    <3>3. f[i] = step[i][f[i - 1]]
      BY <1>5 DEF Iterates
    <3> QED
      BY <3>1, <3>2, <3>3
  <2> QED
    BY <2>1, <2>2
<1> DEFINE G == {i \in 0 .. n : s.vertices \subseteq f[i].vertices}
<1>7. 0 \in G
  BY <1>1, <1>6
<1>8. ASSUME NEW i \in 0 .. n - 1, i \in G PROVE i + 1 \in G
  <2>1. i + 1 \in 1 .. n /\ (i + 1) - 1 = i /\ i \in 0 .. n /\ i + 1 \in 0 .. n
    BY <1>1
  <2>2. f[i + 1] = TakeOne(g, h, list[i + 1], f[i]) /\ f[i] \in F /\ list[i + 1] \in EdgeIds(g)
    BY <1>1, <1>5, <1>6, <2>1
  <2>3. f[i].vertices \subseteq f[i + 1].vertices
    BY <1>2, <2>2
  <2> QED
    BY <1>8, <2>1, <2>3
<1>9. \A i \in 0 .. n : i \in G
  <2> HIDE DEF G
  <2> QED
    BY <1>1, <1>7, <1>8, UpTo
<1> QED
  BY <1>5, <1>6, <1>9 DEF TakeSteps, F, n

\* Whatever visits as h does where these steps come makes them.
LEMMA TakeEachSteps ==
  ASSUME NEW g, IsHyperGraph(g), NEW h \in Visitors(g), NEW list \in Seq(EdgeIds(g)),
         NEW s \in Flags(g), NEW k, Agree(g, k, h, s),
         NEW f, TakeSteps(g, h, list, s, f)
  PROVE  TakeEach(g, k, list, s) = f[Len(list)]
<1> DEFINE n == Len(list)
           Is(F) == F = [i \in 0 .. n |->
                           IF i = 0 THEN s ELSE TakeOne(g, k, list[i], F[i - 1])]
<1>1. n \in Nat /\ \A i \in 1 .. n : list[i] \in EdgeIds(g)
  OBVIOUS
<1>2. /\ f \in [0 .. n -> Flags(g)] /\ f[0] = s
      /\ \A i \in 1 .. n : i - 1 \in 0 .. n /\ f[i] = TakeOne(g, k, list[i], f[i - 1])
  <2>1. /\ f \in [0 .. n -> Flags(g)] /\ f[0] = s
        /\ \A i \in 1 .. n : f[i] = TakeOne(g, h, list[i], f[i - 1])
        /\ \A i \in 0 .. n : s.vertices \subseteq f[i].vertices
    BY DEF TakeSteps
  <2>2. ASSUME NEW i \in 1 .. n
        PROVE  i - 1 \in 0 .. n /\ f[i] = TakeOne(g, k, list[i], f[i - 1])
    <3>1. i - 1 \in 0 .. n
      BY <1>1
    <3>2. f[i - 1] \in Flags(g) /\ s.vertices \subseteq f[i - 1].vertices
          /\ list[i] \in EdgeIds(g)
      BY <1>1, <2>1, <3>1
    <3>3. TakeOne(g, k, list[i], f[i - 1]) = TakeOne(g, h, list[i], f[i - 1])
      BY <3>2, TakeOneAgrees
    <3> QED
      BY <2>1, <3>1, <3>3
  <2> QED
    BY <2>1, <2>2
<1> HIDE DEF n
<1>3. Is(f)
  <2>1. \A i \in 0 .. n : i # 0 => i \in 1 .. n
    BY <1>1
  <2>2. \A i \in 0 .. n : f[i] = IF i = 0 THEN s ELSE TakeOne(g, k, list[i], f[i - 1])
    BY <1>2, <2>1
  <2>3. f = [i \in 0 .. n |-> f[i]]
    BY <1>2
  <2> QED
    BY <2>2, <2>3
<1>4. ASSUME NEW F, Is(F) PROVE F = f
  <2>1. F = [i \in 0 .. n |-> F[i]]
        /\ \A i \in 0 .. n : F[i] = IF i = 0 THEN s ELSE TakeOne(g, k, list[i], F[i - 1])
    BY <1>4
  <2> DEFINE G == {i \in 0 .. n : F[i] = f[i]}
  <2>2. 0 \in G
    <3>1. 0 \in 0 .. n
      BY <1>1
    <3>2. F[0] = f[0]
      BY <1>2, <2>1, <3>1
    <3> QED
      BY ONLY <3>1, <3>2
  <2>3. ASSUME NEW i \in 0 .. n - 1, i \in G PROVE i + 1 \in G
    <3>1. i + 1 \in 1 .. n /\ (i + 1) - 1 = i /\ i + 1 \in 0 .. n /\ i + 1 # 0
      BY <1>1
    <3>2. F[i + 1] = TakeOne(g, k, list[i + 1], F[(i + 1) - 1])
      BY <2>1, <3>1
    <3>3. f[i + 1] = TakeOne(g, k, list[i + 1], f[(i + 1) - 1])
      BY <1>2, <3>1
    <3>4. F[(i + 1) - 1] = f[(i + 1) - 1]
      BY <2>3, <3>1
    <3>5. F[i + 1] = f[i + 1]
      BY <3>2, <3>3, <3>4
    <3> QED
      BY <3>1, <3>5
  <2>4. \A i \in 0 .. n : i \in G
    <3> HIDE DEF G
    <3> QED
      BY <1>1, <2>2, <2>3, UpTo
  <2> QED
    BY <1>2, <2>1, <2>4
<1>5. TakeEach(g, k, list, s) = (CHOOSE F : Is(F))[n]
  BY DEF TakeEach, TakeOne, n
<1>6. (CHOOSE F : Is(F)) = f
  <2> HIDE DEF Is
  <2> QED
    BY <1>3, <1>4
<1> QED
  BY <1>5, <1>6 DEF n

LEMMA TakeEachAgrees ==
  ASSUME NEW g, IsHyperGraph(g), NEW h \in Visitors(g), NEW list \in Seq(EdgeIds(g)),
         NEW s \in Flags(g), NEW k, Agree(g, k, h, s)
  PROVE  /\ TakeEach(g, k, list, s) = TakeEach(g, h, list, s)
         /\ TakeEach(g, h, list, s) \in Flags(g)
         /\ s.vertices \subseteq TakeEach(g, h, list, s).vertices
<1>1. PICK f : TakeSteps(g, h, list, s, f)
  BY TakeStepsExist
<1>2. Agree(g, h, h, s)
  BY DEF Agree
<1>3. TakeEach(g, k, list, s) = f[Len(list)] /\ TakeEach(g, h, list, s) = f[Len(list)]
  BY <1>1, <1>2, TakeEachSteps
<1>4. Len(list) \in 0 .. Len(list)
  OBVIOUS
<1>5. f[Len(list)] \in Flags(g) /\ s.vertices \subseteq f[Len(list)].vertices
  BY <1>1, <1>4 DEF TakeSteps
<1> QED
  BY <1>3, <1>5

\* What Collected's recursion makes of a vertex and the flags, if k does what
\* the calls do.
Visited(g, k, w, s) ==
  IF w \in s.vertices THEN s
  ELSE TakeEach(g, k, Ascending(VertexHitting(g, w)),
                [s EXCEPT !.vertices = @ \cup {w}])

Unfolded(g, k) ==
  [p \in Vertices(g) \X Flags(g) |-> Visited(g, k, p[1], p[2])]

\* How many vertices are not flagged.
Unflagged(g, s) == Cardinality(Vertices(g) \ s.vertices)

LEMMA LeftProperties ==
  ASSUME NEW g, IsHyperGraph(g), NEW s \in Flags(g)
  PROVE  /\ Unflagged(g, s) \in 0 .. Cardinality(Vertices(g))
         /\ Cardinality(Vertices(g)) \in Nat
         /\ \A w \in Vertices(g) \ s.vertices :
              \A t : s.vertices \cup {w} \subseteq t.vertices => Unflagged(g, t) < Unflagged(g, s)
                                                              /\ Unflagged(g, t) \in Nat
<1> DEFINE V == Vertices(g)
           A == V \ s.vertices
<1>1. IsFiniteSet(V)
  BY EdgesListed
<1>2. /\ IsFiniteSet(A) /\ Cardinality(A) <= Cardinality(V)
      /\ Cardinality(A) \in Nat /\ Cardinality(V) \in Nat
  BY <1>1, FS_Subset, FS_CardinalityType
<1>3. ASSUME NEW w \in A, NEW t, s.vertices \cup {w} \subseteq t.vertices
      PROVE  Unflagged(g, t) < Unflagged(g, s) /\ Unflagged(g, t) \in Nat
  <2> DEFINE B == V \ t.vertices
  <2>1. B \subseteq A \ {w}
    BY <1>3
  <2>2. IsFiniteSet(A \ {w}) /\ Cardinality(A \ {w}) = Cardinality(A) - 1
    BY <1>2, FS_RemoveElement
  <2>3. IsFiniteSet(B) /\ Cardinality(B) <= Cardinality(A) - 1
    BY <2>1, <2>2, FS_Subset
  <2>4. Cardinality(B) \in Nat
    BY <2>3, FS_CardinalityType
  <2> QED
    BY <1>2, <2>3, <2>4 DEF Unflagged
<1> QED
  BY <1>2, <1>3 DEF Unflagged

\* A visit depends only on what the visits do that it makes.
LEMMA VisitedAgrees ==
  ASSUME NEW g, IsHyperGraph(g), NEW h \in Visitors(g), NEW k,
         NEW w \in Vertices(g), NEW s \in Flags(g),
         \A u \in Vertices(g), t \in Flags(g) :
           Unflagged(g, t) < Unflagged(g, s) => k[<<u, t>>] = h[<<u, t>>]
  PROVE  /\ Visited(g, k, w, s) = Visited(g, h, w, s)
         /\ Visited(g, h, w, s) \in Flags(g)
         /\ s.vertices \subseteq Visited(g, h, w, s).vertices
<1>1. CASE w \in s.vertices
  BY <1>1 DEF Visited
<1>2. CASE w \notin s.vertices
  <2>1. PICK t : t = [s EXCEPT !.vertices = @ \cup {w}]
    OBVIOUS
  <2>2. t \in Flags(g) /\ t.vertices = s.vertices \cup {w}
    BY <2>1 DEF Flags
  <2>3. Agree(g, k, h, t)
    <3> SUFFICES ASSUME NEW u \in Vertices(g), NEW r \in Flags(g),
                        t.vertices \subseteq r.vertices
                 PROVE  k[<<u, r>>] = h[<<u, r>>]
      BY DEF Agree
    <3>1. w \in Vertices(g) \ s.vertices /\ s.vertices \cup {w} \subseteq r.vertices
      BY <1>2, <2>2
    <3>2. Unflagged(g, r) < Unflagged(g, s)
      BY <3>1, LeftProperties
    <3> QED
      BY <3>2
  <2>4. PICK list : list = Ascending(VertexHitting(g, w))
    OBVIOUS
  <2>5. list \in Seq(EdgeIds(g))
    BY <2>4, EdgesListed
  <2>6. /\ TakeEach(g, k, list, t) = TakeEach(g, h, list, t)
        /\ TakeEach(g, h, list, t) \in Flags(g)
        /\ t.vertices \subseteq TakeEach(g, h, list, t).vertices
    BY <2>2, <2>3, <2>5, TakeEachAgrees
  <2>7. /\ Visited(g, k, w, s) = TakeEach(g, k, list, t)
        /\ Visited(g, h, w, s) = TakeEach(g, h, list, t)
    BY <1>2, <2>1, <2>4 DEF Visited
  <2> QED
    BY <2>2, <2>6, <2>7
<1> QED
  BY <1>1, <1>2

LEMMA UnfoldedVisitor ==
  ASSUME NEW g, IsHyperGraph(g), NEW h \in Visitors(g)
  PROVE  Unfolded(g, h) \in Visitors(g)
<1>1. \A w \in Vertices(g), s \in Flags(g) :
        /\ Visited(g, h, w, s) \in Flags(g)
        /\ s.vertices \subseteq Visited(g, h, w, s).vertices
  BY VisitedAgrees
<1>2. /\ Unfolded(g, h) \in [Vertices(g) \X Flags(g) -> Flags(g)]
      /\ \A w \in Vertices(g), s \in Flags(g) :
           Unfolded(g, h)[<<w, s>>] = Visited(g, h, w, s)
  BY <1>1 DEF Unfolded
<1> QED
  BY <1>1, <1>2 DEF Visitors

\* The recursion comes to an end: every call has a vertex less to flag.
LEMMA VisitorExists ==
  ASSUME NEW g, IsHyperGraph(g)
  PROVE  \E h \in Visitors(g) : h = Unfolded(g, h)
<1> DEFINE N == Cardinality(Vertices(g))
           S == Visitors(g)
           base == [p \in Vertices(g) \X Flags(g) |-> p[2]]
           step == [i \in 1 .. N + 2 |-> [h \in S |-> Unfolded(g, h)]]
<1>1. N \in Nat
  BY EdgesListed, FS_CardinalityType
<1>2. base \in S
  <2>1. /\ base \in [Vertices(g) \X Flags(g) -> Flags(g)]
        /\ \A w \in Vertices(g), s \in Flags(g) : base[<<w, s>>] = s
    OBVIOUS
  <2> HIDE DEF base
  <2> QED
    BY <2>1 DEF Visitors
<1> HIDE DEF base
<1>3. step \in [1 .. N + 2 -> [S -> S]]
  <2>1. \A h \in S : Unfolded(g, h) \in S
    BY UnfoldedVisitor
  <2> HIDE DEF S, N
  <2> QED
    BY <2>1
<1>4. PICK f \in [0 .. N + 2 -> S] : Iterates(f, base, N + 2, step)
  <2>1. N + 2 \in Nat
    BY <1>1
  <2> HIDE DEF step, S, N
  <2> QED
    BY <1>2, <1>3, <2>1, IterationExists
<1>5. \A i \in 1 .. N + 2 : i - 1 \in 0 .. N + 2 /\ f[i] = Unfolded(g, f[i - 1])
  <2> TAKE i \in 1 .. N + 2
  <2>1. i - 1 \in 0 .. N + 2
    BY <1>1
  <2>2. f[i - 1] \in S
    BY <1>4, <2>1
  <2>3. f[i] = step[i][f[i - 1]]
    BY <1>4 DEF Iterates
  <2> HIDE DEF S
  <2> QED
    BY <2>1, <2>2, <2>3
<1> DEFINE Settled(m) ==
             \A u \in Vertices(g), t \in Flags(g) :
               Unflagged(g, t) < m => f[m][<<u, t>>] = f[m + 1][<<u, t>>]
           G == {m \in 0 .. N + 1 : Settled(m)}
<1>6. 0 \in G
  <2>1. \A t \in Flags(g) : ~(Unflagged(g, t) < 0)
    BY LeftProperties
  <2> QED
    BY <1>1, <2>1
<1>7. ASSUME NEW m \in 0 .. (N + 1) - 1, m \in G PROVE m + 1 \in G
  <2>1. /\ m \in 0 .. N + 2 /\ m + 1 \in 1 .. N + 2 /\ (m + 1) - 1 = m
        /\ (m + 1) + 1 \in 1 .. N + 2 /\ ((m + 1) + 1) - 1 = m + 1
        /\ m + 1 \in 0 .. N + 1 /\ m + 1 \in 0 .. N + 2 /\ m \in Nat
    BY <1>1
  <2>2. PICK a, b, c : a = f[m] /\ b = f[m + 1] /\ c = f[(m + 1) + 1]
    OBVIOUS
  <2>3. b = Unfolded(g, a) /\ c = Unfolded(g, b) /\ a \in Visitors(g) /\ b \in Visitors(g)
    BY <1>4, <1>5, <2>1, <2>2
  <2>4. \A u \in Vertices(g), t \in Flags(g) : Unflagged(g, t) < m => b[<<u, t>>] = a[<<u, t>>]
    BY <1>7, <2>2
  <2>5. ASSUME NEW w \in Vertices(g), NEW s \in Flags(g), Unflagged(g, s) < m + 1
        PROVE  b[<<w, s>>] = c[<<w, s>>]
    <3>1. Unflagged(g, s) \in Nat /\ \A t \in Flags(g) : Unflagged(g, t) \in Nat
      BY <1>1, LeftProperties
    <3>2. \A u \in Vertices(g), t \in Flags(g) :
            Unflagged(g, t) < Unflagged(g, s) => b[<<u, t>>] = a[<<u, t>>]
      BY <2>1, <2>4, <2>5, <3>1
    <3>3. Visited(g, b, w, s) = Visited(g, a, w, s)
      BY <2>3, <3>2, VisitedAgrees
    <3>4. b[<<w, s>>] = Visited(g, a, w, s) /\ c[<<w, s>>] = Visited(g, b, w, s)
      BY <2>3 DEF Unfolded
    <3> QED
      BY <3>3, <3>4
  <2>6. Settled(m + 1)
    BY <2>2, <2>5
  <2> HIDE DEF Settled
  <2> QED
    BY <2>1, <2>6
<1>8. N + 1 \in G
  <2>1. N + 1 \in Nat /\ N + 1 \in 0 .. N + 1
    BY <1>1
  <2>2. \A m \in 0 .. N + 1 : m \in G
    <3> HIDE DEF G, N
    <3> QED
      BY <1>6, <1>7, <2>1, UpTo
  <2> QED
    BY <2>1, <2>2
<1>9. PICK h, h2 : h = f[N + 1] /\ h2 = f[(N + 1) + 1]
  OBVIOUS
<1>10. h \in Visitors(g) /\ h2 = Unfolded(g, h) /\ h2 \in Visitors(g)
  <2>1. /\ N + 1 \in 0 .. N + 2 /\ (N + 1) + 1 \in 1 .. N + 2
        /\ ((N + 1) + 1) - 1 = N + 1
    BY <1>1
  <2>2. h \in Visitors(g) /\ h2 = Unfolded(g, h)
    BY <1>4, <1>5, <1>9, <2>1
  <2> QED
    BY <2>2, UnfoldedVisitor
<1>11. h = h2
  <2>1. \A u \in Vertices(g), t \in Flags(g) : h[<<u, t>>] = h2[<<u, t>>]
    <3> TAKE u \in Vertices(g), t \in Flags(g)
    <3>1. Unflagged(g, t) < N + 1
      BY <1>1, LeftProperties
    <3> QED
      BY <1>8, <1>9, <3>1
  <2>2. h \in [Vertices(g) \X Flags(g) -> Flags(g)] /\ h2 \in [Vertices(g) \X Flags(g) -> Flags(g)]
    BY <1>10 DEF Visitors
  <2> QED
    BY <2>1, <2>2
<1> QED
  BY <1>10, <1>11

\* Collected's recursion is one of these.
LEMMA VisitorUnique ==
  ASSUME NEW g, IsHyperGraph(g), NEW h \in Visitors(g), h = Unfolded(g, h),
         NEW k, k = Unfolded(g, k)
  PROVE  k = h
<1> DEFINE N == Cardinality(Vertices(g))
           Same2(m) == \A u \in Vertices(g), t \in Flags(g) :
                         Unflagged(g, t) < m => k[<<u, t>>] = h[<<u, t>>]
           G == {m \in 0 .. N + 1 : Same2(m)}
<1>1. N \in Nat /\ \A t \in Flags(g) : Unflagged(g, t) \in 0 .. N
  BY EdgesListed, FS_CardinalityType, LeftProperties
<1>2. /\ \A w \in Vertices(g), s \in Flags(g) : k[<<w, s>>] = Visited(g, k, w, s)
      /\ \A w \in Vertices(g), s \in Flags(g) : h[<<w, s>>] = Visited(g, h, w, s)
  <2>1. \A x, w, s : x = Unfolded(g, x) /\ w \in Vertices(g) /\ s \in Flags(g) =>
          x[<<w, s>>] = Visited(g, x, w, s)
    BY DEF Unfolded
  <2> QED
    BY <2>1
<1>3. 0 \in G
  <2>1. \A t \in Flags(g) : ~(Unflagged(g, t) < 0)
    BY <1>1
  <2> QED
    BY <1>1, <2>1
<1>4. ASSUME NEW m \in 0 .. (N + 1) - 1, m \in G PROVE m + 1 \in G
  <2>1. Same2(m + 1)
    <3> SUFFICES ASSUME NEW w \in Vertices(g), NEW s \in Flags(g), Unflagged(g, s) < m + 1
                 PROVE  k[<<w, s>>] = h[<<w, s>>]
      OBVIOUS
    <3>1. \A u \in Vertices(g), t \in Flags(g) :
            Unflagged(g, t) < Unflagged(g, s) => k[<<u, t>>] = h[<<u, t>>]
      <4> TAKE u \in Vertices(g), t \in Flags(g)
      <4>1. Unflagged(g, t) < Unflagged(g, s) => Unflagged(g, t) < m
        BY <1>1
      <4> QED
        BY <1>4, <4>1
    <3>2. Visited(g, k, w, s) = Visited(g, h, w, s)
      BY <3>1, VisitedAgrees
    <3> QED
      BY <1>2, <3>2
  <2> HIDE DEF Same2
  <2> QED
    BY <1>1, <2>1
<1>5. N + 1 \in G
  <2>1. N + 1 \in Nat /\ N + 1 \in 0 .. N + 1
    BY <1>1
  <2>2. \A m \in 0 .. N + 1 : m \in G
    <3> HIDE DEF G, N
    <3> QED
      BY <1>3, <1>4, <2>1, UpTo
  <2> QED
    BY <2>1, <2>2
<1>6. \A u \in Vertices(g), t \in Flags(g) : k[<<u, t>>] = h[<<u, t>>]
  <2> TAKE u \in Vertices(g), t \in Flags(g)
  <2>1. Unflagged(g, t) < N + 1
    BY <1>1
  <2> QED
    BY <1>5, <2>1
<1>7. /\ k = [p \in Vertices(g) \X Flags(g) |-> k[p]]
      /\ h = [p \in Vertices(g) \X Flags(g) |-> h[p]]
  BY DEF Unfolded
<1>8. \A p \in Vertices(g) \X Flags(g) : k[p] = h[p]
  BY <1>6
<1> QED
  BY <1>7, <1>8

\* Between the flags s and r nothing is lost, no edge is taken a second time,
\* every vertex and every edge that came is dealt with, and what came cannot
\* be separated from X.
Grows(g, X, s, r) ==
  /\ s.vertices \subseteq r.vertices
  /\ ToSet(s.edges) \subseteq ToSet(r.edges)
  /\ Distinct(s.edges) => Distinct(r.edges)
  /\ \A x \in r.vertices \ s.vertices : VertexHitting(g, x) \subseteq ToSet(r.edges)
  /\ \A e \in ToSet(r.edges) \ ToSet(s.edges) : g[e] \subseteq r.vertices /\ g[e] # {}
  /\ \A S \in SUBSET Vertices(g) :
       Separates(g, S) /\ X \subseteq S =>
         /\ r.vertices \ s.vertices \subseteq S
         /\ \A e \in ToSet(r.edges) \ ToSet(s.edges) : g[e] \subseteq S

\* A visit of a vertex does so, and flags it.
GrowsBy(g, h, u, t) ==
  Grows(g, {u}, t, h[<<u, t>>]) /\ u \in h[<<u, t>>].vertices

\* All visits do that start where the vertices of s are flagged.
GrowsFrom(g, h, s) ==
  \A u \in Vertices(g), t \in Flags(g) :
    s.vertices \subseteq t.vertices => GrowsBy(g, h, u, t)

LEMMA GrowsNot ==
  ASSUME NEW g, NEW X, NEW s
  PROVE  Grows(g, X, s, s)
BY DEF Grows

LEMMA GrowsOn ==
  ASSUME NEW g, NEW X, NEW Y \in SUBSET X, NEW s, NEW t, NEW r,
         Grows(g, X, s, t), Grows(g, Y, t, r)
  PROVE  Grows(g, X, s, r)
<1>1. PICK sv, tv, rv : sv = s.vertices /\ tv = t.vertices /\ rv = r.vertices
  OBVIOUS
<1>2. PICK se, te, re : se = ToSet(s.edges) /\ te = ToSet(t.edges) /\ re = ToSet(r.edges)
  OBVIOUS
<1>3. sv \subseteq tv /\ tv \subseteq rv /\ se \subseteq te /\ te \subseteq re
  BY <1>1, <1>2 DEF Grows
<1>4. Distinct(s.edges) => Distinct(r.edges)
  BY DEF Grows
<1>5. \A x \in rv \ sv : VertexHitting(g, x) \subseteq re
  <2>1. \A x \in tv \ sv : VertexHitting(g, x) \subseteq te
    BY <1>1, <1>2 DEF Grows
  <2>2. \A x \in rv \ tv : VertexHitting(g, x) \subseteq re
    BY <1>1, <1>2 DEF Grows
  <2> QED
    BY <1>3, <2>1, <2>2
<1>6. \A e \in re \ se : g[e] \subseteq rv /\ g[e] # {}
  <2>1. \A e \in te \ se : g[e] \subseteq tv /\ g[e] # {}
    BY <1>1, <1>2 DEF Grows
  <2>2. \A e \in re \ te : g[e] \subseteq rv /\ g[e] # {}
    BY <1>1, <1>2 DEF Grows
  <2> QED
    BY <1>3, <2>1, <2>2
<1>7. \A S \in SUBSET Vertices(g) :
        Separates(g, S) /\ X \subseteq S =>
          rv \ sv \subseteq S /\ \A e \in re \ se : g[e] \subseteq S
  <2> SUFFICES ASSUME NEW S \in SUBSET Vertices(g), Separates(g, S), X \subseteq S
               PROVE  rv \ sv \subseteq S /\ \A e \in re \ se : g[e] \subseteq S
    OBVIOUS
  <2>1. tv \ sv \subseteq S /\ \A e \in te \ se : g[e] \subseteq S
    BY <1>1, <1>2 DEF Grows
  <2>2. rv \ tv \subseteq S /\ \A e \in re \ te : g[e] \subseteq S
    BY <1>1, <1>2 DEF Grows
  <2> QED
    BY <2>1, <2>2
<1> QED
  BY <1>1, <1>2, <1>3, <1>4, <1>5, <1>6, <1>7 DEF Grows

LEMMA VisitEachGrows ==
  ASSUME NEW g, IsHyperGraph(g), NEW h \in Visitors(g), NEW list \in Seq(Vertices(g)),
         NEW s \in Flags(g), GrowsFrom(g, h, s)
  PROVE  /\ Grows(g, ToSet(list), s, VisitEach(h, list, s))
         /\ ToSet(list) \subseteq VisitEach(h, list, s).vertices
<1>1. PICK f : VisitSteps(g, h, list, s, f)
  BY VisitStepsExist
<1>2. VisitEach(h, list, s) = f[Len(list)]
  <2>1. Agree(g, h, h, s)
    BY DEF Agree
  <2> QED
    BY <1>1, <2>1, VisitEachSteps
<1>3. PICK n, X : n = Len(list) /\ X = ToSet(list)
  OBVIOUS
<1>4. n \in Nat /\ \A i \in 1 .. n : list[i] \in X /\ list[i] \in Vertices(g)
  BY <1>3 DEF ToSet
<1>5. /\ f \in [0 .. n -> Flags(g)] /\ f[0] = s
      /\ \A i \in 1 .. n : f[i] = h[<<list[i], f[i - 1]>>]
      /\ \A i \in 0 .. n : s.vertices \subseteq f[i].vertices
  BY <1>1, <1>3 DEF VisitSteps
<1> DEFINE G == {i \in 0 .. n : Grows(g, X, s, f[i])
                                /\ \A j \in 1 .. i : list[j] \in f[i].vertices}
<1>6. 0 \in G
  <2>1. 0 \in 0 .. n
    BY <1>4
  <2>2. Grows(g, X, s, f[0])
    BY <1>5, GrowsNot
  <2>3. \A j \in 1 .. 0 : list[j] \in f[0].vertices
    OBVIOUS
  <2> QED
    BY ONLY <2>1, <2>2, <2>3
<1>7. ASSUME NEW i \in 0 .. n - 1, i \in G PROVE i + 1 \in G
  <2>1. i + 1 \in 1 .. n /\ (i + 1) - 1 = i /\ i \in 0 .. n /\ i + 1 \in 0 .. n
    BY <1>4
  <2>2. PICK w, t, r : w = list[i + 1] /\ t = f[i] /\ r = f[i + 1]
    OBVIOUS
  <2>3. /\ r = h[<<w, t>>] /\ t \in Flags(g) /\ s.vertices \subseteq t.vertices
        /\ w \in Vertices(g) /\ w \in X
    BY <1>4, <1>5, <2>1, <2>2
  <2>4. Grows(g, {w}, t, r) /\ w \in r.vertices
    BY <2>3 DEF GrowsFrom, GrowsBy
  <2>5. Grows(g, X, s, t) /\ \A j \in 1 .. i : list[j] \in t.vertices
    BY <1>7, <2>2
  <2>6. Grows(g, X, s, r)
    <3>1. {w} \in SUBSET X
      BY <2>3
    <3> QED
      BY <2>4, <2>5, <3>1, GrowsOn
  <2>7. t.vertices \subseteq r.vertices
    BY <2>4 DEF Grows
  <2>8. \A j \in 1 .. i + 1 : list[j] \in r.vertices
    <3> TAKE j \in 1 .. i + 1
    <3>1. j = i + 1 \/ j \in 1 .. i
      BY <1>4
    <3> QED
      BY <2>2, <2>4, <2>5, <2>7, <3>1
  <2> QED
    BY <2>1, <2>2, <2>6, <2>8
<1>8. n \in G
  <2>1. \A i \in 0 .. n : i \in G
    <3> HIDE DEF G
    <3> QED
      BY <1>4, <1>6, <1>7, UpTo
  <2>2. n \in 0 .. n
    BY <1>4
  <2> QED
    BY <2>1, <2>2
<1>9. Grows(g, X, s, f[n]) /\ \A j \in 1 .. n : list[j] \in f[n].vertices
  BY <1>8
<1>10. X \subseteq f[n].vertices
  BY <1>3, <1>9 DEF ToSet
<1> QED
  BY <1>2, <1>3, <1>9, <1>10

LEMMA TakeOneGrows ==
  ASSUME NEW g, IsHyperGraph(g), NEW h \in Visitors(g), NEW e \in EdgeIds(g),
         NEW w \in g[e], NEW s \in Flags(g), GrowsFrom(g, h, s)
  PROVE  /\ Grows(g, {w}, s, TakeOne(g, h, e, s))
         /\ e \in ToSet(TakeOne(g, h, e, s).edges)
<1>1. CASE e \in ToSet(s.edges)
  <2>1. TakeOne(g, h, e, s) = s
    BY <1>1 DEF TakeOne
  <2> QED
    BY <1>1, <2>1, GrowsNot
<1>2. CASE e \notin ToSet(s.edges)
  <2>1. PICK x, y : x = s.vertices /\ y = s.edges
    OBVIOUS
  <2>2. x \in SUBSET Vertices(g) /\ y \in Seq(EdgeIds(g)) /\ s = [vertices |-> x, edges |-> y]
    BY <2>1 DEF Flags
  <2>3. PICK z : z = Append(y, e)
    OBVIOUS
  <2>4. /\ z \in Seq(EdgeIds(g)) /\ Len(z) = Len(y) + 1 /\ Len(y) \in Nat
        /\ z[Len(y) + 1] = e /\ \A i \in 1 .. Len(y) : z[i] = y[i]
    BY <2>2, <2>3
  <2>5. ToSet(z) = ToSet(y) \cup {e}
    <3>1. /\ ToSet(z) = {z[i] : i \in 1 .. Len(y) + 1}
          /\ ToSet(y) = {y[i] : i \in 1 .. Len(y)}
      BY <2>2, <2>4 DEF ToSet
    <3>2. \A i : i \in 1 .. Len(y) + 1 <=> i \in 1 .. Len(y) \/ i = Len(y) + 1
      BY <2>4
    <3> QED
      BY <2>4, <3>1, <3>2
  <2>6. Distinct(y) => Distinct(z)
    <3> SUFFICES ASSUME Distinct(y), NEW i \in 1 .. Len(z), NEW j \in 1 .. Len(z),
                        z[i] = z[j]
                 PROVE  i = j
      BY DEF Distinct
    <3>1. \A k \in 1 .. Len(z) : k \in 1 .. Len(y) \/ k = Len(y) + 1
      BY <2>4
    <3>2. \A k \in 1 .. Len(y) : z[k] # e
      <4>1. \A k \in 1 .. Len(y) : y[k] \in ToSet(y)
        BY <2>2 DEF ToSet
      <4> QED
        BY <1>2, <2>1, <2>4, <4>1
    <3>3. CASE i \in 1 .. Len(y) /\ j \in 1 .. Len(y)
      BY <2>4, <3>3 DEF Distinct
    <3>4. CASE i = Len(y) + 1 \/ j = Len(y) + 1
      BY <2>4, <3>1, <3>2, <3>4
    <3> QED
      BY <3>1, <3>3, <3>4
  <2>7. PICK t : t = [vertices |-> x, edges |-> z]
    OBVIOUS
  <2>8. t \in Flags(g) /\ t = [s EXCEPT !.edges = Append(@, e)] /\ t.vertices = x
        /\ t.edges = z
    <3>1. t \in Flags(g)
      BY <2>2, <2>4, <2>7 DEF Flags
    <3>2. t = [s EXCEPT !.edges = Append(@, e)]
      <4>1. t = [s EXCEPT !.edges = z]
        BY <2>2, <2>7
      <4>2. [s EXCEPT !.edges = Append(@, e)] = [s EXCEPT !.edges = z]
        BY <2>1, <2>3
      <4> QED
        BY ONLY <4>1, <4>2
    <3>3. t.vertices = x /\ t.edges = z
      BY <2>7
    <3> QED
      BY <3>1, <3>2, <3>3
  <2>9. GrowsFrom(g, h, t)
    BY <2>1, <2>8 DEF GrowsFrom
  <2>10. PICK list : list = Ascending(g[e])
    OBVIOUS
  <2>11. list \in Seq(Vertices(g)) /\ ToSet(list) = g[e] /\ g[e] \subseteq Vertices(g)
    BY <2>10, EdgesListed
  <2>12. PICK r : r = VisitEach(h, list, t)
    OBVIOUS
  <2>13. Grows(g, g[e], t, r) /\ g[e] \subseteq r.vertices
    BY <2>8, <2>9, <2>11, <2>12, VisitEachGrows
  <2>14. TakeOne(g, h, e, s) = r
    BY <1>2, <2>8, <2>10, <2>12 DEF TakeOne
  <2>15. PICK R : R = ToSet(r.edges)
    OBVIOUS
  <2>16. /\ x \subseteq r.vertices /\ ToSet(z) \subseteq R
         /\ Distinct(z) => Distinct(r.edges)
         /\ \A v \in r.vertices \ x : VertexHitting(g, v) \subseteq R
         /\ \A d \in R \ ToSet(z) : g[d] \subseteq r.vertices /\ g[d] # {}
         /\ \A S \in SUBSET Vertices(g) :
              Separates(g, S) /\ g[e] \subseteq S =>
                /\ r.vertices \ x \subseteq S
                /\ \A d \in R \ ToSet(z) : g[d] \subseteq S
    BY <2>8, <2>13, <2>15 DEF Grows
  <2>17. \A d \in R \ ToSet(y) : d = e \/ d \in R \ ToSet(z)
    BY <2>5
  <2>18. \A d \in R \ ToSet(y) : g[d] \subseteq r.vertices /\ g[d] # {}
    BY <2>13, <2>16, <2>17
  <2>19. ASSUME NEW S \in SUBSET Vertices(g), Separates(g, S), {w} \subseteq S
         PROVE  r.vertices \ x \subseteq S /\ \A d \in R \ ToSet(y) : g[d] \subseteq S
    <3>1. g[e] \subseteq S
      BY <2>19 DEF Separates
    <3> QED
      BY <2>16, <2>17, <2>19, <3>1
  <2>20. Grows(g, {w}, s, r)
    BY <2>1, <2>5, <2>6, <2>15, <2>16, <2>18, <2>19 DEF Grows
  <2>21. e \in ToSet(r.edges)
    BY <2>5, <2>15, <2>16
  <2> QED
    BY <2>14, <2>20, <2>21
<1> QED
  BY <1>1, <1>2

LEMMA TakeEachGrows ==
  ASSUME NEW g, IsHyperGraph(g), NEW h \in Visitors(g), NEW list \in Seq(EdgeIds(g)),
         NEW s \in Flags(g), GrowsFrom(g, h, s),
         NEW w, \A i \in 1 .. Len(list) : w \in g[list[i]]
  PROVE  /\ Grows(g, {w}, s, TakeEach(g, h, list, s))
         /\ ToSet(list) \subseteq ToSet(TakeEach(g, h, list, s).edges)
<1>1. PICK f : TakeSteps(g, h, list, s, f)
  BY TakeStepsExist
<1>2. TakeEach(g, h, list, s) = f[Len(list)]
  <2>1. Agree(g, h, h, s)
    BY DEF Agree
  <2> QED
    BY <1>1, <2>1, TakeEachSteps
<1>3. PICK n : n = Len(list)
  OBVIOUS
<1>4. n \in Nat /\ \A i \in 1 .. n : w \in g[list[i]] /\ list[i] \in EdgeIds(g)
  BY <1>3
<1>5. /\ f \in [0 .. n -> Flags(g)] /\ f[0] = s
      /\ \A i \in 1 .. n : f[i] = TakeOne(g, h, list[i], f[i - 1])
      /\ \A i \in 0 .. n : s.vertices \subseteq f[i].vertices
  BY <1>1, <1>3 DEF TakeSteps
<1> DEFINE G == {i \in 0 .. n : Grows(g, {w}, s, f[i])
                                /\ \A j \in 1 .. i : list[j] \in ToSet(f[i].edges)}
<1>6. 0 \in G
  <2>1. 0 \in 0 .. n
    BY <1>4
  <2>2. Grows(g, {w}, s, f[0])
    BY <1>5, GrowsNot
  <2>3. \A j \in 1 .. 0 : list[j] \in ToSet(f[0].edges)
    OBVIOUS
  <2> QED
    BY ONLY <2>1, <2>2, <2>3
<1>7. ASSUME NEW i \in 0 .. n - 1, i \in G PROVE i + 1 \in G
  <2>1. i + 1 \in 1 .. n /\ (i + 1) - 1 = i /\ i \in 0 .. n /\ i + 1 \in 0 .. n
    BY <1>4
  <2>2. PICK e, t, r : e = list[i + 1] /\ t = f[i] /\ r = f[i + 1]
    OBVIOUS
  <2>3. /\ r = TakeOne(g, h, e, t) /\ t \in Flags(g) /\ s.vertices \subseteq t.vertices
        /\ e \in EdgeIds(g) /\ w \in g[e]
    BY <1>4, <1>5, <2>1, <2>2
  <2>4. GrowsFrom(g, h, t)
    BY <2>3 DEF GrowsFrom
  <2>5. Grows(g, {w}, t, r) /\ e \in ToSet(r.edges)
    BY <2>3, <2>4, TakeOneGrows
  <2>6. Grows(g, {w}, s, t) /\ \A j \in 1 .. i : list[j] \in ToSet(t.edges)
    BY <1>7, <2>2
  <2>7. Grows(g, {w}, s, r)
    <3>1. {w} \in SUBSET {w}
      OBVIOUS
    <3> QED
      BY <2>5, <2>6, <3>1, GrowsOn
  <2>8. ToSet(t.edges) \subseteq ToSet(r.edges)
    BY <2>5 DEF Grows
  <2>9. \A j \in 1 .. i + 1 : list[j] \in ToSet(r.edges)
    <3> TAKE j \in 1 .. i + 1
    <3>1. j = i + 1 \/ j \in 1 .. i
      BY <1>4
    <3> QED
      BY <2>2, <2>5, <2>6, <2>8, <3>1
  <2> QED
    BY <2>1, <2>2, <2>7, <2>9
<1>8. n \in G
  <2>1. \A i \in 0 .. n : i \in G
    <3> HIDE DEF G
    <3> QED
      BY <1>4, <1>6, <1>7, UpTo
  <2>2. n \in 0 .. n
    BY <1>4
  <2> QED
    BY <2>1, <2>2
<1>9. Grows(g, {w}, s, f[n]) /\ \A j \in 1 .. n : list[j] \in ToSet(f[n].edges)
  BY <1>8
<1>10. ToSet(list) \subseteq ToSet(f[n].edges)
  <2>1. ToSet(list) = {list[j] : j \in 1 .. n}
    BY <1>3 DEF ToSet
  <2> QED
    BY <1>9, <2>1
<1> QED
  BY <1>2, <1>3, <1>9, <1>10

LEMMA VisitedGrows ==
  ASSUME NEW g, IsHyperGraph(g), NEW h \in Visitors(g),
         NEW w \in Vertices(g), NEW s \in Flags(g),
         \A u \in Vertices(g), t \in Flags(g) :
           Unflagged(g, t) < Unflagged(g, s) => GrowsBy(g, h, u, t)
  PROVE  /\ Grows(g, {w}, s, Visited(g, h, w, s))
         /\ w \in Visited(g, h, w, s).vertices
<1>1. CASE w \in s.vertices
  <2>1. Visited(g, h, w, s) = s
    BY <1>1 DEF Visited
  <2> QED
    BY <1>1, <2>1, GrowsNot
<1>2. CASE w \notin s.vertices
  <2>1. PICK t : t = [s EXCEPT !.vertices = @ \cup {w}]
    OBVIOUS
  <2>2. t \in Flags(g) /\ t.vertices = s.vertices \cup {w} /\ t.edges = s.edges
    BY <2>1 DEF Flags
  <2>3. GrowsFrom(g, h, t)
    <3> SUFFICES ASSUME NEW u \in Vertices(g), NEW r \in Flags(g),
                        t.vertices \subseteq r.vertices
                 PROVE  GrowsBy(g, h, u, r)
      BY DEF GrowsFrom
    <3>1. w \in Vertices(g) \ s.vertices /\ s.vertices \cup {w} \subseteq r.vertices
      BY <1>2, <2>2
    <3>2. Unflagged(g, r) < Unflagged(g, s)
      BY <3>1, LeftProperties
    <3> QED
      BY <3>2
  <2>4. PICK list : list = Ascending(VertexHitting(g, w))
    OBVIOUS
  <2>5. list \in Seq(EdgeIds(g)) /\ ToSet(list) = VertexHitting(g, w)
    BY <2>4, EdgesListed
  <2>6. \A i \in 1 .. Len(list) : w \in g[list[i]]
    <3>1. \A i \in 1 .. Len(list) : list[i] \in ToSet(list)
      BY <2>5 DEF ToSet
    <3> QED
      BY <2>5, <3>1 DEF VertexHitting
  <2>7. PICK r : r = TakeEach(g, h, list, t)
    OBVIOUS
  <2>8. Grows(g, {w}, t, r) /\ VertexHitting(g, w) \subseteq ToSet(r.edges)
    BY <2>2, <2>3, <2>5, <2>6, <2>7, TakeEachGrows
  <2>9. Visited(g, h, w, s) = r
    BY <1>2, <2>1, <2>4, <2>7 DEF Visited
  <2>10. PICK x, y : x = s.vertices /\ y = s.edges
    OBVIOUS
  <2>11. PICK R : R = ToSet(r.edges)
    OBVIOUS
  <2>12. /\ x \cup {w} \subseteq r.vertices /\ ToSet(y) \subseteq R
         /\ Distinct(y) => Distinct(r.edges)
         /\ \A v \in r.vertices \ (x \cup {w}) : VertexHitting(g, v) \subseteq R
         /\ \A d \in R \ ToSet(y) : g[d] \subseteq r.vertices /\ g[d] # {}
         /\ \A S \in SUBSET Vertices(g) :
              Separates(g, S) /\ {w} \subseteq S =>
                /\ r.vertices \ (x \cup {w}) \subseteq S
                /\ \A d \in R \ ToSet(y) : g[d] \subseteq S
    BY <2>2, <2>8, <2>10, <2>11 DEF Grows
  <2>13. \A v \in r.vertices \ x : VertexHitting(g, v) \subseteq R
    BY <2>8, <2>11, <2>12
  <2>14. ASSUME NEW S \in SUBSET Vertices(g), Separates(g, S), {w} \subseteq S
         PROVE  r.vertices \ x \subseteq S /\ \A d \in R \ ToSet(y) : g[d] \subseteq S
    BY <2>12, <2>14
  <2>15. Grows(g, {w}, s, r) /\ w \in r.vertices
    BY <2>10, <2>11, <2>12, <2>13, <2>14 DEF Grows
  <2> QED
    BY <2>9, <2>15
<1> QED
  BY <1>1, <1>2

\* By induction on the vertices that are left.
LEMMA VisitorGrows ==
  ASSUME NEW g, IsHyperGraph(g), NEW h \in Visitors(g), h = Unfolded(g, h),
         NEW v \in Vertices(g), NEW r \in Flags(g)
  PROVE  GrowsBy(g, h, v, r)
<1>1. PICK N : N = Cardinality(Vertices(g))
  OBVIOUS
<1>2. N \in Nat /\ \A t \in Flags(g) : Unflagged(g, t) \in 0 .. N
  BY <1>1, EdgesListed, FS_CardinalityType, LeftProperties
<1>3. \A w \in Vertices(g), s \in Flags(g) : h[<<w, s>>] = Visited(g, h, w, s)
  <2>1. \A x, w, s : x = Unfolded(g, x) /\ w \in Vertices(g) /\ s \in Flags(g) =>
          x[<<w, s>>] = Visited(g, x, w, s)
    BY DEF Unfolded
  <2> QED
    BY <2>1
<1> DEFINE Below(m) == \A u \in Vertices(g), t \in Flags(g) :
                         Unflagged(g, t) < m => GrowsBy(g, h, u, t)
           G == {m \in 0 .. N + 1 : Below(m)}
<1>4. 0 \in G
  <2>1. \A t \in Flags(g) : ~(Unflagged(g, t) < 0)
    BY <1>2
  <2> QED
    BY <1>2, <2>1
<1>5. ASSUME NEW m \in 0 .. (N + 1) - 1, m \in G PROVE m + 1 \in G
  <2>1. Below(m + 1)
    <3> SUFFICES ASSUME NEW w \in Vertices(g), NEW s \in Flags(g), Unflagged(g, s) < m + 1
                 PROVE  GrowsBy(g, h, w, s)
      OBVIOUS
    <3>1. \A u \in Vertices(g), t \in Flags(g) :
            Unflagged(g, t) < Unflagged(g, s) => GrowsBy(g, h, u, t)
      <4> TAKE u \in Vertices(g), t \in Flags(g)
      <4>1. Unflagged(g, t) < Unflagged(g, s) => Unflagged(g, t) < m
        BY <1>2
      <4> QED
        BY <1>5, <4>1
    <3>2. /\ Grows(g, {w}, s, Visited(g, h, w, s))
          /\ w \in Visited(g, h, w, s).vertices
      BY <3>1, VisitedGrows
    <3> QED
      BY <1>3, <3>2 DEF GrowsBy
  <2> HIDE DEF Below
  <2> QED
    BY <1>2, <2>1
<1>6. N + 1 \in G
  <2>1. N + 1 \in Nat /\ N + 1 \in 0 .. N + 1
    BY <1>2
  <2>2. \A m \in 0 .. N + 1 : m \in G
    <3> HIDE DEF G
    <3> QED
      BY <1>4, <1>5, <2>1, UpTo
  <2> QED
    BY <2>1, <2>2
<1>7. Unflagged(g, r) < N + 1
  BY <1>2
<1> QED
  BY <1>6, <1>7

\* What Collected is to collect: the smallest set of vertices that holds v and
\* can be separated, and each of its edges once.
IsCollected(g, v, r) ==
  /\ r \in Flags(g) /\ v \in r.vertices /\ Distinct(r.edges)
  /\ ToSet(r.edges) = {e \in EdgeIds(g) : g[e] \cap r.vertices # {}}
  /\ Separates(g, r.vertices)
  /\ \A S \in SUBSET Vertices(g) :
       Separates(g, S) /\ v \in S => r.vertices \subseteq S

LEMMA CollectedProperties ==
  ASSUME NEW g, IsHyperGraph(g), NEW v \in Vertices(g)
  PROVE  IsCollected(g, v, Collected(g, v))
<1>1. PICK h \in Visitors(g) : h = Unfolded(g, h)
  BY VisitorExists
<1>2. PICK s : s = [vertices |-> {}, edges |-> <<>>]
  OBVIOUS
<1>3. s \in Flags(g) /\ s.vertices = {} /\ s.edges = <<>>
  <2>1. <<>> \in Seq(EdgeIds(g))
    OBVIOUS
  <2> QED
    BY <1>2, <2>1 DEF Flags
<1> DEFINE Is(F) ==
             F = [p \in Vertices(g) \X Flags(g) |->
                    IF p[1] \in p[2].vertices THEN p[2]
                    ELSE TakeEach(g, F, Ascending(VertexHitting(g, p[1])),
                                  [p[2] EXCEPT !.vertices = @ \cup {p[1]}])]
<1>4. Collected(g, v) = (CHOOSE F : Is(F))[<<v, s>>]
  BY <1>2 DEF Collected
<1>5. \A F : Is(F) <=> F = Unfolded(g, F)
  BY DEF Unfolded, Visited
<1>6. (CHOOSE F : Is(F)) = h
  <2> HIDE DEF Is
  <2>1. \A F : Is(F) => F = h
    BY <1>1, <1>5, VisitorUnique
  <2>2. Is(h)
    BY <1>1, <1>5
  <2> QED
    BY <2>1, <2>2
<1>7. PICK r : r = h[<<v, s>>]
  OBVIOUS
<1>8. Collected(g, v) = r
  BY ONLY <1>4, <1>6, <1>7
<1>9. Grows(g, {v}, s, r) /\ v \in r.vertices
  BY <1>1, <1>3, <1>7, VisitorGrows DEF GrowsBy
<1>10. r \in Flags(g)
  BY <1>1, <1>3, <1>7 DEF Visitors
<1>11. ToSet(s.edges) = {} /\ Distinct(s.edges)
  <2>1. ToSet(<<>>) = {} /\ Distinct(<<>>)
    BY DEF ToSet, Distinct
  <2> QED
    BY <1>3, <2>1
<1>12. PICK C, E : C = r.vertices /\ E = ToSet(r.edges)
  OBVIOUS
<1>13. /\ Distinct(r.edges)
       /\ \A x \in C : VertexHitting(g, x) \subseteq E
       /\ \A e \in E : g[e] \subseteq C /\ g[e] # {}
       /\ \A S \in SUBSET Vertices(g) : Separates(g, S) /\ {v} \subseteq S => C \subseteq S
  BY <1>3, <1>9, <1>11, <1>12 DEF Grows
<1>14. C \subseteq Vertices(g) /\ E \subseteq EdgeIds(g)
  <2>1. r.edges \in Seq(EdgeIds(g)) /\ r.vertices \in SUBSET Vertices(g)
    BY <1>10 DEF Flags
  <2>2. ToSet(r.edges) \subseteq EdgeIds(g)
    BY <2>1 DEF ToSet
  <2> QED
    BY <1>12, <2>1, <2>2
<1>15. E = {e \in EdgeIds(g) : g[e] \cap C # {}}
  <2>1. \A e \in EdgeIds(g) : g[e] \cap C # {} => e \in E
    BY <1>13 DEF VertexHitting
  <2> QED
    BY <1>13, <1>14, <2>1
<1>16. Separates(g, C)
  BY <1>13, <1>15 DEF Separates
<1>17. IsCollected(g, v, r)
  BY <1>9, <1>10, <1>12, <1>13, <1>15, <1>16 DEF IsCollected
<1> QED
  BY <1>8, <1>17

\* k has as many edges with these vertices as g.
AsOften(g, k, edge) ==
  Cardinality({e \in EdgeIds(k) : k[e] = edge}) = Cardinality({e \in EdgeIds(g) : g[e] = edge})

\* Every edge of k is one of g, and not empty.
EdgesOf(g, k) == \A e \in EdgeIds(k) : \E f \in EdgeIds(g) : k[e] = g[f] /\ g[f] # {}

\* k is the component of g that v is in.
IsSubGraph(g, v, k) ==
  /\ IsHyperGraph(k) /\ EdgeIds(k) \subseteq EdgeIds(g)
  /\ IsConnected(k) /\ Separates(g, Vertices(k))
  /\ v \in Vertices(k) /\ Vertices(k) \subseteq Vertices(g)
  /\ \A S \in SUBSET Vertices(g) :
       Separates(g, S) /\ v \in S => Vertices(k) \subseteq S
  /\ \A e \in EdgeIds(g) : g[e] \cap Vertices(k) # {} => AsOften(g, k, g[e])
  /\ EdgesOf(g, k)

LEMMA SubGraphProperties ==
  ASSUME NEW g, IsHyperGraph(g), NEW v \in Vertices(g)
  PROVE  IsSubGraph(g, v, SubGraph(g, v))
<1>1. PICK r : r = Collected(g, v)
  OBVIOUS
<1>2. IsCollected(g, v, r)
  BY <1>1, CollectedProperties
<1>3. PICK C, l, n : C = r.vertices /\ l = r.edges /\ n = Len(r.edges)
  OBVIOUS
<1>4. /\ C \subseteq Vertices(g) /\ l \in Seq(EdgeIds(g)) /\ n = Len(l) /\ n \in Nat
      /\ v \in C /\ Distinct(l) /\ Separates(g, C)
      /\ ToSet(l) = {e \in EdgeIds(g) : g[e] \cap C # {}}
      /\ \A S \in SUBSET Vertices(g) : Separates(g, S) /\ v \in S => C \subseteq S
  <2>1. r \in Flags(g)
    BY <1>2 DEF IsCollected
  <2>2. C \in SUBSET Vertices(g) /\ l \in Seq(EdgeIds(g))
    BY <1>3, <2>1 DEF Flags
  <2>3. n = Len(l) /\ n \in Nat
    BY <1>3, <2>2
  <2> QED
    BY <1>2, <1>3, <2>2, <2>3 DEF IsCollected
<1>5. PICK k : k = SubGraph(g, v)
  OBVIOUS
<1>6. k = [e \in 0 .. n - 1 |-> g[l[e + 1]]]
  BY <1>1, <1>3, <1>5 DEF SubGraph
<1>7. /\ EdgeIds(k) = 0 .. n - 1
      /\ \A e \in 0 .. n - 1 : e + 1 \in 1 .. n /\ k[e] = g[l[e + 1]]
  <2>1. \A e \in 0 .. n - 1 : e + 1 \in 1 .. n
    BY <1>4
  <2> QED
    BY <1>6, <2>1 DEF EdgeIds
<1>8. \A i \in 1 .. n : l[i] \in EdgeIds(g) /\ l[i] \in ToSet(l)
  BY <1>4 DEF ToSet
<1>9. \A e \in ToSet(l) : \E i \in 0 .. n - 1 : l[i + 1] = e /\ k[i] = g[e]
  <2> TAKE e \in ToSet(l)
  <2>1. ToSet(l) = {l[i] : i \in 1 .. n}
    BY <1>4 DEF ToSet
  <2>2. PICK i \in 1 .. n : l[i] = e
    BY <2>1
  <2>3. i - 1 \in 0 .. n - 1 /\ (i - 1) + 1 = i
    BY <1>4
  <2> QED
    BY <1>7, <2>2, <2>3
<1>10. \A e \in EdgeIds(k) : \E f \in ToSet(l) : f = l[e + 1] /\ k[e] = g[f]
  BY <1>7, <1>8
<1>11. \A e \in ToSet(l) : g[e] \subseteq C /\ g[e] # {}
  BY <1>4 DEF Separates
<1>12. IsHyperGraph(k)
  <2>1. EdgeNum(k) = n /\ IsFiniteSet(EdgeIds(k))
    <3>1. IsFiniteSet(0 .. n - 1) /\ Cardinality(0 .. n - 1) = n
      <4>1. 0 \in Int /\ n - 1 \in Int /\ (IF 0 > n - 1 THEN 0 ELSE n - 1 - 0 + 1) = n
        BY <1>4
      <4> QED
        BY <4>1, FS_Interval
    <3> QED
      BY <1>7, <3>1 DEF EdgeNum
  <2>2. \A e \in EdgeIds(g) : g[e] \in SUBSET (0 .. MaxBit - 1)
    BY IsHyperGraphProperties DEF IsHyperGraph
  <2>3. k \in [0 .. n - 1 -> SUBSET (0 .. MaxBit - 1)]
    BY <1>6, <1>7, <1>8, <2>2
  <2> QED
    BY <2>1, <2>3 DEF IsHyperGraph
<1>13. EdgeIds(k) \subseteq EdgeIds(g)
  <2>1. /\ IsFiniteSet(EdgeIds(g)) /\ EdgeNum(g) \in Nat
        /\ EdgeIds(g) = 0 .. EdgeNum(g) - 1
    BY IsHyperGraphProperties
  <2>2. IsFiniteSet(1 .. n) /\ Cardinality(1 .. n) = n
    <3>1. n \in Nat
      BY <1>4
    <3>2. /\ IsFiniteSet(1 .. n)
          /\ Cardinality(1 .. n) = IF 1 > n THEN 0 ELSE n - 1 + 1
      BY ONLY <3>1, FS_Interval
    <3> QED
      BY ONLY <3>1, <3>2
  <2> DEFINE f == [i \in 1 .. n |-> l[i]]
  <2>3. f \in Injection(1 .. n, EdgeIds(g))
    <3>1. f \in [1 .. n -> EdgeIds(g)]
      BY <1>8
    <3>2. \A a, b \in 1 .. n : f[a] = f[b] => a = b
      BY <1>4 DEF Distinct
    <3> QED
      BY <3>1, <3>2 DEF Injection, IsInjective
  <2>4. Cardinality(1 .. n) <= Cardinality(EdgeIds(g))
    BY <2>1, <2>2, <2>3, FS_Injection
  <2>5. n <= EdgeNum(g)
    BY <2>2, <2>4 DEF EdgeNum
  <2> QED
    BY <1>4, <1>7, <2>1, <2>5
<1>14. Vertices(k) = C
  <2>1. Vertices(k) \subseteq C
    BY <1>10, <1>11 DEF Vertices
  <2>2. ASSUME NEW x \in C PROVE x \in Vertices(k)
    <3>1. PICK e \in EdgeIds(g) : x \in g[e]
      BY <1>4 DEF Vertices
    <3>2. e \in ToSet(l)
      BY <1>4, <3>1
    <3>3. PICK i \in EdgeIds(k) : k[i] = g[e]
      BY <1>7, <1>9, <3>2
    <3> QED
      BY <3>1, <3>3 DEF Vertices
  <2> QED
    BY <2>1, <2>2
<1>15. IsConnected(k)
  <2> SUFFICES ASSUME NEW S \in SUBSET C, Separates(k, S)
               PROVE  S \in {{}, C}
    BY <1>14 DEF IsConnected
  <2>1. \A e \in ToSet(l) : g[e] \subseteq S \/ g[e] \cap S = {}
    BY <1>7, <1>9 DEF Separates
  <2>2. CASE v \in S
    <3>1. Separates(g, S)
      BY <1>4, <2>1 DEF Separates
    <3>2. C \subseteq S
      BY <1>4, <2>2, <3>1
    <3> QED
      BY <3>2
  <2>3. CASE v \notin S
    <3>1. Separates(g, C \ S)
      <4>1. \A e \in ToSet(l) : g[e] \subseteq C \ S \/ g[e] \cap (C \ S) = {}
        BY <1>11, <2>1
      <4> QED
        BY <1>4, <4>1 DEF Separates
    <3>2. C \subseteq C \ S
      BY <1>4, <2>3, <3>1
    <3> QED
      BY <3>2
  <2> QED
    BY <2>2, <2>3
<1>16. ASSUME NEW d \in EdgeIds(g), g[d] \cap C # {}
       PROVE  AsOften(g, k, g[d])
  <2> DEFINE A == {e \in EdgeIds(k) : k[e] = g[d]}
             B == {e \in EdgeIds(g) : g[e] = g[d]}
             f == [e \in A |-> l[e + 1]]
  <2>1. IsFiniteSet(EdgeIds(g)) /\ IsFiniteSet(EdgeIds(k))
    BY <1>12 DEF IsHyperGraph
  <2>2. IsFiniteSet(A) /\ IsFiniteSet(B)
    BY <2>1, FS_Subset
  <2>3. f \in [A -> B]
    BY <1>7, <1>8
  <2>4. \A a, b \in A : f[a] = f[b] => a = b
    <3> TAKE a, b \in A
    <3>1. a \in 0 .. n - 1 /\ b \in 0 .. n - 1 /\ a + 1 \in 1 .. n /\ b + 1 \in 1 .. n
      BY <1>7
    <3>2. f[a] = l[a + 1] /\ f[b] = l[b + 1]
      OBVIOUS
    <3>3. l[a + 1] = l[b + 1] => a + 1 = b + 1
      BY <1>4, <3>1 DEF Distinct
    <3> QED
      BY <3>1, <3>2, <3>3
  <2>5. \A b \in B : \E a \in A : f[a] = b
    <3> TAKE b \in B
    <3>1. b \in ToSet(l)
      BY <1>4, <1>16
    <3>2. PICK i \in 0 .. n - 1 : l[i + 1] = b /\ k[i] = g[b]
      BY <1>9, <3>1
    <3> QED
      BY <1>7, <3>2
  <2>6. f \in Bijection(A, B)
    <3> HIDE DEF A, B, f
    <3> QED
      BY <2>3, <2>4, <2>5 DEF Bijection, Injection, Surjection, IsInjective
  <2>7. Cardinality(A) = Cardinality(B)
    <3> HIDE DEF A, B, f
    <3> QED
      <4>1. ExistsBijection(A, B)
        BY <2>6 DEF ExistsBijection
      <4> QED
        BY <2>2, <4>1, FS_Bijection
  <2> QED
    BY <2>7 DEF AsOften
<1>17. EdgesOf(g, k)
  <2>1. \A e \in EdgeIds(k) : \E f \in EdgeIds(g) : k[e] = g[f] /\ g[f] # {}
    BY <1>4, <1>10, <1>11
  <2> QED
    BY <2>1 DEF EdgesOf
<1>18. IsSubGraph(g, v, k)
  BY <1>4, <1>12, <1>13, <1>14, <1>15, <1>16, <1>17 DEF IsSubGraph
<1> QED
  BY <1>5, <1>18

\* What the loop of GetSubGraph makes of a vertex.
Split(g, s, u) ==
  IF \E j \in DOMAIN s : u \in Vertices(s[j]) THEN s ELSE Append(s, SubGraph(g, u))

SubGraphsOf(g) == {SubGraph(g, u) : u \in Vertices(g)}

\* No vertex is in two of them.
NoneShared(s) ==
  \A i, j \in DOMAIN s : i # j => Vertices(s[i]) \cap Vertices(s[j]) = {}

LEMMA SplitProperties ==
  ASSUME NEW g, IsHyperGraph(g), NEW s \in Seq(SubGraphsOf(g)), NEW u \in Vertices(g)
  PROVE  /\ Split(g, s, u) \in Seq(SubGraphsOf(g))
         /\ NoneShared(s) => NoneShared(Split(g, s, u))
         /\ \E j \in DOMAIN Split(g, s, u) : u \in Vertices(Split(g, s, u)[j])
         /\ \A j \in DOMAIN s : j \in DOMAIN Split(g, s, u) /\ Split(g, s, u)[j] = s[j]
<1>1. CASE \E j \in DOMAIN s : u \in Vertices(s[j])
  BY <1>1 DEF Split
<1>2. CASE ~\E j \in DOMAIN s : u \in Vertices(s[j])
  <2>1. PICK k, t : k = SubGraph(g, u) /\ t = Append(s, k)
    OBVIOUS
  <2>2. Split(g, s, u) = t
    BY <1>2, <2>1 DEF Split
  <2>3. k \in SubGraphsOf(g)
    BY <2>1 DEF SubGraphsOf
  <2>4. PICK n : n = Len(s)
    OBVIOUS
  <2>5. /\ t \in Seq(SubGraphsOf(g)) /\ n \in Nat /\ DOMAIN t = 1 .. n + 1
        /\ DOMAIN s = 1 .. n /\ t[n + 1] = k /\ \A j \in 1 .. n : t[j] = s[j]
    BY <2>1, <2>3, <2>4
  <2>6. /\ u \in Vertices(k)
        /\ \A S \in SUBSET Vertices(g) : Separates(g, S) /\ u \in S => Vertices(k) \subseteq S
    <3>1. IsSubGraph(g, u, k)
      BY <2>1, SubGraphProperties
    <3> QED
      BY <3>1 DEF IsSubGraph
  <2>7. ASSUME NEW j \in 1 .. n PROVE Vertices(s[j]) \cap Vertices(k) = {}
    <3>1. PICK w \in Vertices(g) : s[j] = SubGraph(g, w)
      <4>1. s[j] \in SubGraphsOf(g)
        BY <2>5
      <4> QED
        BY <4>1 DEF SubGraphsOf
    <3>2. PICK D : D = Vertices(s[j])
      OBVIOUS
    <3>3. Separates(g, D)
      BY <3>1, <3>2, SubGraphProperties DEF IsSubGraph
    <3>4. Separates(g, Vertices(g) \ D)
      <4>1. \A e \in EdgeIds(g) : g[e] \subseteq Vertices(g)
        BY IsHyperGraphProperties
      <4> QED
        BY <3>3, <4>1 DEF Separates
    <3>5. u \in Vertices(g) \ D
      BY <1>2, <2>5, <3>2
    <3>6. Vertices(k) \subseteq Vertices(g) \ D
      BY <2>6, <3>4, <3>5
    <3> QED
      BY <3>2, <3>6
  <2>8. ASSUME NoneShared(s) PROVE NoneShared(t)
    <3> SUFFICES ASSUME NEW i \in 1 .. n + 1, NEW j \in 1 .. n + 1, i # j
                 PROVE  Vertices(t[i]) \cap Vertices(t[j]) = {}
      BY <2>5 DEF NoneShared
    <3>1. \A m \in 1 .. n + 1 : m \in 1 .. n \/ m = n + 1
      BY <2>5
    <3>2. CASE i \in 1 .. n /\ j \in 1 .. n
      BY <2>5, <2>8, <3>2 DEF NoneShared
    <3>3. CASE i \in 1 .. n /\ j = n + 1
      BY <2>5, <2>7, <3>3
    <3>4. CASE i = n + 1 /\ j \in 1 .. n
      BY <2>5, <2>7, <3>4
    <3> QED
      BY <3>1, <3>2, <3>3, <3>4
  <2>9. n + 1 \in DOMAIN t /\ \A j \in 1 .. n : j \in DOMAIN t
    BY <2>5
  <2> QED
    BY <2>2, <2>5, <2>6, <2>8, <2>9
<1> QED
  BY <1>1, <1>2

\* The loop comes to this.
LEMMA GetSubGraphSteps ==
  ASSUME NEW g, IsHyperGraph(g)
  PROVE  /\ GetSubGraph(g) \in Seq(SubGraphsOf(g))
         /\ NoneShared(GetSubGraph(g))
         /\ \A u \in Vertices(g) :
              \E j \in DOMAIN GetSubGraph(g) : u \in Vertices(GetSubGraph(g)[j])
<1>1. PICK list, n : list = Ascending(Vertices(g)) /\ n = Len(list)
  OBVIOUS
<1>2. /\ list \in Seq(Vertices(g)) /\ ToSet(list) = Vertices(g) /\ n \in Nat
      /\ \A i \in 1 .. n : list[i] \in Vertices(g)
  <2>1. list \in Seq(Vertices(g)) /\ ToSet(list) = Vertices(g)
    BY <1>1, EdgesListed
  <2> QED
    BY <1>1, <2>1
<1>3. PICK K : K = Seq(SubGraphsOf(g))
  OBVIOUS
<1> DEFINE step == [i \in 1 .. n |-> [s \in K |-> Split(g, s, list[i])]]
<1>4. <<>> \in K /\ step \in [1 .. n -> [K -> K]]
  <2>1. \A i \in 1 .. n, s \in K : Split(g, s, list[i]) \in K
    BY <1>2, <1>3, SplitProperties
  <2>2. <<>> \in K
    BY <1>3
  <2> QED
    BY <2>1, <2>2
<1>5. PICK f \in [0 .. n -> K] : Iterates(f, <<>>, n, step)
  <2> HIDE DEF step
  <2> QED
    BY <1>2, <1>4, IterationExists
<1>6. f[0] = <<>> /\ \A i \in 1 .. n : i - 1 \in 0 .. n /\ f[i] = Split(g, f[i - 1], list[i])
  <2>1. f[0] = <<>>
    BY <1>5 DEF Iterates
  <2>2. ASSUME NEW i \in 1 .. n
        PROVE  i - 1 \in 0 .. n /\ f[i] = Split(g, f[i - 1], list[i])
    <3>1. i - 1 \in 0 .. n
      BY <1>2
    <3>2. f[i - 1] \in K
      BY <1>5, <3>1
    <3>3. f[i] = step[i][f[i - 1]]
      BY <1>5 DEF Iterates
    <3> QED
      BY <3>1, <3>2, <3>3
  <2> QED
    BY <2>1, <2>2
<1> HIDE DEF step
<1> DEFINE Is(F) == F = [i \in 0 .. n |->
                           IF i = 0 THEN <<>>
                           ELSE LET s == F[i - 1]
                                IN IF \E j \in DOMAIN s : list[i] \in Vertices(s[j])
                                   THEN s ELSE Append(s, SubGraph(g, list[i]))]
           Splits(F) == F = [i \in 0 .. n |->
                               IF i = 0 THEN <<>> ELSE Split(g, F[i - 1], list[i])]
<1>7. \A F : Is(F) <=> Splits(F)
  BY DEF Split
<1>8. Splits(f)
  <2>1. \A i \in 0 .. n : i # 0 => i \in 1 .. n
    BY <1>2
  <2>2. \A i \in 0 .. n : f[i] = IF i = 0 THEN <<>> ELSE Split(g, f[i - 1], list[i])
    BY <1>6, <2>1
  <2>3. f = [i \in 0 .. n |-> f[i]]
    BY <1>5
  <2> QED
    BY <2>2, <2>3
<1>9. ASSUME NEW F, Splits(F) PROVE F = f
  <2>1. F = [i \in 0 .. n |-> F[i]]
        /\ \A i \in 0 .. n : F[i] = IF i = 0 THEN <<>> ELSE Split(g, F[i - 1], list[i])
    BY <1>9
  <2> DEFINE G == {i \in 0 .. n : F[i] = f[i]}
  <2>2. 0 \in G
    <3>1. 0 \in 0 .. n
      BY <1>2
    <3>2. F[0] = f[0]
      BY <1>6, <2>1, <3>1
    <3> QED
      BY ONLY <3>1, <3>2
  <2>3. ASSUME NEW i \in 0 .. n - 1, i \in G PROVE i + 1 \in G
    <3>1. i + 1 \in 1 .. n /\ (i + 1) - 1 = i /\ i + 1 \in 0 .. n /\ i + 1 # 0
      BY <1>2
    <3>2. F[i + 1] = Split(g, F[(i + 1) - 1], list[i + 1])
      BY <2>1, <3>1
    <3>3. f[i + 1] = Split(g, f[(i + 1) - 1], list[i + 1])
      BY <1>6, <3>1
    <3>4. F[(i + 1) - 1] = f[(i + 1) - 1]
      BY <2>3, <3>1
    <3>5. F[i + 1] = f[i + 1]
      BY <3>2, <3>3, <3>4
    <3> QED
      BY <3>1, <3>5
  <2>4. \A i \in 0 .. n : i \in G
    <3> HIDE DEF G
    <3> QED
      BY <1>2, <2>2, <2>3, UpTo
  <2>5. f = [i \in 0 .. n |-> f[i]]
    BY <1>5
  <2> QED
    BY <2>1, <2>4, <2>5
<1>10. GetSubGraph(g) = (CHOOSE F : Is(F))[n]
  BY <1>1 DEF GetSubGraph
<1>11. (CHOOSE F : Is(F)) = f
  <2> HIDE DEF Is, Splits
  <2> QED
    BY <1>7, <1>8, <1>9
<1>12. GetSubGraph(g) = f[n]
  BY ONLY <1>10, <1>11
<1> HIDE DEF Is, Splits
<1> DEFINE Held(i) == \A m \in 1 .. i : \E j \in DOMAIN f[i] : list[m] \in Vertices(f[i][j])
           G == {i \in 0 .. n : NoneShared(f[i]) /\ Held(i)}
<1>13. 0 \in G
  <2>1. 0 \in 0 .. n
    BY <1>2
  <2>2. NoneShared(f[0])
    BY <1>6 DEF NoneShared
  <2>3. Held(0)
    OBVIOUS
  <2> QED
    BY ONLY <2>1, <2>2, <2>3
<1>14. ASSUME NEW i \in 0 .. n - 1, i \in G PROVE i + 1 \in G
  <2>1. i + 1 \in 1 .. n /\ (i + 1) - 1 = i /\ i \in 0 .. n /\ i + 1 \in 0 .. n
    BY <1>2
  <2>2. PICK s, t, u : s = f[i] /\ t = f[i + 1] /\ u = list[i + 1]
    OBVIOUS
  <2>3. t = Split(g, s, u) /\ s \in Seq(SubGraphsOf(g)) /\ u \in Vertices(g)
    BY <1>2, <1>3, <1>5, <1>6, <2>1, <2>2
  <2>4. /\ NoneShared(s) => NoneShared(t)
        /\ \E j \in DOMAIN t : u \in Vertices(t[j])
        /\ \A j \in DOMAIN s : j \in DOMAIN t /\ t[j] = s[j]
    BY <2>3, SplitProperties
  <2>5. NoneShared(s) /\ \A m \in 1 .. i : \E j \in DOMAIN s : list[m] \in Vertices(s[j])
    BY <1>14, <2>2
  <2>6. \A m \in 1 .. i + 1 : \E j \in DOMAIN t : list[m] \in Vertices(t[j])
    <3> TAKE m \in 1 .. i + 1
    <3>1. m = i + 1 \/ m \in 1 .. i
      BY <1>2
    <3>2. CASE m = i + 1
      BY <2>2, <2>4, <3>2
    <3>3. CASE m \in 1 .. i
      BY <2>4, <2>5, <3>3
    <3> QED
      BY <3>1, <3>2, <3>3
  <2> QED
    BY <2>1, <2>2, <2>4, <2>5, <2>6
<1>15. n \in G
  <2>1. \A i \in 0 .. n : i \in G
    <3> HIDE DEF G
    <3> QED
      BY <1>2, <1>13, <1>14, UpTo
  <2>2. n \in 0 .. n
    BY <1>2
  <2> QED
    BY <2>1, <2>2
<1>16. \A u \in Vertices(g) : \E j \in DOMAIN f[n] : u \in Vertices(f[n][j])
  <2> TAKE u \in Vertices(g)
  <2>1. ToSet(list) = {list[m] : m \in 1 .. n}
    BY <1>1, <1>2 DEF ToSet
  <2>2. PICK m \in 1 .. n : list[m] = u
    BY <1>2, <2>1
  <2> QED
    BY <1>15, <2>2
<1>17. f[n] \in Seq(SubGraphsOf(g))
  <2>1. n \in 0 .. n
    BY <1>2
  <2> QED
    BY <1>3, <1>5, <2>1
<1> QED
  BY <1>12, <1>15, <1>16, <1>17

\* GetSubGraph splits every hypergraph into its components.
LEMMA GetSubGraphComponents ==
  ASSUME NEW g, IsHyperGraph(g)
  PROVE  AreComponents(GetSubGraph(g), g)
<1>1. PICK s : s = GetSubGraph(g)
  OBVIOUS
<1>2. /\ s \in Seq(SubGraphsOf(g)) /\ NoneShared(s)
      /\ \A u \in Vertices(g) : \E j \in DOMAIN s : u \in Vertices(s[j])
  BY <1>1, GetSubGraphSteps
<1>3. Len(s) \in Nat /\ DOMAIN s = 1 .. Len(s)
  BY <1>2
<1>4. \A i \in DOMAIN s : \E u \in Vertices(g) : IsSubGraph(g, u, s[i])
  <2> TAKE i \in DOMAIN s
  <2>1. s[i] \in SubGraphsOf(g)
    BY <1>2, <1>3
  <2>2. PICK u \in Vertices(g) : s[i] = SubGraph(g, u)
    BY <2>1 DEF SubGraphsOf
  <2> QED
    BY <2>2, SubGraphProperties
<1>5. \A i \in DOMAIN s : IsHyperGraph(s[i]) /\ EdgeIds(s[i]) \subseteq EdgeIds(g)
  BY <1>4 DEF IsSubGraph
<1>6. \A i \in DOMAIN s :
        Vertices(s[i]) # {} /\ IsConnected(s[i]) /\ Separates(g, Vertices(s[i]))
  BY <1>4 DEF IsSubGraph
<1>7. \A i, j \in DOMAIN s : i # j => Vertices(s[i]) \cap Vertices(s[j]) = {}
  BY <1>2 DEF NoneShared
<1>8. ASSUME NEW edge \in {g[e] : e \in EdgeIds(g)} \ {{}}
      PROVE  \E i \in DOMAIN s :
               Cardinality({e \in EdgeIds(s[i]) : s[i][e] = edge})
                 = Cardinality({e \in EdgeIds(g) : g[e] = edge})
  <2>1. PICK d \in EdgeIds(g) : g[d] = edge /\ g[d] # {}
    BY <1>8
  <2>2. PICK x \in g[d] : x \in Vertices(g)
    BY <2>1, IsHyperGraphProperties
  <2>3. PICK i \in DOMAIN s : x \in Vertices(s[i])
    BY <1>2, <2>2
  <2>4. AsOften(g, s[i], g[d])
    <3>1. g[d] \cap Vertices(s[i]) # {}
      BY <2>2, <2>3
    <3> QED
      BY <1>4, <2>1, <3>1 DEF IsSubGraph
  <2> QED
    BY <2>1, <2>4 DEF AsOften
<1>9. \A i \in DOMAIN s : \A e \in EdgeIds(s[i]) :
        \E f \in EdgeIds(g) : s[i][e] = g[f] /\ g[f] # {}
  <2>1. \A i \in DOMAIN s : EdgesOf(g, s[i])
    BY <1>4 DEF IsSubGraph
  <2> QED
    BY <2>1 DEF EdgesOf
<1>10. AreComponents(s, g)
  BY <1>3, <1>5, <1>6, <1>7, <1>8, <1>9 DEF AreComponents
<1> QED
  BY <1>1, <1>10

=============================================================================
