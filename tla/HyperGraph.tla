----------------------------- MODULE HyperGraph -----------------------------
(***************************************************************************)
(* The data every enumeration algorithm works on (common/hypergraph.h,     *)
(* common/hypergraph.cpp) and the set operations of common/bitset.h and    *)
(* common/intset.h it is built from.                                       *)
(*                                                                         *)
(* A hypergraph is its edge_list_: a function from edge ids 0 .. n-1 to    *)
(* sets of vertex ids.  An IntSet is modelled by the set of its elements:  *)
(* the inputs modelled name a vertex at most once in an edge.              *)
(***************************************************************************)
EXTENDS Integers, FiniteSets

EdgeIds(g) == DOMAIN g

EdgeNum(g) == Cardinality(EdgeIds(g))

\* vertices_: every vertex some edge names.
Vertices(g) == UNION {g[e] : e \in EdgeIds(g)}

\* vertex_hittings_[v]: the ids of the edges that contain v.
VertexHitting(g, v) == {e \in EdgeIds(g) : v \in g[e]}

\* MAXBIT: a BitSet holds the numbers below it.
MaxBit == 32000

\* What the constructor builds: edges numbered from 0, their vertices small
\* enough for a BitSet.
IsHyperGraph(g) ==
  /\ IsFiniteSet(EdgeIds(g))
  /\ g \in [0 .. EdgeNum(g) - 1 -> SUBSET (0 .. MaxBit - 1)]

\* BitSet::Flip.
Flip(S, v) == (S \cup {v}) \ (S \cap {v})

\* The first set bit, BitSet::NextSetBit().
Least(S) == CHOOSE x \in S : \A y \in S : x <= y

\* BitSet::GetDistance, the share of the union that is not common: a float,
\* here the fraction n / d as <<n, d>>, 0 / 0 for two empty sets.
GetDistance(a, b) ==
  <<Cardinality(a \cup b) - Cardinality(a \cap b), Cardinality(a \cup b)>>

-----------------------------------------------------------------------------
(***************************************************************************)
(* Reference definitions, which no code computes: what the incremental     *)
(* bookkeeping and the emitted covers are compared with.                   *)
(***************************************************************************)

\* The edges that no vertex of S hits.
Uncovered(g, S) == {e \in EdgeIds(g) : g[e] \cap S = {}}

\* The edges of which S hits no vertex but u.
Critical(g, S, u) == {e \in EdgeIds(g) : g[e] \cap S = {u}}

\* S hits every edge, and no proper subset of S does.
IsMinimalHittingSet(g, S) ==
  /\ S \subseteq Vertices(g)
  /\ Uncovered(g, S) = {}
  /\ \A u \in S : Uncovered(g, S \ {u}) # {}

\* S leaves at most theta percent of the edges unhit.
IsApproximateCover(g, theta, S) ==
  100 * Cardinality(Uncovered(g, S)) <= theta * EdgeNum(g)

\* The approximate covers none of whose proper subsets is one.
MinimalCovers(g, theta) ==
  {S \in SUBSET Vertices(g) :
     /\ IsApproximateCover(g, theta, S)
     /\ \A u \in S : ~IsApproximateCover(g, theta, S \ {u})}
=============================================================================
