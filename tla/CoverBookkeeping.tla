-------------------------- MODULE CoverBookkeeping --------------------------
(***************************************************************************)
(* The incremental bookkeeping MMCS and its subclasses share (mmcs.cpp).   *)
(*                                                                         *)
(* While vertices are chosen one after the other into cur, uncov holds the *)
(* edges no chosen vertex hits and the sequence crit, in the order of the  *)
(* choices, the edges each chosen vertex alone hits.                       *)
(***************************************************************************)
EXTENDS HyperGraph, Sequences

\* In place of the vertex an activation has chosen, when it has chosen none.
NoVertex == -1

\* The vertices chosen by the activations of s before the i-th.
ChosenBefore(s, i) == {s[j].v : j \in 1 .. i - 1} \ {NoVertex}

\* Mutant: only the vertex chosen last is asked.
LastVertexWouldViolate(g, crit, v) ==
  Len(crit) > 0 /\ crit[Len(crit)] \ VertexHitting(g, v) = {}

\* Some chosen vertex would have no edge left that it alone hits.
VertexWouldViolate(g, crit, v) ==
  \E i \in 1 .. Len(crit) : crit[i] \ VertexHitting(g, v) = {}

\* What UpdateCritAndUncov takes from uncov: afterwards crit->back().
NewCrit(g, uncov, v) == uncov \cap VertexHitting(g, v)

\* UpdateCritAndUncov, on crit and on uncov.
UpdatedCrit(g, crit, uncov, v) ==
  Append([i \in 1 .. Len(crit) |-> crit[i] \ VertexHitting(g, v)],
         NewCrit(g, uncov, v))
UpdatedUncov(g, uncov, v) == uncov \ VertexHitting(g, v)
=============================================================================
