----------------------------- MODULE SubGraphs ------------------------------
(***************************************************************************)
(* HyperGraph::GetSubGraph (common/hypergraph.cpp): the connected          *)
(* components of a hypergraph, each a hypergraph of its own whose edges    *)
(* are numbered in the order of a depth-first search.                      *)
(***************************************************************************)
EXTENDS HyperGraph, Sequences, SequencesExt

\* The elements of a set of numbers in the order the code goes through them.
Ascending(S) ==
  [i \in 1 .. Cardinality(S) |->
     CHOOSE x \in S : Cardinality({y \in S : y < x}) = i - 1]

\* What GetSubGraphHelpFunc collects: the vertices it flags, and the edges in
\* the order it takes them.
Flags(g) == [vertices : SUBSET Vertices(g), edges : Seq(EdgeIds(g))]

\* The vertices of an edge are visited, one after the other.
VisitEach(Visit, list, flags) ==
  LET After[i \in 0 .. Len(list)] ==
        IF i = 0 THEN flags ELSE Visit[<<list[i], After[i - 1]>>]
  IN After[Len(list)]

\* The edges of a vertex that are not flagged are taken.
TakeEach(g, Visit, list, flags) ==
  LET After[i \in 0 .. Len(list)] ==
        IF i = 0 THEN flags
        ELSE LET s == After[i - 1]
             IN IF list[i] \in ToSet(s.edges) THEN s
                ELSE VisitEach(Visit, Ascending(g[list[i]]),
                               [s EXCEPT !.edges = Append(@, list[i])])
  IN After[Len(list)]

\* What is collected from vertex v on.  What GetSubGraphHelpFunc finds flagged
\* by the search from another component it cannot reach.
Collected(g, v) ==
  LET Visit[p \in Vertices(g) \X Flags(g)] ==
        IF p[1] \in p[2].vertices THEN p[2]
        ELSE TakeEach(g, Visit, Ascending(VertexHitting(g, p[1])),
                      [p[2] EXCEPT !.vertices = @ \cup {p[1]}])
  IN Visit[<<v, [vertices |-> {}, edges |-> <<>>]>>]

\* The edges collected from v on are those of a hypergraph of their own.
SubGraph(g, v) ==
  LET edges == Collected(g, v).edges
  IN [e \in 0 .. Len(edges) - 1 |-> g[edges[e + 1]]]

\* Mutant: vertex_flag is not looked at.
GetSubGraphOfEveryVertex(g) ==
  LET s == Ascending(Vertices(g)) IN [i \in DOMAIN s |-> SubGraph(g, s[i])]

\* GetSubGraph: a sub-graph for every vertex that none before it holds.
GetSubGraph(g) ==
  LET list == Ascending(Vertices(g))
      After[i \in 0 .. Len(list)] ==
        IF i = 0 THEN <<>>
        ELSE LET s == After[i - 1]
             IN IF \E j \in DOMAIN s : list[i] \in Vertices(s[j]) THEN s
                ELSE Append(s, SubGraph(g, list[i]))
  IN After[Len(list)]

-----------------------------------------------------------------------------
(***************************************************************************)
(* The reference: what the components of g are.                            *)
(***************************************************************************)

\* No edge of g has vertices both in S and outside it.
Separates(g, S) == \A e \in EdgeIds(g) : g[e] \subseteq S \/ g[e] \cap S = {}

IsConnected(g) ==
  \A S \in SUBSET Vertices(g) : Separates(g, S) => S \in {{}, Vertices(g)}

\* s is a sequence of connected hypergraphs that are not empty, share no
\* vertex and hold every edge of g that is not empty as often as g does.
AreComponents(s, g) ==
  /\ Len(s) \in Nat /\ DOMAIN s = 1 .. Len(s)
  /\ \A i \in DOMAIN s : IsHyperGraph(s[i]) /\ EdgeIds(s[i]) \subseteq EdgeIds(g)
  /\ \A i \in DOMAIN s :
       Vertices(s[i]) # {} /\ IsConnected(s[i]) /\ Separates(g, Vertices(s[i]))
  /\ \A i, j \in DOMAIN s :
       i # j => Vertices(s[i]) \cap Vertices(s[j]) = {}
  /\ \A edge \in {g[e] : e \in EdgeIds(g)} \ {{}} :
       \E i \in DOMAIN s :
         Cardinality({e \in EdgeIds(s[i]) : s[i][e] = edge})
           = Cardinality({e \in EdgeIds(g) : g[e] = edge})
  /\ \A i \in DOMAIN s : \A e \in EdgeIds(s[i]) :
       \E f \in EdgeIds(g) : s[i][e] = g[f] /\ g[f] # {}
=============================================================================
