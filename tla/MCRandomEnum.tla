----------------------------- MODULE MCRandomEnum ---------------------------
(***************************************************************************)
(* Objects of RandomEnum and RandomEnumAutoInc for TLC.                    *)
(***************************************************************************)
EXTENDS RandomEnumAutoInc, MCHyperGraph

Plain(g, m, n, certain, share) ==
  [is_auto_inc |-> FALSE, hyper_graph |-> g, method |-> m, number_of_vc |-> n,
   certain |-> certain, share |-> share]

Auto(g, m, k) ==
  [is_auto_inc |-> TRUE, hyper_graph |-> g, method |-> m,
   number_of_vc |-> k, certain |-> TRUE, share |-> 100]

\* Two components, with an empty edge between them.
TwoComponents == (0 :> {0, 1}) @@ (1 :> {}) @@ (2 :> {2, 3}) @@ (3 :> {3})

\* Vertex 3 is in no minimal hitting set: choosing it may end in a dead end.
NestedHyperGraph ==
  (0 :> {0, 1}) @@ (1 :> {1, 2}) @@ (2 :> {0, 2}) @@ (3 :> {0, 1, 3})

MCMethods == {"ORDER", "RANDOM", "MIN", "MAX", "PRIORITY"}

\* MAX comes back to an edge already hit.
StaleHyperGraph == (0 :> {0}) @@ (1 :> {0, 1, 2, 3}) @@ (2 :> {3})

MCObjects ==
  {Plain(g, m, 2, TRUE, 100) :
     g \in {TwoComponents, NestedHyperGraph, TestHyperGraph}
        \cup HyperGraphsOf(2, 3), m \in MCMethods}
    \cup {Plain(g, m, 3, FALSE, s) :
            g \in {NestedHyperGraph, StaleHyperGraph, ClientHyperGraph},
            m \in MCMethods, s \in {0, 50}}
    \cup {Plain(ClientHyperGraph, m, 3, FALSE, 75) : m \in MCMethods}
    \cup {Plain(NestedHyperGraph, "ORDER", 0, TRUE, 100)}
    \cup {Auto(TestHyperGraph, m, 2) : m \in {"ORDER", "RANDOM", "MIN"}}
    \cup {Auto(TestHyperGraph, "MIN", 3)}

MCDisconnected == {Auto(TwoComponents, "MIN", 2)}

\* The object of random_enum_auto_inc_test.cpp with its last method, with which
\* a round may fail.
MCFailing == {Auto(TestHyperGraph, "MAX", 2)}
=============================================================================
