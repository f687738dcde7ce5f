---------------------------- MODULE MCHyperGraph ----------------------------
(***************************************************************************)
(* The hypergraphs the algorithms are model-checked on.                    *)
(***************************************************************************)
EXTENDS HyperGraph, TLC

\* Every hypergraph of n edges over vertices 0 .. k - 1, empty edges included.
HyperGraphsOf(n, k) == [0 .. n - 1 -> SUBSET (0 .. k - 1)]

\* The hypergraph of test/mmcs_test.cpp and of the tests of its subclasses.
TestHyperGraph == (0 :> {0, 2, 5}) @@ (1 :> {1, 4}) @@ (2 :> {2, 4})

\* The hypergraph rpc/vcc_client.cpp sends.
ClientHyperGraph ==
  (0 :> {1, 3, 5}) @@ (1 :> {2, 4, 6}) @@ (2 :> {2, 3, 4}) @@ (3 :> {1, 4, 6})
=============================================================================
