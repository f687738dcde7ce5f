----------------------------- MODULE MCADCEnum ------------------------------
(***************************************************************************)
(* Instances of ADCEnum for TLC: every hypergraph of one to three edges    *)
(* over three vertices, the one of the tests and the one of the client.    *)
(***************************************************************************)
EXTENDS ADCEnum, MCHyperGraph

MCHyperGraphs ==
  UNION {HyperGraphsOf(n, 3) : n \in 1 .. 3}
    \cup {TestHyperGraph, ClientHyperGraph}
=============================================================================
