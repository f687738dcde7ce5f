------------------------------- MODULE MCMMCS -------------------------------
(***************************************************************************)
(* Instances of MMCS and SubMMCS for TLC: every hypergraph of at most      *)
(* three edges over three vertices, the one of the tests and the one of    *)
(* the client.                                                             *)
(***************************************************************************)
EXTENDS SubMMCS, MCHyperGraph

MCHyperGraphs ==
  UNION {HyperGraphsOf(n, 3) : n \in 0 .. 3}
    \cup {TestHyperGraph, ClientHyperGraph}

Request(operation, number, threshold) ==
  [operation |-> operation, required_number_of_vc |-> number,
   threshold |-> threshold]

MCRunAll == {Request("RunAll", 0, 0)}

MCRequests ==
  MCRunAll \cup
  {Request("RunDiverse", 0, 0),
   Request("RunDiverse", 2, 60), Request("RunDiverse", 4, 80)}
=============================================================================
