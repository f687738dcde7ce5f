---------------------------- MODULE MCVccServer -----------------------------
(***************************************************************************)
(* Instances of VccServer for TLC.                                         *)
(***************************************************************************)
EXTENDS VccServer, MCHyperGraph

MCHyperGraphs == {TestHyperGraph}
=============================================================================
