------------------------- MODULE MCAdvancedADCEnum --------------------------
(***************************************************************************)
(* Instances of AdvancedADCEnum for TLC.                                   *)
(***************************************************************************)
EXTENDS AdvancedADCEnum, MCHyperGraph

CONSTANTS t1, t2

MCHyperGraphs == {TestHyperGraph}
=============================================================================
