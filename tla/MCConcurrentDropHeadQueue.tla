--------------------- MODULE MCConcurrentDropHeadQueue ----------------------
(***************************************************************************)
(* An instance of ConcurrentDropHeadQueue for TLC.                         *)
(***************************************************************************)
EXTENDS ConcurrentDropHeadQueue
=============================================================================
