---------------------------- MODULE MCThreadPool ----------------------------
(***************************************************************************)
(* An instance of ThreadPool for TLC, whose callers add what they like.    *)
(***************************************************************************)
EXTENDS ThreadPool
=============================================================================
