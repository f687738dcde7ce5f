-------------------------- MODULE CoverEnumeration --------------------------
(***************************************************************************)
(* What an enumeration algorithm promises: it emits the minimal covers of  *)
(* its hypergraph one by one, in some order, none of them twice and        *)
(* nothing else, and it finishes only once it has emitted all of them.     *)
(***************************************************************************)
EXTENDS HyperGraph, Sequences

CONSTANTS HyperGraphs,   \* the hypergraphs that may be given
          Thetas         \* the tolerated shares of unhit edges, in percent

VARIABLES hyper_graph, theta,
          emitted,       \* the covers emitted so far, in order
          finished       \* the algorithm has returned

vars == <<hyper_graph, theta, emitted, finished>>

Emitted == {emitted[i] : i \in 1 .. Len(emitted)}

Init ==
  /\ hyper_graph \in HyperGraphs
  /\ theta \in Thetas
  /\ emitted = <<>>
  /\ finished = FALSE

Emit ==
  /\ ~finished
  /\ \E S \in MinimalCovers(hyper_graph, theta) \ Emitted :
       emitted' = Append(emitted, S)
  /\ UNCHANGED <<hyper_graph, theta, finished>>

Finish ==
  /\ ~finished
  /\ Emitted = MinimalCovers(hyper_graph, theta)
  /\ finished' = TRUE
  /\ UNCHANGED <<hyper_graph, theta, emitted>>

Next == Emit \/ Finish

Safety == Init /\ [][Next]_vars

Spec == Safety /\ WF_vars(Next)
=============================================================================
