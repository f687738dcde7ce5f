-------------------------- MODULE RandomEnumAutoInc -------------------------
(***************************************************************************)
(* RandomEnumAutoInc (random_enum_auto_inc.h, random_enum_auto_inc.cpp):   *)
(* in every round one search of each component adds to one cover, until    *)
(* AutoInc judges the list of covers long enough; top_k of them are        *)
(* pushed.                                                                 *)
(*                                                                         *)
(* The specification is that of an object of either class: which           *)
(* RunDiverse it has is the virtual call of the code.                      *)
(***************************************************************************)
EXTENDS RandomEnum, AutoInc

\* With fewer than two covers to choose IncMaxmin writes beyond its vectors,
\* and without a component the rounds add no cover to judge.
ASSUME AutoObjectsAssumption ==
  \A o \in Objects : o.is_auto_inc =>
    o.number_of_vc >= 2 /\ Vertices(o.hyper_graph) # {}

vars == <<search_vars, auto_inc_vars>>

InitAll == Init /\ AutoIncInit(object.number_of_vc)

InRounds == pc = "return" /\ stack = <<>> /\ object.is_auto_inc

\* The next component of this round is searched, the stop flag as it is.
StartComponent ==
  /\ InRounds
  /\ component < Len(sub_graphs)
  /\ SearchComponent(component + 1)
  /\ UNCHANGED <<cover_index, stop_flag, auto_inc_vars>>

\* The round is over: UpdateStopFlag asks AutoInc, and the covers it has
\* chosen are pushed, or the next round starts.
NextRound ==
  /\ InRounds
  /\ component = Len(sub_graphs)
  /\ cover_index' = cover_index + 1
  /\ Judge(cover_index + 1, vc_list)
  /\ UNCHANGED <<given, chosen, next_edge, back_steps, args, stack, vc_list>>
  /\ stop_flag' = JudgedEnough(cover_index, vc_list)'
  /\ IF stop_flag'
     THEN /\ output' = [i \in 1 .. top_k |-> vc_list[ans'[i]]]
          /\ pc' = "done"
          /\ UNCHANGED component
     ELSE component' = 0 /\ UNCHANGED <<output, pc>>
  /\ found' = 0

Terminated == pc = "done" /\ UNCHANGED vars

Next ==
  \/ (Search \/ RunDiverse) /\ UNCHANGED auto_inc_vars
  \/ StartComponent
  \/ NextRound
  \/ Terminated

\* One thread runs the algorithm, and nothing it does waits: it goes on until
\* it is done.  This is WF_vars(Next), Next being enabled until then, without
\* an ENABLED for TLC to compute.
GoesOn == <>[](pc # "done") => []<><<TRUE>>_vars

Spec == InitAll /\ [][Next]_vars /\ GoesOn

-----------------------------------------------------------------------------
\* The covers AutoInc has chosen and not cut are at all times a greedy choice
\* from all covers judged, whatever was cut and completed before, and all
\* top_k of those that are pushed are.
SelectionGreedy ==
  object.is_auto_inc =>
    IsGreedy(SubSeq(vc_list, 1, cover_index), ans, distances,
             IF pc = "done" THEN top_k ELSE cur_size)

\* The covers pushed, like a choice from scratch, are at least half as far
\* apart as the same number of covers of the list can be.
HalfOptimal ==
  (object.is_auto_inc /\ pc = "done") =>
    /\ IsHalfOptimal(vc_list, top_k, LeastDistance(vc_list, Chosen(ans, top_k)))
    /\ IsHalfOptimal(vc_list, top_k, Maxmin(vc_list, top_k))

\* RunDiverse returns, with the method MIN: no search with it fails.
ReturnsWithMin == object.method = "MIN" => <>(pc = "done")
=============================================================================
