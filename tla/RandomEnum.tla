----------------------------- MODULE RandomEnum -----------------------------
(***************************************************************************)
(* RandomEnum (random_enum.h, random_enum.cpp): searches each component of *)
(* a hypergraph at random for a number of minimal hitting sets.            *)
(*                                                                         *)
(* RunDiverse_ is recursive; stack, args and pc are those of MMCS, except  *)
(* that "return" with no activation left is the head of RunDiverse's       *)
(* loops.  A search that has found a cover goes back_steps_ activations    *)
(* up; one in a dead end, where every vertex would violate, takes one of   *)
(* them all the same and repairs the vertices chosen before.               *)
(*                                                                         *)
(* What both RunDiverse of this class and that of RandomEnumAutoInc call   *)
(* is here; objects of both classes are told apart by is_auto_inc.         *)
(***************************************************************************)
EXTENDS CoverBookkeeping, CallStack, SubGraphs

CONSTANT Objects   \* what the objects may have been given

IsObject(o) ==
  /\ DOMAIN o = {"is_auto_inc", "hyper_graph", "method", "number_of_vc",
                 "certain", "share"}
  /\ o.is_auto_inc \in BOOLEAN /\ o.certain \in BOOLEAN
  /\ IsHyperGraph(o.hyper_graph)
  /\ o.method \in {"ORDER", "RANDOM", "MIN", "MAX", "PRIORITY"}
  /\ o.number_of_vc \in Nat
  /\ o.share \in 0 .. 100    \* back_method_.second, in percent

ASSUME ObjectsAssumption == \A o \in Objects : IsObject(o)

VARIABLES
  object, sub_graphs,              \* given, and what GetSubGraph makes of it
  component, cover_index,          \* how far RunDiverse is
  cur, uncov, next_edge, cur_list, \* members, shared by all activations
  back_steps, stop_flag, vc_list,
  pc, args, stack,                 \* the activations of RunDiverse_
  found,                           \* how many covers this search has recorded,
                                   \* a history
  output                           \* everything pushed to output_queue_

given == <<object, sub_graphs>>
place == <<component, cover_index>>
chosen == <<cur, uncov, cur_list>>
results == <<vc_list, found, output>>
search_vars == <<given, place, chosen, next_edge, back_steps, stop_flag, pc,
                 args, stack, results>>

NoArgs == [cand |-> {}, crit |-> <<>>]
NoMembers == [cur |-> {}, uncov |-> {}, cur_list |-> <<>>]

\* The members hyper_graph_ and method_.
hyper_graph == sub_graphs[component]
method == object.method

\* GetGoodEdgeToCover is inherited.
Inherited == INSTANCE MMCS
  WITH HyperGraphs <- {o.hyper_graph : o \in Objects},
       Methods <- {o.method : o \in Objects}

active == Top(stack)

-----------------------------------------------------------------------------
Init ==
  /\ object \in Objects
  /\ sub_graphs = GetSubGraph(object.hyper_graph)
  /\ component = 0 /\ cover_index = 0
  /\ cur = {} /\ uncov = {} /\ cur_list = <<>>
  /\ next_edge = Inherited!NoEdge
  /\ back_steps = 0 /\ stop_flag = FALSE
  /\ vc_list = [i \in 1 .. object.number_of_vc |-> {}]
  /\ pc = "return" /\ args = NoArgs /\ stack = <<>>
  /\ found = 0 /\ output = <<>>

\* RunDiverse_ is called for the c-th component: CommonInit and the lines
\* after it.
SearchComponent(c) ==
  /\ component' = c
  /\ cur' = {} /\ uncov' = EdgeIds(sub_graphs[c]) /\ cur_list' = <<>>
  /\ back_steps' = 0
  /\ found' = 0
  /\ pc' = "call"
  /\ args' = [cand |-> Vertices(sub_graphs[c]), crit |-> <<>>]
  /\ UNCHANGED <<given, next_edge, stack, vc_list, output>>

-----------------------------------------------------------------------------
\* RunDiverse_ finds the stop flag set.
EnterStopped ==
  /\ pc = "call"
  /\ stop_flag
  /\ pc' = "return" /\ args' = NoArgs
  /\ UNCHANGED <<given, place, chosen, next_edge, back_steps, stop_flag, stack,
                 results>>

\* How far back a search may go that n vertices have led to its end.
StepsBack(n) ==
  IF object.certain THEN {n}
  ELSE LET steps == (object.share * n) \div 100
       IN 0 .. (IF steps > 1 THEN steps ELSE 1) - 1

\* RunDiverse_ finds every edge hit: cur becomes part of a cover.
\* With auto_inc a slot is added to vc_list when it has none left; a
\* cover_index beyond that is undefined in the code and has no step here.
Found ==
  /\ pc = "call" /\ ~stop_flag
  /\ uncov = {}
  /\ LET slots == IF object.is_auto_inc /\ cover_index = Len(vc_list)
                  THEN Append(vc_list, {}) ELSE vc_list
     IN /\ cover_index < Len(slots)
        /\ vc_list' = [slots EXCEPT ![cover_index + 1] = @ \cup cur]
  /\ IF object.is_auto_inc
     THEN stop_flag' = TRUE /\ UNCHANGED cover_index
     ELSE /\ cover_index' = cover_index + 1
          /\ stop_flag' = (cover_index + 1 = object.number_of_vc)
  /\ back_steps' \in StepsBack(Cardinality(cur))
  /\ found' = found + 1
  /\ pc' = "return" /\ args' = NoArgs
  /\ UNCHANGED <<given, component, chosen, next_edge, stack, output>>

\* Mutant: the vertices of the edge stay candidates while they are tried.
ExpandKeepingCand ==
  /\ pc = "call" /\ ~stop_flag
  /\ uncov # {}
  /\ \E choice \in Inherited!GoodEdgesToCover(args.cand) :
       LET c == args.cand \cap hyper_graph[choice.edge]
       IN /\ next_edge' = choice.next
          /\ stack' = Append(stack, [cand |-> args.cand, c |-> c, todo |-> c,
                                     crit |-> args.crit, loop |-> "untried",
                                     v |-> NoVertex, back |-> {},
                                     old |-> NoMembers])
  /\ pc' = "loop" /\ args' = NoArgs
  /\ UNCHANGED <<given, place, chosen, back_steps, stop_flag, results>>

\* RunDiverse_ picks an edge to cover and starts the loop over its
\* candidates.
Expand ==
  /\ pc = "call" /\ ~stop_flag
  /\ uncov # {}
  /\ \E choice \in Inherited!GoodEdgesToCover(args.cand) :
       LET c == args.cand \cap hyper_graph[choice.edge]
       IN /\ next_edge' = choice.next
          /\ stack' = Append(stack, [cand |-> args.cand \ c, c |-> c, todo |-> c,
                                     crit |-> args.crit, loop |-> "untried",
                                     v |-> NoVertex, back |-> {},
                                     old |-> NoMembers])
  /\ pc' = "loop" /\ args' = NoArgs
  /\ UNCHANGED <<given, place, chosen, back_steps, stop_flag, results>>

-----------------------------------------------------------------------------
(***************************************************************************)
(* The first loop over messed_c.  Its order is random: the next vertex is  *)
(* any that is left.  loop is "untried" while flag is false, then "tried". *)
(***************************************************************************)
Trying == pc = "loop" /\ active.loop \in {"untried", "tried"}

\* The next vertex would violate.
Skip ==
  /\ Trying /\ back_steps = 0
  /\ \E v \in active.todo :
       /\ VertexWouldViolate(hyper_graph, active.crit, v)
       /\ stack' = WithTop(stack, [active EXCEPT !.todo = @ \ {v}])
  /\ UNCHANGED <<given, place, chosen, next_edge, back_steps, stop_flag, pc,
                 args, results>>

\* Vertex v is chosen in addition to the others, and RunDiverse_ called.
DescendWith(v) ==
  /\ ~VertexWouldViolate(hyper_graph, active.crit, v)
  /\ cur' = Flip(cur, v)
  /\ cur_list' = Append(cur_list, v)
  /\ uncov' = UpdatedUncov(hyper_graph, uncov, v)
  /\ args' = [cand |-> active.cand,
              crit |-> UpdatedCrit(hyper_graph, active.crit, uncov, v)]
  /\ stack' = WithTop(stack,
                [active EXCEPT !.todo = @ \ {v}, !.c = {}, !.loop = "tried",
                               !.v = v, !.back = NewCrit(hyper_graph, uncov, v)])
  /\ pc' = "call"
  /\ UNCHANGED <<given, place, next_edge, back_steps, stop_flag, results>>

\* Mutant: back_steps is not looked at.
DescendAlways == Trying /\ \E v \in active.todo : DescendWith(v)

Descend == Trying /\ back_steps = 0 /\ \E v \in active.todo : DescendWith(v)

\* The search goes back with vertices left: this activation does not count.
BackOut ==
  /\ Trying /\ back_steps # 0
  /\ active.todo # {}
  /\ stack' = Popped(stack)
  /\ pc' = "return"
  /\ UNCHANGED <<given, place, chosen, next_edge, back_steps, stop_flag, args,
                 results>>

\* Mutant: a vertex tried is no candidate for the next.
ReturnTriedForgetting ==
  /\ pc = "return" /\ ~stop_flag
  /\ stack # <<>>
  /\ active.loop # "repair"
  /\ cur_list' = SubSeq(cur_list, 1, Len(cur_list) - 1)
  /\ cur' = Flip(cur, active.v)
  /\ uncov' = uncov \cup active.back
  /\ stack' = WithTop(stack, [active EXCEPT !.v = NoVertex, !.back = {}])
  /\ pc' = "loop"
  /\ UNCHANGED <<given, place, next_edge, back_steps, stop_flag, args, results>>

\* The call for a vertex of the first loop has returned.
ReturnTried ==
  /\ pc = "return" /\ ~stop_flag
  /\ stack # <<>>
  /\ active.loop # "repair"
  /\ cur_list' = SubSeq(cur_list, 1, Len(cur_list) - 1)
  /\ cur' = Flip(cur, active.v)
  /\ uncov' = uncov \cup active.back
  /\ stack' = WithTop(stack, [active EXCEPT !.cand = @ \cup {active.v},
                                            !.v = NoVertex, !.back = {}])
  /\ pc' = "loop"
  /\ UNCHANGED <<given, place, next_edge, back_steps, stop_flag, args, results>>

\* Every vertex would violate: the second loop starts.
StartRepair ==
  /\ pc = "loop" /\ active.loop = "untried"
  /\ active.todo = {} /\ active.c # {}
  /\ stack' = WithTop(stack, [active EXCEPT !.todo = active.c,
                                            !.loop = "repair"])
  /\ UNCHANGED <<given, place, chosen, next_edge, back_steps, stop_flag, pc,
                 args, results>>

-----------------------------------------------------------------------------
(***************************************************************************)
(* The second loop over messed_c.                                          *)
(***************************************************************************)
Repairing == pc = "loop" /\ active.loop = "repair"

\* Where crit_map says u is in the list: at the first place if it is not.
Position(list, u) ==
  IF u \in ToSet(list) THEN CHOOSE i \in DOMAIN list : list[i] = u ELSE 1

\* Mutant: the edges do not become critical for the vertex that is left.
ReleasedOnly(list, s, i) ==
  IF s.crit[i] # {} THEN s ELSE [s EXCEPT !.cur = Flip(@, list[i])]

\* The i-th vertex of the list leaves cur if it has no critical edge, and the
\* edges that only one other vertex still hits become critical for that.
Released(list, s, i) ==
  LET w == list[i]
      Freed(j) == {e \in VertexHitting(hyper_graph, w) :
                     \E u \in s.cur \ {w} :
                       /\ hyper_graph[e] \cap s.cur = {u, w}
                       /\ Position(list, u) = j}
  IN IF s.crit[i] # {} THEN s
     ELSE [cur |-> Flip(s.cur, w),
           crit |-> [j \in DOMAIN s.crit |-> s.crit[j] \cup Freed(j)]]

\* All but the last vertex of the list, in the order they were chosen.
ReleasedAll(list, start) ==
  LET After[i \in 0 .. Len(list) - 1] ==
        IF i = 0 THEN start ELSE Released(list, After[i - 1], i)
  IN After[Len(list) - 1]

\* A vertex that would violate is chosen.  Those that it leaves without a
\* critical edge are given up, and RunDiverse_ is called with what remains.
Repair ==
  /\ Repairing /\ back_steps = 0
  /\ \E v \in active.todo :
       LET list == Append(cur_list, v)
           start == [cur |-> Flip(cur, v),
                     crit |-> UpdatedCrit(hyper_graph, active.crit, uncov, v)]
           end == ReleasedAll(list, start)
           kept == Ascending({i \in DOMAIN list : end.crit[i] # {}})
       IN /\ cur' = end.cur
          /\ cur_list' = [i \in DOMAIN kept |-> list[kept[i]]]
          /\ args' = [cand |-> active.cand,
                      crit |-> [i \in DOMAIN kept |-> end.crit[kept[i]]]]
          /\ uncov' = UpdatedUncov(hyper_graph, uncov, v)
          /\ stack' = WithTop(stack,
                        [active EXCEPT
                           !.todo = @ \ {v}, !.v = v,
                           !.old = [cur |-> cur, uncov |-> uncov,
                                    cur_list |-> cur_list]])
  /\ pc' = "call"
  /\ UNCHANGED <<given, place, next_edge, back_steps, stop_flag, results>>

\* Mutant: the list of the vertices chosen is not restored.
ReturnRepairedWithoutList ==
  /\ pc = "return" /\ ~stop_flag
  /\ stack # <<>>
  /\ active.loop = "repair"
  /\ cur' = active.old.cur /\ uncov' = active.old.uncov
  /\ IF active.old.cur # {}
     THEN back_steps' \in StepsBack(Cardinality(active.old.cur) + 1)
     ELSE UNCHANGED back_steps
  /\ stack' = WithTop(stack, [active EXCEPT !.v = NoVertex, !.old = NoMembers])
  /\ pc' = "loop"
  /\ UNCHANGED <<given, place, cur_list, next_edge, stop_flag, args, results>>

\* The call for a vertex of the second loop has returned: whatever it did,
\* the search goes back.
ReturnRepaired ==
  /\ pc = "return" /\ ~stop_flag
  /\ stack # <<>>
  /\ active.loop = "repair"
  /\ cur' = active.old.cur /\ uncov' = active.old.uncov
  /\ cur_list' = active.old.cur_list
  /\ IF active.old.cur # {}
     THEN back_steps' \in StepsBack(Cardinality(active.old.cur) + 1)
     ELSE UNCHANGED back_steps
  /\ stack' = WithTop(stack, [active EXCEPT !.v = NoVertex, !.old = NoMembers])
  /\ pc' = "loop"
  /\ UNCHANGED <<given, place, next_edge, stop_flag, args, results>>

-----------------------------------------------------------------------------
\* Mutant: back_steps is counted down whatever it is.
LeaveCounting ==
  /\ pc = "loop"
  /\ \/ active.todo = {} /\ ~(active.loop = "untried" /\ active.c # {})
     \/ Repairing /\ back_steps # 0
  /\ back_steps' = back_steps - 1
  /\ stack' = Popped(stack)
  /\ pc' = "return"
  /\ UNCHANGED <<given, place, chosen, next_edge, stop_flag, args, results>>

\* The loops are over: if the search goes back, this activation counts.
Leave ==
  /\ pc = "loop"
  /\ \/ active.todo = {} /\ ~(active.loop = "untried" /\ active.c # {})
     \/ Repairing /\ back_steps # 0
  /\ back_steps' = IF back_steps = 0 THEN 0 ELSE back_steps - 1
  /\ stack' = Popped(stack)
  /\ pc' = "return"
  /\ UNCHANGED <<given, place, chosen, next_edge, stop_flag, args, results>>

\* A call has returned with the stop flag set: nothing is restored.
ReturnStopped ==
  /\ pc = "return" /\ stop_flag
  /\ stack # <<>>
  /\ stack' = Popped(stack)
  /\ UNCHANGED <<given, place, chosen, next_edge, back_steps, stop_flag, pc,
                 args, results>>

\* RunDiverse_.
Search ==
  \/ EnterStopped \/ Found \/ Expand
  \/ Skip \/ Descend \/ BackOut \/ ReturnTried
  \/ StartRepair \/ Repair \/ ReturnRepaired
  \/ Leave \/ ReturnStopped

-----------------------------------------------------------------------------
(***************************************************************************)
(* RunDiverse of this class.                                               *)
(***************************************************************************)
InRunDiverse == pc = "return" /\ stack = <<>> /\ ~object.is_auto_inc

AllFound == component = 0 \/ cover_index >= object.number_of_vc

\* Mutant: the stop flag of an earlier component is left set.
StartSearchStopped ==
  /\ InRunDiverse /\ ~AllFound
  /\ SearchComponent(component)
  /\ UNCHANGED <<cover_index, stop_flag>>

\* Another search of the component.
StartSearch ==
  /\ InRunDiverse /\ ~AllFound
  /\ SearchComponent(component)
  /\ stop_flag' = FALSE
  /\ UNCHANGED cover_index

\* The next component.
NextComponent ==
  /\ InRunDiverse /\ AllFound
  /\ component < Len(sub_graphs)
  /\ component' = component + 1 /\ cover_index' = 0
  /\ found' = 0
  /\ UNCHANGED <<given, chosen, next_edge, back_steps, stop_flag, pc, args,
                 stack, vc_list, output>>

\* The covers are pushed to the output queue.
FillQueue ==
  /\ InRunDiverse /\ AllFound
  /\ component = Len(sub_graphs)
  /\ output' = vc_list
  /\ pc' = "done"
  /\ UNCHANGED <<given, place, chosen, next_edge, back_steps, stop_flag, args,
                 stack, vc_list, found>>

RunDiverse == StartSearch \/ NextComponent \/ FillQueue

-----------------------------------------------------------------------------
Members ==
  LET Of(g) == [cur : SUBSET Vertices(g), uncov : SUBSET EdgeIds(g),
                cur_list : Seq(Vertices(g))]
  IN Of(hyper_graph) \cup {NoMembers}

Crits == Seq(SUBSET EdgeIds(hyper_graph))

Frames ==
  LET vertices == Vertices(hyper_graph)
  IN [cand : SUBSET vertices, c : SUBSET vertices, todo : SUBSET vertices,
      crit : Crits, loop : {"untried", "tried", "repair"},
      v : vertices \cup {NoVertex}, back : SUBSET EdgeIds(hyper_graph),
      old : Members]

\* Every variable has its type: sets of vertices or edges of the component
\* searched, a number of steps to go back that is never negative.
TypeOK ==
  /\ object \in Objects
  /\ component \in 0 .. Len(sub_graphs)
  /\ cover_index \in Nat
  /\ back_steps \in Nat
  /\ stop_flag \in BOOLEAN
  /\ found \in Nat
  /\ vc_list \in Seq(SUBSET Vertices(object.hyper_graph))
  /\ output \in Seq(SUBSET Vertices(object.hyper_graph))
  /\ pc \in {"call", "loop", "return", "done"}
  /\ next_edge \in EdgeIds(object.hyper_graph) \cup {Inherited!NoEdge}
  /\ pc \in {"call", "loop"} =>
       /\ [cur |-> cur, uncov |-> uncov, cur_list |-> cur_list] \in Members
       /\ args \in [cand : SUBSET Vertices(hyper_graph), crit : Crits]
       /\ stack \in Seq(Frames)

\* GetSubGraph splits the hypergraph into its connected components.
SubGraphsAreComponents == AreComponents(sub_graphs, object.hyper_graph)

\* The members at which a search goes on are what they would be if computed
\* from scratch, after any number of undone choices and repairs: uncov holds
\* the edges cur leaves unhit, and crit the critical edges of the vertices
\* in cur_list, all of them in cur.
SearchExact ==
  LET Exact(crit) ==
        /\ uncov = Uncovered(hyper_graph, cur)
        /\ Len(crit) = Len(cur_list)
        /\ \A i \in DOMAIN crit :
             /\ cur_list[i] \in cur
             /\ crit[i] = Critical(hyper_graph, cur, cur_list[i])
  IN /\ (pc = "call" /\ ~stop_flag) => Exact(args.crit)
     /\ pc = "loop" => Exact(active.crit)

\* The i-th slot has been given its cover of the c-th component.
Given(i, c) ==
  IF object.is_auto_inc
  THEN i <= cover_index \/ (i = cover_index + 1 /\ found # 0)
  ELSE c < component \/ (c = component /\ i <= cover_index)

\* What has been recorded for a component hits each of its edges, no proper
\* subset does, and what has not been searched yet has left nothing.
RecordedMinimal ==
  \A i \in DOMAIN vc_list, c \in DOMAIN sub_graphs :
    LET part == vc_list[i] \cap Vertices(sub_graphs[c])
    IN IF Given(i, c) THEN IsMinimalHittingSet(sub_graphs[c], part)
       ELSE part = {}

\* With the certain back method no cover is complete only thanks to a repair:
\* the branch that ends in the dead end has none, and after it the search is
\* over.  (With steps that are drawn, branches are left unfinished, and the
\* repair of a later one may complete a cover of theirs.)
RepairFindsNothing ==
  [][object.certain /\ found' > found =>
       \A i \in DOMAIN stack : stack[i].loop # "repair"]_search_vars

\* With MIN a search never fails, whichever way back it has: when it ends it
\* has found a cover, unless it was stopped before it began.
MinFinds ==
  [][object.method = "MIN" /\ pc' = "return" /\ stack' = <<>>
       /\ (pc # "return" \/ stack # <<>>)
     => found' # 0 \/ (pc = "call" /\ stop_flag)]_search_vars

\* With the certain back method a search that has found a cover is over: the
\* steps to go back outlast its activations, those that do not count them
\* included.
OnePerSearch == object.certain => found <= 1

\* What has been pushed hits every edge that is not empty.
PushedCovers ==
  \A i \in DOMAIN output :
    \A e \in EdgeIds(object.hyper_graph) :
      object.hyper_graph[e] # {} =>
        object.hyper_graph[e] \cap output[i] # {}
=============================================================================
