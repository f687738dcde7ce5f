-------------------------------- MODULE MMCS --------------------------------
(***************************************************************************)
(* MMCS (mmcs.h, mmcs.cpp): depth-first enumeration of the minimal hitting *)
(* sets of a hypergraph.                                                   *)
(*                                                                         *)
(* RunAll_ is recursive.  Its activations are the records of stack, the    *)
(* outermost first; args holds the arguments of a call not yet entered and *)
(* pc the place of the innermost activation:                               *)
(*                                                                         *)
(*   "call"    RunAll_ is entered with args                                *)
(*   "loop"    the head of the loop over c in the last activation          *)
(*   "return"  RunAll_ has returned to the last activation                 *)
(*   "done"    RunAll has returned                                         *)
(*                                                                         *)
(* cur, uncov and next_edge are members, shared by all activations and     *)
(* restored by hand, which is where the algorithm is easy to get wrong.    *)
(***************************************************************************)
EXTENDS CoverBookkeeping, CallStack

CONSTANTS HyperGraphs,   \* the hypergraphs that may be given
          Methods        \* the values SetMethod may be given

ASSUME HyperGraphsAssumption == \A g \in HyperGraphs : IsHyperGraph(g)

ASSUME MethodsAssumption ==
  Methods \subseteq {"ORDER", "RANDOM", "MIN", "MAX", "PRIORITY"}

VARIABLES
  hyper_graph, method,     \* given, never assigned
  cur, uncov, next_edge,   \* members of MMCS
  pc, args, stack,         \* the activations of RunAll_
  output                   \* everything pushed to output_queue_, in order

given == <<hyper_graph, method>>
vars == <<hyper_graph, method, cur, uncov, next_edge, pc, args, stack, output>>

NoEdge == -1
NoArgs == [cand |-> {}, crit |-> <<>>]

\* The innermost activation.
active == Top(stack)

-----------------------------------------------------------------------------
(***************************************************************************)
(* The results GetGoodEdgeToCover may have: the edge returned, and the     *)
(* member next_edge_ it leaves behind.  RANDOM, and every other method     *)
(* while cur is empty, stores in next_edge_ the position of the edge among *)
(* the uncovered ones rather than its id.                                  *)
(***************************************************************************)
Choice(e, next) == [edge |-> e, next |-> next]

\* Mutant: the position counts from one.
RandomChoicesFromOne ==
  {Choice(e, Cardinality({f \in uncov : f <= e})) : e \in uncov}

RandomChoices ==
  {Choice(e, Cardinality({f \in uncov : f < e})) : e \in uncov}

CandNum(cand, e) == Cardinality(cand \cap hyper_graph[e])

\* The uncovered edges with the fewest candidates.
FewestCand(cand) ==
  {e \in uncov : \A f \in uncov : CandNum(cand, e) <= CandNum(cand, f)}

\* The uncovered edges with the most candidates, if any edge has one.
MostCand(cand) ==
  {e \in uncov : /\ CandNum(cand, e) > 0
                 /\ \A f \in uncov : CandNum(cand, e) >= CandNum(cand, f)}

\* MAX keeps the next_edge_ of an earlier call when no uncovered edge has a
\* candidate; PRIORITY, which no branch of the scan knows, always keeps it.
ScanChoice(cand) ==
  LET best == CASE method = "MIN" -> FewestCand(cand)
                [] method = "MAX" -> MostCand(cand)
                [] OTHER -> {}
      e == IF best = {} THEN next_edge ELSE Least(best)
  IN Choice(e, e)

GoodEdgesToCover(cand) ==
  IF method = "ORDER" THEN {Choice(Least(uncov), Least(uncov))}
  ELSE IF method = "RANDOM" \/ cur = {} THEN RandomChoices
  ELSE {ScanChoice(cand)}

-----------------------------------------------------------------------------
Init ==
  /\ hyper_graph \in HyperGraphs
  /\ method \in Methods
  /\ cur = {}
  /\ uncov = EdgeIds(hyper_graph)
  /\ next_edge = NoEdge
  /\ pc = "call"
  /\ args = [cand |-> Vertices(hyper_graph), crit |-> <<>>]
  /\ stack = <<>>
  /\ output = <<>>

\* RunAll_ finds every edge hit: cur is pushed to the output queue.
Found ==
  /\ pc = "call"
  /\ uncov = {}
  /\ output' = Append(output, cur)
  /\ pc' = "return"
  /\ args' = NoArgs
  /\ UNCHANGED <<given, cur, uncov, next_edge, stack>>

\* RunAll_ picks an edge to cover and starts the loop over its candidates.
Expand ==
  /\ pc = "call"
  /\ uncov # {}
  /\ \E choice \in GoodEdgesToCover(args.cand) :
       LET c == args.cand \cap hyper_graph[choice.edge]
       IN /\ next_edge' = choice.next
          /\ stack' = Append(stack, [cand |-> args.cand \ c, todo |-> c,
                                     crit |-> args.crit,
                                     v |-> NoVertex, back |-> {}])
  /\ pc' = "loop"
  /\ args' = NoArgs
  /\ UNCHANGED <<given, cur, uncov, output>>

\* The next vertex of c would violate: it is passed over.
SkipVertex ==
  /\ pc = "loop"
  /\ active.todo # {}
  /\ LET v == Least(active.todo)
     IN /\ VertexWouldViolate(hyper_graph, active.crit, v)
        /\ stack' = WithTop(stack, [active EXCEPT !.todo = @ \ {v}])
  /\ UNCHANGED <<given, cur, uncov, next_edge, pc, args, output>>

\* The next vertex of c is chosen, and RunAll_ called.
Descend ==
  /\ pc = "loop"
  /\ active.todo # {}
  /\ LET v == Least(active.todo)
     IN /\ ~VertexWouldViolate(hyper_graph, active.crit, v)
        /\ cur' = Flip(cur, v)
        /\ uncov' = UpdatedUncov(hyper_graph, uncov, v)
        /\ args' = [cand |-> active.cand,
                    crit |-> UpdatedCrit(hyper_graph, active.crit, uncov, v)]
        /\ stack' = WithTop(stack, [active EXCEPT !.todo = @ \ {v}, !.v = v,
                                        !.back = NewCrit(hyper_graph, uncov, v)])
  /\ pc' = "call"
  /\ UNCHANGED <<given, next_edge, output>>

\* Mutant: RestoreCritAndUncov is forgotten.
ReturnWithoutRestore ==
  /\ pc = "return"
  /\ stack # <<>>
  /\ cur' = Flip(cur, active.v)
  /\ stack' = WithTop(stack, [active EXCEPT !.cand = @ \cup {active.v},
                                  !.v = NoVertex, !.back = {}])
  /\ pc' = "loop"
  /\ UNCHANGED <<given, uncov, next_edge, args, output>>

\* Mutant: the vertex does not become a candidate again.
ReturnWithoutCandidate ==
  /\ pc = "return"
  /\ stack # <<>>
  /\ cur' = Flip(cur, active.v)
  /\ uncov' = uncov \cup active.back
  /\ stack' = WithTop(stack, [active EXCEPT !.v = NoVertex, !.back = {}])
  /\ pc' = "loop"
  /\ UNCHANGED <<given, next_edge, args, output>>

\* The call for the vertex chosen last has returned: cur and uncov are
\* restored, and the vertex is a candidate again for those after it.
Return ==
  /\ pc = "return"
  /\ stack # <<>>
  /\ cur' = Flip(cur, active.v)
  /\ uncov' = uncov \cup active.back
  /\ stack' = WithTop(stack, [active EXCEPT !.cand = @ \cup {active.v},
                                  !.v = NoVertex, !.back = {}])
  /\ pc' = "loop"
  /\ UNCHANGED <<given, next_edge, args, output>>

\* The loop is over.
Leave ==
  /\ pc = "loop"
  /\ active.todo = {}
  /\ stack' = Popped(stack)
  /\ pc' = "return"
  /\ UNCHANGED <<given, cur, uncov, next_edge, args, output>>

\* The outermost call has returned, and with it RunAll.
Finish ==
  /\ pc = "return"
  /\ stack = <<>>
  /\ pc' = "done"
  /\ UNCHANGED <<given, cur, uncov, next_edge, args, stack, output>>

Terminated == pc = "done" /\ UNCHANGED vars

Next ==
  \/ Found \/ Expand \/ SkipVertex \/ Descend \/ Return \/ Leave \/ Finish
  \/ Terminated

\* One thread runs the algorithm, and nothing it does waits.
Spec == Init /\ [][Next]_vars /\ WF_vars(Next)

-----------------------------------------------------------------------------
Crits == Seq(SUBSET EdgeIds(hyper_graph))

Args == [cand : SUBSET Vertices(hyper_graph), crit : Crits]

Frames ==
  [cand : SUBSET Vertices(hyper_graph), todo : SUBSET Vertices(hyper_graph),
   crit : Crits, v : Vertices(hyper_graph) \cup {NoVertex},
   back : SUBSET EdgeIds(hyper_graph)]

\* Every variable has its type: sets of vertices or edges of the hypergraph.
TypeOK ==
  /\ hyper_graph \in HyperGraphs
  /\ method \in Methods
  /\ cur \subseteq Vertices(hyper_graph)
  /\ uncov \subseteq EdgeIds(hyper_graph)
  /\ next_edge \in EdgeIds(hyper_graph) \cup {NoEdge}
  /\ pc \in {"call", "loop", "return", "done"}
  /\ args \in Args
  /\ stack \in Seq(Frames)
  /\ output \in Seq(SUBSET Vertices(hyper_graph))

\* crit holds the critical edges of each vertex chosen in s before the i-th.
CritExact(g, s, i, crit) ==
  /\ Len(crit) = i - 1
  /\ \A j \in 1 .. i - 1 :
       crit[j] = Critical(g, ChosenBefore(s, i), s[j].v)

\* The members and the crit vector of every activation are what they would
\* be if computed from scratch: undoing a choice (RestoreCritAndUncov, the
\* second Flip) restores exactly what it changed, at every depth, whatever
\* was explored in between.
Bookkeeping ==
  /\ cur = ChosenBefore(stack, Len(stack) + 1)
  /\ uncov = Uncovered(hyper_graph, cur)
  /\ pc = "call" => CritExact(hyper_graph, stack, Len(stack) + 1, args.crit)
  /\ \A i \in 1 .. Len(stack) : CritExact(hyper_graph, stack, i, stack[i].crit)

\* Whatever reaches the output queue hits every edge and has no proper
\* subset that does, whichever edge each activation chose to cover.
OutputsMinimal ==
  \A i \in 1 .. Len(output) : IsMinimalHittingSet(hyper_graph, output[i])

\* RunAll has pushed every minimal hitting set by the time it returns.
Complete ==
  pc = "done" =>
    MinimalCovers(hyper_graph, 0) \subseteq {output[i] : i \in 1 .. Len(output)}
=============================================================================
