------------------------------ MODULE ADCEnum -------------------------------
(***************************************************************************)
(* ADCEnum (adc_enum.h, adc_enum.cpp): depth-first enumeration of the      *)
(* minimal approximate covers, those that leave at most a share theta of   *)
(* the edges unhit.                                                        *)
(*                                                                         *)
(* Before RunApproximate_ tries the candidates of the edge it picked, it   *)
(* calls itself once to leave that edge unhit: can_hit loses the edges no  *)
(* remaining candidate hits, and is reset after the call.  The activations *)
(* are kept as in module MMCS; v = NoVertex marks one that waits for the   *)
(* call that skips its edge.                                               *)
(***************************************************************************)
EXTENDS CoverBookkeeping, CallStack

CONSTANTS HyperGraphs,   \* the hypergraphs that may be given
          Thetas,        \* the values of theta, in percent
          Methods        \* the values SetMethod may be given

ASSUME HyperGraphsAssumption == \A g \in HyperGraphs : IsHyperGraph(g)

ASSUME ThetasAssumption == Thetas \subseteq 0 .. 100

ASSUME MethodsAssumption ==
  Methods \subseteq {"ORDER", "RANDOM", "MIN", "MAX", "PRIORITY"}

VARIABLES
  hyper_graph, theta, method,   \* given, never assigned
  cur, uncov, can_hit,          \* members that RunApproximate_ restores
  next_edge, total_num,         \* members that it does not
  pc, args, stack,              \* the activations of RunApproximate_
  output                        \* everything pushed to output_queue_, in order

given == <<hyper_graph, theta, method>>
vars == <<hyper_graph, theta, method, cur, uncov, can_hit, next_edge,
          total_num, pc, args, stack, output>>

NoEdge == -1
NoArgs == [cand |-> {}, crit |-> <<>>]

\* The innermost activation.
active == Top(stack)

-----------------------------------------------------------------------------
\* f1(hyper_graph_, n) >= 1 - theta_.  With no edge at all f1 divides by
\* zero, and the comparison with the resulting NaN is false.
Tolerated(n) ==
  /\ EdgeNum(hyper_graph) > 0
  /\ 100 * n <= theta * EdgeNum(hyper_graph)

\* No chosen vertex can be left out without losing the tolerance.
IsMinimal(crit) ==
  \A i \in 1 .. Len(crit) :
    ~Tolerated(Cardinality(uncov) + Cardinality(crit[i]))

\* Mutant: an edge needs all its vertices among the candidates.
CanHitWithAll(cand) ==
  can_hit \ {e \in uncov : ~(hyper_graph[e] \subseteq cand)}

\* UpdateCanCover: the unhit edges no candidate hits can no longer be hit.
CanHitWith(cand) ==
  can_hit \ {e \in uncov : hyper_graph[e] \cap cand = {}}

\* Mutant: the bound on the unhit edges is strict.
WillCoverStrictly(cand) ==
  Tolerated(Cardinality({e \in uncov : hyper_graph[e] \cap cand = {}}) + 1)

\* WillCover: all the candidates together would hit enough edges.
WillCover(cand) ==
  Tolerated(Cardinality({e \in uncov : hyper_graph[e] \cap cand = {}}))

CandNum(cand, e) == Cardinality(cand \cap hyper_graph[e])

\* The edges GetGoodEdgeToCover prefers.  RANDOM is ORDER here; MAX passes
\* over edges without candidates; PRIORITY prefers none.
GoodEdges(cand) ==
  LET open == uncov \cap can_hit
  IN CASE method \in {"ORDER", "RANDOM"} -> open
       [] method = "MIN" ->
            {e \in open : \A f \in open : CandNum(cand, e) <= CandNum(cand, f)}
       [] method = "MAX" ->
            {e \in open : /\ CandNum(cand, e) > 0
                          /\ \A f \in open : CandNum(cand, e) >= CandNum(cand, f)}
       [] OTHER -> {}

-----------------------------------------------------------------------------
Init ==
  /\ hyper_graph \in HyperGraphs
  /\ theta \in Thetas
  /\ method \in Methods
  /\ cur = {}
  /\ uncov = EdgeIds(hyper_graph)
  /\ can_hit = EdgeIds(hyper_graph)
  /\ next_edge = NoEdge
  /\ total_num = 0
  /\ pc = "call"
  /\ args = [cand |-> Vertices(hyper_graph), crit |-> <<>>]
  /\ stack = <<>>
  /\ output = <<>>

\* RunApproximate_ finds few enough edges unhit, and pushes cur if it is
\* minimal.
Found ==
  /\ pc = "call"
  /\ Tolerated(Cardinality(uncov))
  /\ IF IsMinimal(args.crit)
       THEN /\ total_num' = total_num + 1
            /\ output' = Append(output, cur)
       ELSE UNCHANGED <<total_num, output>>
  /\ pc' = "return"
  /\ args' = NoArgs
  /\ UNCHANGED <<given, cur, uncov, can_hit, next_edge, stack>>

\* No edge is left that could be covered.
GiveUp ==
  /\ pc = "call"
  /\ ~Tolerated(Cardinality(uncov))
  /\ GoodEdges(args.cand) = {}
  /\ pc' = "return"
  /\ args' = NoArgs
  /\ UNCHANGED <<given, cur, uncov, can_hit, next_edge, total_num, stack,
                 output>>

\* RunApproximate_ picks an edge and, if the candidates outside it would do,
\* calls itself to leave the edge unhit.
Expand ==
  /\ pc = "call"
  /\ ~Tolerated(Cardinality(uncov))
  /\ GoodEdges(args.cand) # {}
  /\ LET e == Least(GoodEdges(args.cand))
         c == args.cand \cap hyper_graph[e]
         cand_copy == args.cand \ c
     IN /\ next_edge' = e
        /\ stack' = Append(stack, [cand |-> cand_copy, todo |-> c,
                                   crit |-> args.crit, can_hit |-> can_hit,
                                   v |-> NoVertex, back |-> {}])
        /\ IF WillCover(cand_copy)
             THEN /\ can_hit' = CanHitWith(cand_copy)
                  /\ args' = [args EXCEPT !.cand = cand_copy]
                  /\ pc' = "call"
             ELSE /\ UNCHANGED can_hit
                  /\ args' = NoArgs
                  /\ pc' = "loop"
  /\ UNCHANGED <<given, cur, uncov, total_num, output>>

\* Mutant: can_hit is not reset.
ReturnSkipWithoutReset ==
  /\ pc = "return"
  /\ stack # <<>>
  /\ active.v = NoVertex
  /\ pc' = "loop"
  /\ UNCHANGED <<given, cur, uncov, can_hit, next_edge, total_num, args, stack,
                 output>>

\* The call that left the edge unhit has returned: can_hit is reset.
ReturnSkip ==
  /\ pc = "return"
  /\ stack # <<>>
  /\ active.v = NoVertex
  /\ can_hit' = active.can_hit
  /\ pc' = "loop"
  /\ UNCHANGED <<given, cur, uncov, next_edge, total_num, args, stack, output>>

\* The next vertex of c would violate: it is passed over.
SkipVertex ==
  /\ pc = "loop"
  /\ active.todo # {}
  /\ LET v == Least(active.todo)
     IN /\ VertexWouldViolate(hyper_graph, active.crit, v)
        /\ stack' = WithTop(stack, [active EXCEPT !.todo = @ \ {v}])
  /\ UNCHANGED <<given, cur, uncov, can_hit, next_edge, total_num, pc, args,
                 output>>

\* The next vertex of c is chosen, and RunApproximate_ called.
Descend ==
  /\ pc = "loop"
  /\ active.todo # {}
  /\ LET v == Least(active.todo)
         back == NewCrit(hyper_graph, uncov, v)
     IN /\ ~VertexWouldViolate(hyper_graph, active.crit, v)
        /\ cur' = Flip(cur, v)
        /\ uncov' = UpdatedUncov(hyper_graph, uncov, v)
        /\ args' = [cand |-> active.cand,
                    crit |-> UpdatedCrit(hyper_graph, active.crit, uncov, v)]
        /\ stack' = WithTop(stack, [active EXCEPT !.todo = @ \ {v}, !.v = v,
                                                  !.back = back])
  /\ pc' = "call"
  /\ UNCHANGED <<given, can_hit, next_edge, total_num, output>>

\* Mutant: a vertex is taken back after the call that skipped the edge, too.
ReturnVertexAlways ==
  /\ pc = "return"
  /\ stack # <<>>
  /\ cur' = Flip(cur, active.v)
  /\ uncov' = uncov \cup active.back
  /\ stack' = WithTop(stack, [active EXCEPT !.cand = @ \cup {active.v},
                                            !.v = NoVertex, !.back = {}])
  /\ pc' = "loop"
  /\ UNCHANGED <<given, can_hit, next_edge, total_num, args, output>>

\* The call for the vertex chosen last has returned: cur and uncov are
\* restored, and the vertex is a candidate again for those after it.
ReturnVertex ==
  /\ pc = "return"
  /\ stack # <<>>
  /\ active.v # NoVertex
  /\ cur' = Flip(cur, active.v)
  /\ uncov' = uncov \cup active.back
  /\ stack' = WithTop(stack, [active EXCEPT !.cand = @ \cup {active.v},
                                            !.v = NoVertex, !.back = {}])
  /\ pc' = "loop"
  /\ UNCHANGED <<given, can_hit, next_edge, total_num, args, output>>

\* The loop is over.
Leave ==
  /\ pc = "loop"
  /\ active.todo = {}
  /\ stack' = Popped(stack)
  /\ pc' = "return"
  /\ UNCHANGED <<given, cur, uncov, can_hit, next_edge, total_num, args,
                 output>>

\* The outermost call has returned, and with it RunApproximate.
Finish ==
  /\ pc = "return"
  /\ stack = <<>>
  /\ pc' = "done"
  /\ UNCHANGED <<given, cur, uncov, can_hit, next_edge, total_num, args,
                 stack, output>>

Terminated == pc = "done" /\ UNCHANGED vars

Next ==
  \/ Found \/ GiveUp \/ Expand \/ ReturnSkip \/ SkipVertex \/ Descend
  \/ ReturnVertex \/ Leave \/ Finish \/ Terminated

\* One thread runs the algorithm, and nothing it does waits.
Spec == Init /\ [][Next]_vars /\ WF_vars(Next)

-----------------------------------------------------------------------------
Crits == Seq(SUBSET EdgeIds(hyper_graph))

Args == [cand : SUBSET Vertices(hyper_graph), crit : Crits]

Frames ==
  [cand : SUBSET Vertices(hyper_graph), todo : SUBSET Vertices(hyper_graph),
   crit : Crits, can_hit : SUBSET EdgeIds(hyper_graph),
   v : Vertices(hyper_graph) \cup {NoVertex},
   back : SUBSET EdgeIds(hyper_graph)]

\* Every variable has its type: sets of vertices or edges of the hypergraph.
TypeOK ==
  /\ hyper_graph \in HyperGraphs
  /\ theta \in Thetas
  /\ method \in Methods
  /\ cur \subseteq Vertices(hyper_graph)
  /\ uncov \subseteq EdgeIds(hyper_graph)
  /\ can_hit \subseteq EdgeIds(hyper_graph)
  /\ next_edge \in EdgeIds(hyper_graph) \cup {NoEdge}
  /\ total_num \in Nat
  /\ pc \in {"call", "loop", "return", "done"}
  /\ args \in Args
  /\ stack \in Seq(Frames)
  /\ output \in Seq(SUBSET Vertices(hyper_graph))

\* How many vertices the first j activations of s have chosen: those that
\* wait for the call that skips their edge have chosen none.
Rank(s, j) == Cardinality({k \in 1 .. j : s[k].v # NoVertex})

\* crit holds, in the order of the choices, the critical edges of each vertex
\* chosen in s before the i-th activation.
CritExact(g, s, i, crit) ==
  /\ Len(crit) = Rank(s, i - 1)
  /\ \A j \in 1 .. i - 1 :
       s[j].v # NoVertex =>
         crit[Rank(s, j)] = Critical(g, ChosenBefore(s, i), s[j].v)

\* The members and the crit of every activation are what they would be if
\* computed from scratch, and the loop of an activation always sees the
\* can_hit it was entered with: what the call that skipped its edge, or any
\* call below, took from can_hit is back.
Bookkeeping ==
  /\ cur = ChosenBefore(stack, Len(stack) + 1)
  /\ uncov = Uncovered(hyper_graph, cur)
  /\ pc = "call" => CritExact(hyper_graph, stack, Len(stack) + 1, args.crit)
  /\ pc = "loop" => can_hit = active.can_hit
  /\ \A i \in 1 .. Len(stack) : CritExact(hyper_graph, stack, i, stack[i].crit)

\* An unhit edge is given up only when no candidate is left that hits it: no
\* cover is lost to can_hit.
GivenUpUnhittable ==
  /\ pc = "call" =>
       \A e \in uncov \ can_hit : hyper_graph[e] \cap args.cand = {}
  /\ \A i \in 1 .. Len(stack) :
       \A e \in Uncovered(hyper_graph, ChosenBefore(stack, i)) \ stack[i].can_hit :
         hyper_graph[e] \cap (stack[i].cand \cup stack[i].todo) = {}

\* The abstract enumeration: each minimal approximate cover once, nothing
\* else, all of them before RunApproximate returns, and it does return.
Enumeration == INSTANCE CoverEnumeration
  WITH emitted <- output, finished <- (pc = "done")
ImplementsEnumeration == Enumeration!Spec
=============================================================================
