----------------------------- MODULE MMCSProofs -----------------------------
(***************************************************************************)
(* MMCS for every hypergraph and every method: its bookkeeping is exact in *)
(* every state, everything it pushes to the output queue is a minimal      *)
(* hitting set, nothing is pushed twice, and with a method other than      *)
(* PRIORITY every minimal hitting set has been pushed when it returns.     *)
(* Then SubMMCS, for every request.                                        *)
(***************************************************************************)
EXTENDS SubMMCS, CoverSearchProofs

\* The activations that wait for a call they made are those that have chosen
\* a vertex: all but the one that runs.
StackShape ==
  /\ pc = "loop" => stack # <<>>
  /\ pc = "done" => stack = <<>>
  /\ \A i \in 1 .. Len(stack) :
       stack[i].v = NoVertex <=> (i = Len(stack) /\ pc = "loop")

\* Activation i of s can choose no vertex chosen before it.
Fresh(s, i) ==
  /\ s[i].cand \cap ChosenBefore(s, i) = {}
  /\ s[i].todo \cap ChosenBefore(s, i) = {}
  /\ s[i].cand \cap s[i].todo = {}
  /\ s[i].v \notin s[i].cand \cup s[i].todo \cup ChosenBefore(s, i)

\* It had an edge left to cover, its crit is exact, and it remembers the
\* edges its choice took from uncov.
Exact(g, s, i) ==
  /\ Uncovered(g, ChosenBefore(s, i)) # {}
  /\ CritExact(g, s, i, s[i].crit)
  /\ s[i].v # NoVertex =>
       s[i].back = NewCrit(g, Uncovered(g, ChosenBefore(s, i)), s[i].v)

ActivationsOK ==
  \A i \in 1 .. Len(stack) : Fresh(stack, i) /\ Exact(hyper_graph, stack, i)

\* The members are those of the vertices chosen by all activations.
MembersOK ==
  /\ cur = ChosenBefore(stack, Len(stack) + 1)
  /\ uncov = Uncovered(hyper_graph, cur)

\* A call may choose no vertex of cur, and if it finds every edge covered
\* then every vertex of cur is critical.
CallOK ==
  pc = "call" =>
    /\ args.cand \cap cur = {}
    /\ CritExact(hyper_graph, stack, Len(stack) + 1, args.crit)
    /\ uncov = {} => \A j \in 1 .. Len(args.crit) : args.crit[j] # {}

IInv ==
  TypeOK /\ StackShape /\ ActivationsOK /\ MembersOK /\ CallOK /\ OutputsMinimal

-----------------------------------------------------------------------------
\* What holds of an activation depends on it and those before it only.
LEMMA ActivationUnchanged ==
  ASSUME NEW g, NEW s, NEW t, NEW i \in Nat \ {0},
         \A j \in 1 .. i : t[j] = s[j],
         Fresh(s, i), Exact(g, s, i)
  PROVE  Fresh(t, i) /\ Exact(g, t, i)
<1>1. t[i] = s[i] /\ \A j \in 1 .. i - 1 : t[j] = s[j]
  OBVIOUS
<1>2. ChosenBefore(t, i) = ChosenBefore(s, i)
  BY <1>1, ChosenUnchanged
<1> QED
  BY <1>1, <1>2 DEF Fresh, Exact, CritExact

\* No vertex of the hypergraph is NoVertex, and vertices and edges are
\* natural numbers.
LEMMA HyperGraphProperties ==
  ASSUME NEW g \in HyperGraphs
  PROVE  /\ Vertices(g) \subseteq Nat
         /\ NoVertex \notin Vertices(g)
         /\ IsFiniteSet(EdgeIds(g))
         /\ EdgeNum(g) \in Nat
         /\ EdgeIds(g) = 0 .. EdgeNum(g) - 1
         /\ EdgeIds(g) \subseteq Nat
         /\ \A e \in EdgeIds(g) : g[e] \subseteq Vertices(g)
BY HyperGraphsAssumption, IsHyperGraphProperties

-----------------------------------------------------------------------------
(***************************************************************************)
(* Type correctness.  Return needs the shape of the stack: the activation  *)
(* a call returns to has chosen a vertex.                                  *)
(***************************************************************************)

\* Every edge GetGoodEdgeToCover may return, and every value it may leave in
\* next_edge_, is the id of an edge.
LEMMA ChoiceProperties ==
  ASSUME TypeOK, uncov # {}, NEW cand,
         NEW choice \in GoodEdgesToCover(cand)
  PROVE  choice.next \in EdgeIds(hyper_graph) \cup {NoEdge}
<1> DEFINE E == EdgeIds(hyper_graph)
<1>1. /\ E \subseteq Nat /\ IsFiniteSet(E) /\ Cardinality(E) \in Nat
      /\ E = 0 .. Cardinality(E) - 1
      /\ uncov \subseteq E
  BY HyperGraphProperties DEF TypeOK, EdgeNum
<1>2. \A S \in SUBSET uncov : S # {} => Least(S) \in E
  BY <1>1, LeastProperties
<1>3. CASE choice = Choice(Least(uncov), Least(uncov))
  BY <1>2, <1>3 DEF Choice
<1>4. CASE choice \in RandomChoices
  <2>1. PICK e \in uncov :
          choice.next = Cardinality({f \in uncov : f < e})
    BY <1>4 DEF RandomChoices, Choice
  <2> DEFINE before == {f \in uncov : f < e}
  <2>2. e \in E /\ e \in Nat /\ before \in SUBSET (E \ {e})
    BY <1>1
  <2>3. IsFiniteSet(E \ {e}) /\ Cardinality(E \ {e}) = Cardinality(E) - 1
    BY <1>1, <2>2, FS_RemoveElement
  <2>4. /\ IsFiniteSet(before)
        /\ Cardinality(before) <= Cardinality(E \ {e})
    BY <2>2, <2>3, FS_Subset
  <2>5. Cardinality(before) \in Nat
    BY <2>4, FS_CardinalityType
  <2>6. Cardinality(before) \in 0 .. Cardinality(E) - 1
    BY <1>1, <2>3, <2>4, <2>5
  <2> QED
    BY <1>1, <2>1, <2>6
<1>5. CASE choice = ScanChoice(cand)
  <2> DEFINE best == CASE method = "MIN" -> FewestCand(cand)
                       [] method = "MAX" -> MostCand(cand)
                       [] OTHER -> {}
  <2>1. best \in SUBSET uncov
    BY DEF FewestCand, MostCand
  <2>2. choice.next = IF best = {} THEN next_edge ELSE Least(best)
    BY <1>5 DEF ScanChoice, Choice
  <2> HIDE DEF best
  <2> QED
    BY <1>2, <2>1, <2>2 DEF TypeOK
<1> QED
  BY <1>3, <1>4, <1>5 DEF GoodEdgesToCover

LEMMA TypeInit == Init => TypeOK /\ StackShape
<1> SUFFICES ASSUME Init PROVE TypeOK /\ StackShape
  OBVIOUS
<1>1. args \in Args
  BY DEF Init, Args, Crits
<1>2. TypeOK
  BY <1>1 DEF Init, TypeOK
<1> QED
  BY <1>2 DEF Init, StackShape

LEMMA TypeNext ==
  TypeOK /\ StackShape /\ [Next]_vars => (TypeOK /\ StackShape)'
<1> SUFFICES ASSUME TypeOK, StackShape, [Next]_vars
             PROVE  (TypeOK /\ StackShape)'
  OBVIOUS
<1> USE DEF given
<1> DEFINE d == Len(stack)
<1>1. stack \in Seq(Frames) /\ d \in Nat
  BY DEF TypeOK
<1>2. stack # <<>> =>
        /\ d \in 1 .. d /\ active \in Frames
        /\ active = stack[d]
  BY <1>1, TopProperties DEF active
<1>3. NoVertex \notin Vertices(hyper_graph)
      /\ Vertices(hyper_graph) \subseteq Nat
  BY HyperGraphProperties DEF TypeOK
<1>t. ASSUME stack # <<>>, NEW f \in Frames, stack' = WithTop(stack, f)
      PROVE  /\ stack' \in Seq(Frames) /\ Len(stack') = d /\ stack'[d] = f
             /\ \A i \in 1 .. d - 1 : stack'[i] = stack[i]
             /\ stack' # <<>>
  <2>1. stack \in Seq(Frames)
    BY <1>1
  <2>2. stack # <<>>
    BY <1>t
  <2>3. f \in Frames
    OBVIOUS
  <2>4. /\ WithTop(stack, f) \in Seq(Frames)
        /\ Len(WithTop(stack, f)) = Len(stack)
        /\ WithTop(stack, f)[Len(stack)] = f
        /\ \A i \in 1 .. Len(stack) - 1 : WithTop(stack, f)[i] = stack[i]
        /\ WithTop(stack, f) # <<>>
    BY ONLY <2>1, <2>2, <2>3, WithTopProperties
  <2> QED
    BY <1>t, <2>4
<1>4. CASE Found
  <2>1. output' \in Seq(SUBSET Vertices(hyper_graph))
    BY <1>4 DEF Found, TypeOK
  <2>2. args' \in Args
    BY <1>4 DEF Found, Args, Crits, NoArgs
  <2> QED
    BY <1>4, <2>1, <2>2
       DEF Found, TypeOK, StackShape, Args, Frames, Crits
<1>5. CASE Expand
  <2>1. PICK choice \in GoodEdgesToCover(args.cand) :
          LET c == args.cand \cap hyper_graph[choice.edge]
          IN /\ next_edge' = choice.next
             /\ stack' = Append(stack, [cand |-> args.cand \ c, todo |-> c,
                                        crit |-> args.crit,
                                        v |-> NoVertex, back |-> {}])
    BY <1>5 DEF Expand
  <2> DEFINE c == args.cand \cap hyper_graph[choice.edge]
             f == [cand |-> args.cand \ c, todo |-> c, crit |-> args.crit,
                   v |-> NoVertex, back |-> {}]
  <2>2. next_edge' \in EdgeIds(hyper_graph) \cup {NoEdge}
    BY <1>5, <2>1, ChoiceProperties DEF Expand
  <2>3. f \in Frames /\ f.v = NoVertex
    BY DEF TypeOK, Frames, Args
  <2> HIDE DEF f
  <2>4. /\ stack' \in Seq(Frames) /\ Len(stack') = d + 1
        /\ stack'[d + 1] = f /\ \A i \in 1 .. d : stack'[i] = stack[i]
        /\ stack' # <<>>
    BY <1>1, <2>1, <2>3, PushProperties DEF f
  <2>5. args' \in Args
    BY <1>5 DEF Expand, Args, Crits, NoArgs
  <2>6. TypeOK'
    BY <1>5, <2>2, <2>4, <2>5 DEF Expand, TypeOK, Frames, Args, Crits
  <2>7. StackShape'
    BY <1>1, <1>5, <2>3, <2>4 DEF Expand, StackShape
  <2> QED
    BY <2>6, <2>7
<1>6. CASE SkipVertex
  <2> DEFINE v == Least(active.todo)
             f == [active EXCEPT !.todo = @ \ {v}]
  <2>1. stack # <<>> /\ stack' = WithTop(stack, f)
    BY <1>6 DEF SkipVertex, StackShape
  <2>2. f \in Frames /\ f.v = active.v
    BY <1>2, <2>1 DEF Frames
  <2> HIDE DEF f, v
  <2>3. /\ stack' \in Seq(Frames) /\ Len(stack') = d /\ stack'[d] = f
        /\ \A i \in 1 .. d - 1 : stack'[i] = stack[i]
        /\ stack' # <<>>
    BY <1>t, <2>1, <2>2
  <2>4. TypeOK'
    BY <1>6, <2>3 DEF SkipVertex, TypeOK, Frames, Args, Crits
  <2>5. \A i \in 1 .. d : stack'[i].v = stack[i].v
    BY <1>1, <1>2, <2>1, <2>2, <2>3
  <2>6. StackShape'
    BY <1>6, <2>3, <2>5 DEF SkipVertex, StackShape
  <2> QED
    BY <2>4, <2>6
<1>7. CASE Descend
  <2> DEFINE v == Least(active.todo)
             f == [active EXCEPT !.todo = @ \ {v}, !.v = v,
                                 !.back = NewCrit(hyper_graph, uncov, v)]
  <2>1. stack # <<>> /\ stack' = WithTop(stack, f)
    BY <1>7 DEF Descend, StackShape
  <2>2. active.todo \in SUBSET Vertices(hyper_graph) /\ active.todo # {}
        /\ active.crit \in Seq(SUBSET EdgeIds(hyper_graph))
    BY <1>2, <1>7, <2>1 DEF Descend, Frames, Crits
  <2>3. v \in Vertices(hyper_graph)
    BY <1>3, <2>2, LeastProperties
  <2> HIDE DEF v
  <2>4. NewCrit(hyper_graph, uncov, v) \in SUBSET EdgeIds(hyper_graph)
    BY DEF NewCrit, TypeOK
  <2>5. f \in Frames /\ f.v = v
    BY <1>2, <2>1, <2>3, <2>4 DEF Frames
  <2> HIDE DEF f
  <2>6. /\ stack' \in Seq(Frames) /\ Len(stack') = d /\ stack'[d] = f
        /\ \A i \in 1 .. d - 1 : stack'[i] = stack[i]
        /\ stack' # <<>>
    BY <1>t, <2>1, <2>5
  <2>7. UpdatedCrit(hyper_graph, active.crit, uncov, v)
          \in Seq(SUBSET EdgeIds(hyper_graph))
    BY <2>2, UpdatedCritProperties DEF TypeOK
  <2>8. args' \in Args
    BY <1>2, <1>7, <2>1, <2>7 DEF Descend, Args, Crits, Frames, v
  <2>9. /\ cur' \subseteq Vertices(hyper_graph)
        /\ uncov' \subseteq EdgeIds(hyper_graph)
    BY <1>7, <2>3 DEF Descend, Flip, UpdatedUncov, TypeOK, v
  <2>10. TypeOK'
    BY <1>7, <2>6, <2>8, <2>9 DEF Descend, TypeOK, Frames, Args, Crits
  <2>11. StackShape'
    BY <1>1, <1>3, <1>7, <2>3, <2>5, <2>6 DEF Descend, StackShape
  <2> QED
    BY <2>10, <2>11
<1>8. CASE Return
  <2> DEFINE f == [active EXCEPT !.cand = @ \cup {active.v},
                                 !.v = NoVertex, !.back = {}]
  <2>1. stack # <<>> /\ stack' = WithTop(stack, f)
    BY <1>8 DEF Return
  <2>2. active.v \in Vertices(hyper_graph)
    BY <1>2, <1>8, <2>1 DEF Return, StackShape, Frames
  <2>3. f \in Frames /\ f.v = NoVertex
    BY <1>2, <2>1, <2>2 DEF Frames
  <2> HIDE DEF f
  <2>4. /\ stack' \in Seq(Frames) /\ Len(stack') = d /\ stack'[d] = f
        /\ \A i \in 1 .. d - 1 : stack'[i] = stack[i]
        /\ stack' # <<>>
    BY <1>t, <2>1, <2>3
  <2>5. /\ cur' \subseteq Vertices(hyper_graph)
        /\ uncov' \subseteq EdgeIds(hyper_graph)
    BY <1>2, <1>8, <2>1, <2>2 DEF Return, Flip, TypeOK, Frames
  <2>6. TypeOK'
    BY <1>8, <2>4, <2>5 DEF Return, TypeOK, Frames, Args, Crits
  <2>7. StackShape'
    BY <1>1, <1>8, <2>3, <2>4 DEF Return, StackShape
  <2> QED
    BY <2>6, <2>7
<1>9. CASE Leave
  <2>1. stack # <<>> /\ stack' = Popped(stack)
    BY <1>9 DEF Leave, StackShape
  <2>2. /\ stack' \in Seq(Frames) /\ Len(stack') = d - 1
        /\ \A i \in 1 .. d - 1 : stack'[i] = stack[i]
    BY <1>1, <2>1, PoppedProperties
  <2>3. TypeOK'
    BY <1>9, <2>2 DEF Leave, TypeOK, Frames, Args, Crits
  <2>4. StackShape'
    BY <1>1, <1>9, <2>2 DEF Leave, StackShape
  <2> QED
    BY <2>3, <2>4
<1>10. CASE Finish
  BY <1>10 DEF Finish, TypeOK, StackShape, Args, Frames, Crits
<1>11. CASE UNCHANGED vars
  BY <1>11 DEF vars, TypeOK, StackShape, Args, Frames, Crits
<1> QED
  BY <1>4, <1>5, <1>6, <1>7, <1>8, <1>9, <1>10, <1>11 DEF Next, Terminated

\* Every reachable state is type correct, for every hypergraph and method:
\* next_edge_ is always an edge id, so that GetEdge stays within edge_list_,
\* the second Flip never sees an activation without a vertex.
THEOREM TypeCorrect == Spec => []TypeOK
<1>1. Init => TypeOK /\ StackShape
  BY TypeInit
<1>2. TypeOK /\ StackShape /\ [Next]_vars => (TypeOK /\ StackShape)'
  BY TypeNext
<1> QED
  BY <1>1, <1>2, PTL DEF Spec

-----------------------------------------------------------------------------
(***************************************************************************)
(* Soundness.                                                              *)
(***************************************************************************)

LEMMA SoundInit == Init => IInv
<1> SUFFICES ASSUME Init PROVE IInv
  OBVIOUS
<1>1. TypeOK /\ StackShape
  BY TypeInit
<1>2. Len(stack) = 0 /\ Len(args.crit) = 0 /\ Len(output) = 0
  BY DEF Init
<1>3. ChosenBefore(stack, Len(stack) + 1) = {}
  BY <1>2 DEF ChosenBefore
<1>4. MembersOK
  BY <1>3 DEF Init, MembersOK, Uncovered
<1>5. CallOK
  BY <1>2 DEF Init, CallOK, CritExact
<1> QED
  BY <1>1, <1>2, <1>4, <1>5 DEF IInv, ActivationsOK, OutputsMinimal

LEMMA SoundNext ==
  IInv /\ [Next]_vars =>
    (ActivationsOK /\ MembersOK /\ CallOK /\ OutputsMinimal)'
<1> SUFFICES ASSUME IInv, [Next]_vars
             PROVE  (ActivationsOK /\ MembersOK /\ CallOK /\ OutputsMinimal)'
  OBVIOUS
<1> USE DEF given
<1> DEFINE d == Len(stack)
           hg == hyper_graph
           before == ChosenBefore(stack, d)
<1>1. /\ TypeOK /\ StackShape /\ ActivationsOK /\ MembersOK /\ CallOK
      /\ OutputsMinimal
  BY DEF IInv
<1>2. TypeOK' /\ StackShape'
  BY <1>1, TypeNext
<1>3. stack \in Seq(Frames) /\ d \in Nat
  BY <1>1 DEF TypeOK
<1>4. stack # <<>> =>
        /\ d \in 1 .. d /\ d \in Nat \ {0} /\ active \in Frames
        /\ active = stack[d]
  BY <1>3, TopProperties DEF active
<1>5. /\ NoVertex \notin Vertices(hg)
      /\ Vertices(hg) \subseteq Nat
  BY <1>1, HyperGraphProperties DEF TypeOK
<1>6. ASSUME NEW n \in 0 .. d, \A i \in 1 .. n : stack'[i] = stack[i]
      PROVE  /\ \A i \in 1 .. n : Fresh(stack', i) /\ Exact(hg, stack', i)
             /\ \A i \in 1 .. n + 1 : ChosenBefore(stack', i) = ChosenBefore(stack, i)
  <2>1. ASSUME NEW i \in 1 .. n
        PROVE  Fresh(stack', i) /\ Exact(hg, stack', i)
    <3>1. i \in Nat \ {0} /\ i \in 1 .. d
      BY <1>3
    <3>2. \A j \in 1 .. i : stack'[j] = stack[j]
      BY <1>6
    <3>3. Fresh(stack, i) /\ Exact(hg, stack, i)
      BY <1>1, <3>1 DEF ActivationsOK
    <3> QED
      BY <3>1, <3>2, <3>3, ActivationUnchanged
  <2>2. ASSUME NEW i \in 1 .. n + 1
        PROVE  ChosenBefore(stack', i) = ChosenBefore(stack, i)
    <3>1. \A j \in 1 .. i - 1 : stack'[j].v = stack[j].v
      BY <1>3, <1>6
    <3> QED
      BY <3>1, ChosenUnchanged
  <2> QED
    BY <2>1, <2>2
<1>7. ASSUME stack # <<>>, NEW f \in Frames, stack' = WithTop(stack, f)
      PROVE  /\ stack' \in Seq(Frames) /\ Len(stack') = d /\ stack'[d] = f
             /\ \A i \in 1 .. d - 1 : stack'[i] = stack[i]
             /\ \A i \in 1 .. d - 1 : Fresh(stack', i) /\ Exact(hg, stack', i)
             /\ \A i \in 1 .. d : ChosenBefore(stack', i) = ChosenBefore(stack, i)
             /\ ChosenBefore(stack', d + 1) =
                  IF f.v = NoVertex THEN before ELSE before \cup {f.v}
  <2>1. /\ stack' \in Seq(Frames) /\ Len(stack') = d /\ stack'[d] = f
        /\ \A i \in 1 .. d - 1 : stack'[i] = stack[i]
    <3>1. /\ WithTop(stack, f) \in Seq(Frames)
          /\ Len(WithTop(stack, f)) = Len(stack)
          /\ WithTop(stack, f)[Len(stack)] = f
          /\ \A i \in 1 .. Len(stack) - 1 : WithTop(stack, f)[i] = stack[i]
      <4>1. stack \in Seq(Frames)
        BY <1>3
      <4>2. stack # <<>>
        BY <1>7
      <4>3. f \in Frames
        OBVIOUS
      <4> HIDE DEF d, hg, before
      <4> QED
        BY ONLY <4>1, <4>2, <4>3, WithTopProperties
    <3> QED
      BY <1>7, <3>1
  <2>2. d - 1 \in 0 .. d /\ (d - 1) + 1 = d /\ d \in 1 .. d
    BY <1>4, <1>7
  <2>3. /\ \A i \in 1 .. d - 1 : Fresh(stack', i) /\ Exact(hg, stack', i)
        /\ \A i \in 1 .. d : ChosenBefore(stack', i) = ChosenBefore(stack, i)
    BY <1>6, <2>1, <2>2
  <2>4. ChosenBefore(stack', d + 1) =
          IF f.v = NoVertex THEN ChosenBefore(stack', d)
                            ELSE ChosenBefore(stack', d) \cup {f.v}
    <3>1. d \in Nat \ {0}
      BY <1>4, <1>7
    <3>2. ChosenBefore(stack', d + 1) =
            IF stack'[d].v = NoVertex THEN ChosenBefore(stack', d)
                                      ELSE ChosenBefore(stack', d) \cup {stack'[d].v}
      BY <3>1, ChosenNext
    <3> QED
      BY <2>1, <3>2
  <2> QED
    BY <2>1, <2>2, <2>3, <2>4
<1>8. stack # <<>> =>
        /\ Fresh(stack, d) /\ Exact(hg, stack, d)
        /\ cur = IF active.v = NoVertex THEN before ELSE before \cup {active.v}
        /\ uncov = Uncovered(hg, cur)
  BY <1>1, <1>4, ChosenNext DEF ActivationsOK, MembersOK
<1>9. CASE Found
  <2>1. /\ uncov = {} /\ pc = "call" /\ output' = Append(output, cur)
        /\ hg' = hg /\ stack' = stack /\ cur' = cur /\ uncov' = uncov
        /\ pc' = "return"
    BY <1>9 DEF Found
  <2>2. ASSUME NEW u \in cur PROVE Critical(hg, cur, u) # {}
    <3>1. cur = ChosenBefore(stack, d + 1) /\ (d + 1) - 1 = d
      BY <1>1, <1>3 DEF MembersOK
    <3>2. PICK j \in 1 .. d : u = stack[j].v
      BY <2>2, <3>1 DEF ChosenBefore
    <3>3. /\ Len(args.crit) = d
          /\ args.crit[j] = Critical(hg, cur, u)
      BY <1>1, <2>1, <3>1, <3>2 DEF CallOK, CritExact
    <3> QED
      BY <1>1, <2>1, <3>3 DEF CallOK
  <2>3. IsMinimalHittingSet(hg, cur)
    BY <1>1, <2>1, <2>2, CriticalMinimal DEF TypeOK, MembersOK
  <2>4. OutputsMinimal'
    <3>1. /\ output \in Seq(SUBSET Vertices(hg))
          /\ cur \in SUBSET Vertices(hg)
      BY <1>1 DEF TypeOK
    <3>2. ASSUME NEW i \in 1 .. Len(output')
          PROVE  IsMinimalHittingSet(hg, output'[i])
      BY <1>1, <2>1, <2>3, <3>1 DEF OutputsMinimal
    <3> QED
      BY <2>1, <3>2 DEF OutputsMinimal
  <2> QED
    BY <1>1, <2>1, <2>4 DEF ActivationsOK, MembersOK, CallOK
<1>10. CASE Expand
  <2>1. PICK c \in SUBSET args.cand :
          stack' = Append(stack, [cand |-> args.cand \ c, todo |-> c,
                                  crit |-> args.crit,
                                  v |-> NoVertex, back |-> {}])
    <3>1. PICK choice \in GoodEdgesToCover(args.cand) :
            stack' = Append(stack,
              [cand |-> args.cand \ (args.cand \cap hg[choice.edge]),
               todo |-> args.cand \cap hg[choice.edge],
               crit |-> args.crit, v |-> NoVertex, back |-> {}])
      BY <1>10 DEF Expand
    <3> QED
      BY <3>1
  <2>2. /\ uncov # {} /\ pc = "call" /\ pc' = "loop" /\ hg' = hg
        /\ cur' = cur /\ uncov' = uncov /\ output' = output
    BY <1>10 DEF Expand
  <2> DEFINE f == [cand |-> args.cand \ c, todo |-> c, crit |-> args.crit,
                   v |-> NoVertex, back |-> {}]
  <2>3. f \in Frames
    BY <1>1 DEF TypeOK, Frames, Args
  <2>4. /\ f.cand = args.cand \ c /\ f.todo = c /\ f.crit = args.crit
        /\ f.v = NoVertex
    OBVIOUS
  <2> HIDE DEF f
  <2>5. /\ Len(stack') = d + 1
        /\ stack'[d + 1] = f /\ \A i \in 1 .. d : stack'[i] = stack[i]
    BY <1>3, <2>1, <2>3, PushProperties DEF f
  <2>6. /\ \A i \in 1 .. d : Fresh(stack', i) /\ Exact(hg, stack', i)
        /\ \A i \in 1 .. d + 1 : ChosenBefore(stack', i) = ChosenBefore(stack, i)
    BY <1>3, <1>6, <2>5
  <2>7. /\ d + 1 \in 1 .. d + 1 /\ d + 1 \in Nat \ {0}
        /\ cur = ChosenBefore(stack', d + 1) /\ cur = ChosenBefore(stack, d + 1)
    BY <1>1, <1>3, <2>6 DEF MembersOK
  <2>8. ChosenBefore(stack', (d + 1) + 1) = cur
    BY <2>4, <2>5, <2>7, ChosenNext
  <2>9. Fresh(stack', d + 1)
    <3>1. /\ args.cand \cap cur = {} /\ NoVertex \notin args.cand
          /\ NoVertex \notin cur
      BY <1>1, <1>5, <2>2 DEF CallOK, TypeOK, Args
    <3> QED
      BY <2>1, <2>4, <2>5, <2>7, <3>1 DEF Fresh
  <2>10. Exact(hg, stack', d + 1)
    <3>1. CritExact(hg, stack, d + 1, args.crit)
      BY <1>1, <2>2 DEF CallOK
    <3>2. CritExact(hg, stack', d + 1, args.crit)
      BY <1>3, <2>5, <2>7, <3>1 DEF CritExact
    <3>3. Uncovered(hg, cur) # {}
      BY <1>1, <2>2 DEF MembersOK
    <3> QED
      BY <2>4, <2>5, <2>7, <3>2, <3>3 DEF Exact
  <2>11. ActivationsOK'
    <3>1. \A i \in 1 .. d + 1 : i \in 1 .. d \/ i = d + 1
      BY <1>3
    <3> QED
      BY <2>2, <2>5, <2>6, <2>9, <2>10, <3>1 DEF ActivationsOK
  <2>12. MembersOK'
    BY <1>1, <2>2, <2>5, <2>8 DEF MembersOK
  <2> QED
    BY <1>1, <2>2, <2>11, <2>12 DEF CallOK, OutputsMinimal
<1>11. CASE SkipVertex
  <2>1. /\ stack # <<>> /\ pc = "loop" /\ pc' = "loop" /\ hg' = hg
        /\ cur' = cur /\ uncov' = uncov /\ output' = output
    BY <1>1, <1>11 DEF SkipVertex, StackShape
  <2>2. PICK v : stack' = WithTop(stack, [active EXCEPT !.todo = @ \ {v}])
    BY <1>11 DEF SkipVertex
  <2> DEFINE f == [active EXCEPT !.todo = @ \ {v}]
  <2>3. /\ f \in Frames /\ f.cand = active.cand /\ f.todo = active.todo \ {v}
        /\ f.crit = active.crit /\ f.v = active.v /\ f.back = active.back
    BY <1>4, <2>1 DEF Frames
  <2> HIDE DEF f
  <2>4. /\ Len(stack') = d /\ stack'[d] = f
        /\ \A i \in 1 .. d - 1 : stack'[i] = stack[i]
        /\ \A i \in 1 .. d - 1 : Fresh(stack', i) /\ Exact(hg, stack', i)
        /\ ChosenBefore(stack', d) = before
        /\ ChosenBefore(stack', d + 1) = cur
    BY <1>4, <1>7, <1>8, <2>1, <2>2, <2>3 DEF f
  <2>5. Fresh(stack', d)
    BY <1>4, <1>8, <2>1, <2>3, <2>4 DEF Fresh
  <2>6. Exact(hg, stack', d)
    BY <1>4, <1>8, <2>1, <2>3, <2>4 DEF Exact, CritExact
  <2>7. ActivationsOK'
    <3>1. \A i \in 1 .. d : i \in 1 .. d - 1 \/ i = d
      BY <1>3
    <3> QED
      BY <2>1, <2>4, <2>5, <2>6, <3>1 DEF ActivationsOK
  <2> QED
    BY <1>1, <2>1, <2>4, <2>7 DEF MembersOK, CallOK, OutputsMinimal
<1>12. CASE Descend
  <2> DEFINE v == Least(active.todo)
             f == [active EXCEPT !.todo = @ \ {v}, !.v = v,
                                 !.back = NewCrit(hg, uncov, v)]
             clone == UpdatedCrit(hg, active.crit, uncov, v)
  <2>1. /\ stack # <<>> /\ pc = "loop" /\ pc' = "call" /\ hg' = hg
        /\ output' = output /\ active.todo # {}
        /\ ~VertexWouldViolate(hg, active.crit, v)
        /\ cur' = Flip(cur, v)
        /\ uncov' = UpdatedUncov(hg, uncov, v)
        /\ args' = [cand |-> active.cand, crit |-> clone]
        /\ stack' = WithTop(stack, f)
    BY <1>1, <1>12 DEF Descend, StackShape
  <2>2. v \in active.todo /\ v \in Vertices(hg) /\ v # NoVertex
    <3>1. active.todo \in SUBSET Nat /\ active.todo \subseteq Vertices(hg)
      BY <1>4, <1>5, <2>1 DEF Frames
    <3> QED
      BY <1>5, <2>1, <3>1, LeastProperties
  <2> HIDE DEF v
  <2>3. NewCrit(hg, uncov, v) \in SUBSET EdgeIds(hg)
    BY <1>1 DEF NewCrit, TypeOK
  <2>4. /\ f \in Frames /\ f.cand = active.cand /\ f.todo = active.todo \ {v}
        /\ f.crit = active.crit /\ f.v = v /\ f.back = NewCrit(hg, uncov, v)
    BY <1>4, <2>1, <2>2, <2>3 DEF Frames
  <2> HIDE DEF f, clone
  <2>5. active.v = NoVertex /\ cur = before /\ uncov = Uncovered(hg, before)
    BY <1>1, <1>4, <1>8, <2>1 DEF StackShape
  <2>6. /\ Len(stack') = d /\ stack'[d] = f
        /\ \A i \in 1 .. d - 1 : stack'[i] = stack[i]
        /\ \A i \in 1 .. d - 1 : Fresh(stack', i) /\ Exact(hg, stack', i)
        /\ ChosenBefore(stack', d) = before
        /\ ChosenBefore(stack', d + 1) = before \cup {v}
    BY <1>4, <1>7, <2>1, <2>2, <2>4
  <2>7. v \notin before /\ v \notin active.cand
    BY <1>4, <1>8, <2>1, <2>2 DEF Fresh
  <2>8. Fresh(stack', d)
    BY <1>4, <1>8, <2>1, <2>4, <2>6, <2>7 DEF Fresh
  <2>9. Exact(hg, stack', d)
    BY <1>4, <1>8, <2>1, <2>4, <2>5, <2>6 DEF Exact, CritExact
  <2>10. ActivationsOK'
    <3>1. \A i \in 1 .. d : i \in 1 .. d - 1 \/ i = d
      BY <1>3
    <3> QED
      BY <2>1, <2>6, <2>8, <2>9, <3>1 DEF ActivationsOK
  <2>11. /\ cur' = before \cup {v} /\ uncov' = Uncovered(hg, before \cup {v})
    BY <2>1, <2>5, <2>7, UncoveredUpdated DEF Flip
  <2>12. MembersOK'
    BY <2>1, <2>6, <2>11 DEF MembersOK
  <2>13. /\ Len(active.crit) = d - 1
         /\ \A j \in 1 .. d - 1 :
              active.crit[j] = Critical(hg, before, stack[j].v)
         /\ Uncovered(hg, before) # {}
    BY <1>4, <1>8, <2>1 DEF Exact, CritExact
  <2>14. /\ clone \in Seq(SUBSET EdgeIds(hg)) /\ Len(clone) = d
         /\ clone[d] = NewCrit(hg, uncov, v)
         /\ \A j \in 1 .. d - 1 : clone[j] = active.crit[j] \ VertexHitting(hg, v)
    <3>1. active.crit \in Seq(SUBSET EdgeIds(hg)) /\ uncov \in SUBSET EdgeIds(hg)
      BY <1>1, <1>4, <2>1 DEF TypeOK, Frames, Crits
    <3> DEFINE n == Len(active.crit)
    <3>2. n + 1 = d /\ n = d - 1
      BY <1>3, <2>13
    <3> HIDE DEF n
    <3>3. /\ clone \in Seq(SUBSET EdgeIds(hg)) /\ Len(clone) = n + 1
          /\ clone[n + 1] = NewCrit(hg, uncov, v)
          /\ \A j \in 1 .. n : clone[j] = active.crit[j] \ VertexHitting(hg, v)
      <4> HIDE DEF hg, before, d
      <4>1. active.crit \in Seq(SUBSET EdgeIds(hg))
        BY <3>1
      <4>2. uncov \in SUBSET EdgeIds(hg)
        BY <3>1
      <4>3. PICK c \in Seq(SUBSET EdgeIds(hg)), u \in SUBSET EdgeIds(hg) :
              c = active.crit /\ u = uncov
        BY <4>1, <4>2
      <4>4. /\ UpdatedCrit(hg, c, u, v) \in Seq(SUBSET EdgeIds(hg))
            /\ Len(UpdatedCrit(hg, c, u, v)) = Len(c) + 1
            /\ UpdatedCrit(hg, c, u, v)[Len(c) + 1] = NewCrit(hg, u, v)
            /\ \A i \in 1 .. Len(c) :
                 UpdatedCrit(hg, c, u, v)[i] = c[i] \ VertexHitting(hg, v)
        BY ONLY UpdatedCritProperties
      <4> QED
        BY ONLY <4>3, <4>4 DEF clone, n
    <3> QED
      BY <3>2, <3>3
  <2>15. CritExact(hg, stack', d + 1, clone)
    <3>1. ASSUME NEW j \in 1 .. d - 1
          PROVE  clone[j] = Critical(hg, before \cup {v}, stack'[j].v)
      <4>1. stack[j].v # NoVertex /\ stack'[j].v = stack[j].v
        BY <1>1, <1>3, <2>6 DEF StackShape
      <4>2. stack[j].v \in before
        BY <4>1 DEF ChosenBefore
      <4>3. Critical(hg, before, stack[j].v) \ VertexHitting(hg, v)
              = Critical(hg, before \cup {v}, stack[j].v)
        <5> HIDE DEF before
        <5> QED
          BY <2>7, <4>2, CriticalUpdated
      <4> QED
        BY <2>13, <2>14, <4>1, <4>3
    <3>2. clone[d] = Critical(hg, before \cup {v}, stack'[d].v)
      BY <2>4, <2>5, <2>6, <2>7, <2>14, CriticalNew
    <3>3. (d + 1) - 1 = d /\ \A j \in 1 .. d : j \in 1 .. d - 1 \/ j = d
      BY <1>3
    <3> QED
      BY <2>6, <2>14, <3>1, <3>2, <3>3 DEF CritExact
  <2>16. ASSUME uncov' = {}, NEW j \in 1 .. d PROVE clone[j] # {}
    <3>1. CASE j = d
      <4>1. uncov \ VertexHitting(hg, v) = {} /\ uncov # {}
        BY <2>1, <2>5, <2>13, <2>16 DEF UpdatedUncov
      <4> QED
        BY <2>14, <3>1, <4>1 DEF NewCrit
    <3>2. CASE j # d
      <4>1. j \in 1 .. Len(active.crit) /\ j \in 1 .. d - 1
        BY <1>3, <2>13, <3>2
      <4> QED
        BY <2>1, <2>14, <4>1 DEF VertexWouldViolate
    <3> QED
      BY <3>1, <3>2
  <2>17. CallOK'
    <3>1. args'.cand = active.cand /\ args'.crit = clone
      BY <2>1
    <3>2. args'.cand \cap cur' = {}
      BY <1>4, <1>8, <2>1, <2>7, <2>11, <3>1 DEF Fresh
    <3> QED
      BY <2>1, <2>6, <2>14, <2>15, <2>16, <3>1, <3>2 DEF CallOK
  <2> QED
    BY <1>1, <2>1, <2>10, <2>12, <2>17 DEF OutputsMinimal
<1>13. CASE Return
  <2> DEFINE f == [active EXCEPT !.cand = @ \cup {active.v},
                                 !.v = NoVertex, !.back = {}]
  <2>1. /\ stack # <<>> /\ pc = "return" /\ pc' = "loop" /\ hg' = hg
        /\ output' = output
        /\ cur' = Flip(cur, active.v)
        /\ uncov' = uncov \cup active.back
        /\ stack' = WithTop(stack, f)
    BY <1>13 DEF Return
  <2>2. active.v # NoVertex /\ active.v \in Vertices(hg)
    BY <1>1, <1>4, <2>1 DEF StackShape, Frames
  <2>3. /\ f \in Frames /\ f.cand = active.cand \cup {active.v}
        /\ f.todo = active.todo /\ f.crit = active.crit /\ f.v = NoVertex
    BY <1>4, <2>1, <2>2 DEF Frames
  <2> HIDE DEF f
  <2>4. /\ cur = before \cup {active.v}
        /\ uncov = Uncovered(hg, before \cup {active.v})
        /\ active.back = NewCrit(hg, Uncovered(hg, before), active.v)
        /\ active.v \notin before /\ active.v \notin active.todo
    BY <1>4, <1>8, <2>1, <2>2 DEF Fresh, Exact
  <2>5. /\ Len(stack') = d /\ stack'[d] = f
        /\ \A i \in 1 .. d - 1 : stack'[i] = stack[i]
        /\ \A i \in 1 .. d - 1 : Fresh(stack', i) /\ Exact(hg, stack', i)
        /\ ChosenBefore(stack', d) = before
        /\ ChosenBefore(stack', d + 1) = before
    BY <1>4, <1>7, <2>1, <2>3
  <2>6. Fresh(stack', d)
    <3>1. /\ NoVertex \notin f.cand /\ NoVertex \notin f.todo
          /\ NoVertex \notin before
      BY <1>5, <2>3 DEF Frames, ChosenBefore
    <3> QED
      BY <1>4, <1>8, <2>1, <2>3, <2>4, <2>5, <3>1 DEF Fresh
  <2>7. Exact(hg, stack', d)
    BY <1>4, <1>8, <2>1, <2>3, <2>5 DEF Exact, CritExact
  <2>8. ActivationsOK'
    <3>1. \A i \in 1 .. d : i \in 1 .. d - 1 \/ i = d
      BY <1>3
    <3> QED
      BY <2>1, <2>5, <2>6, <2>7, <3>1 DEF ActivationsOK
  <2>9. cur' = before
    BY <2>1, <2>4 DEF Flip
  <2>10. uncov' = Uncovered(hg, before)
    BY <2>1, <2>4, UncoveredRestored
  <2> QED
    BY <1>1, <2>1, <2>5, <2>8, <2>9, <2>10
       DEF MembersOK, CallOK, OutputsMinimal
<1>14. CASE Leave
  <2>1. /\ stack # <<>> /\ pc = "loop" /\ pc' = "return" /\ hg' = hg
        /\ cur' = cur /\ uncov' = uncov /\ output' = output
        /\ stack' = Popped(stack)
    BY <1>1, <1>14 DEF Leave, StackShape
  <2>2. /\ Len(stack') = d - 1
        /\ \A i \in 1 .. d - 1 : stack'[i] = stack[i]
    BY <1>3, <2>1, PoppedProperties
  <2>3. d - 1 \in 0 .. d /\ (d - 1) + 1 = d /\ d \in 1 .. d
    BY <1>4, <2>1
  <2>4. /\ \A i \in 1 .. d - 1 : Fresh(stack', i) /\ Exact(hg, stack', i)
        /\ ChosenBefore(stack', d) = before
    BY <1>6, <2>2, <2>3
  <2>5. cur = before
    BY <1>1, <1>4, <1>8, <2>1 DEF StackShape
  <2> QED
    BY <1>1, <2>1, <2>2, <2>3, <2>4, <2>5
       DEF ActivationsOK, MembersOK, CallOK, OutputsMinimal
<1>15. CASE Finish
  BY <1>1, <1>15
     DEF Finish, ActivationsOK, MembersOK, CallOK, OutputsMinimal
<1>16. CASE UNCHANGED vars
  BY <1>1, <1>16
     DEF vars, ActivationsOK, MembersOK, CallOK, OutputsMinimal
<1> QED
  BY <1>9, <1>10, <1>11, <1>12, <1>13, <1>14, <1>15, <1>16
     DEF Next, Terminated

\* IInv is inductive.
THEOREM Inductive == Spec => []IInv
<1>1. Init => IInv
  BY SoundInit
<1>2. IInv /\ [Next]_vars => IInv'
  BY TypeNext, SoundNext DEF IInv
<1> QED
  BY <1>1, <1>2, PTL DEF Spec

\* The members and every activation's crit are exact in every state: undoing
\* a choice restores what it changed, at any depth of the recursion.
THEOREM BookkeepingExact == Spec => []Bookkeeping
<1>1. IInv => Bookkeeping
  BY DEF IInv, MembersOK, CallOK, ActivationsOK, Exact, Bookkeeping
<1> QED
  BY <1>1, Inductive, PTL

\* Whatever the hypergraph, the method and the edges chosen, everything
\* pushed to the output queue is a minimal hitting set.
THEOREM Sound == Spec => []OutputsMinimal
<1>1. IInv => OutputsMinimal
  BY DEF IInv
<1> QED
  BY <1>1, Inductive, PTL

-----------------------------------------------------------------------------
(***************************************************************************)
(* Completeness: what the activations have ahead.  No set is tried twice,  *)
(* so nothing is pushed twice, and with a method that always finds an      *)
(* uncovered edge no minimal cover is lost.                                *)
(***************************************************************************)
Emitted == Elements(output)

\* The sets that the call about to be entered tries.
Calls == IF pc = "call" THEN Within(cur, args.cand) ELSE {}

FramesOK == \A i \in 1 .. Len(stack) : FrameOK(hyper_graph, cur, stack, i)

SearchOK ==
  /\ NoOverlap(cur, stack, Calls)
  /\ Whole(cur, stack, Calls) \cap Emitted = {}
  /\ NoneTwice(output)

SearchInv == IInv /\ FramesOK /\ SearchOK

\* No minimal cover is lost: it has been pushed, or is still ahead.
NothingMissed ==
  MinimalCovers(hyper_graph, 0) \subseteq Emitted \cup Whole(cur, stack, Calls)

Findable == method # "PRIORITY"

LEMMA StateProperties ==
  ASSUME IInv
  PROVE  /\ stack \in Seq(Frames) /\ Len(stack) \in Nat
         /\ IsFiniteSet(EdgeIds(hyper_graph))
         /\ NoVertex \notin cur
         /\ cur \in SUBSET Vertices(hyper_graph)
         /\ uncov = Uncovered(hyper_graph, cur)
         /\ stack # <<>> =>
              /\ Len(stack) \in Nat \ {0} /\ Len(stack) \in 1 .. Len(stack)
              /\ active = stack[Len(stack)] /\ active \in Frames
              /\ active.todo # {} =>
                   Least(active.todo) \in active.todo /\ Least(active.todo) # NoVertex
<1>1. stack \in Seq(Frames) /\ cur \subseteq Vertices(hyper_graph)
      /\ hyper_graph \in HyperGraphs
  BY DEF IInv, TypeOK
<1>2. /\ Vertices(hyper_graph) \subseteq Nat /\ NoVertex \notin Vertices(hyper_graph)
      /\ IsFiniteSet(EdgeIds(hyper_graph))
  BY <1>1, HyperGraphsAssumption, IsHyperGraphProperties
<1>3. stack # <<>> =>
        /\ Len(stack) \in Nat \ {0} /\ Len(stack) \in 1 .. Len(stack)
        /\ active = stack[Len(stack)] /\ active \in Frames
  BY <1>1, TopProperties DEF active
<1>4. ASSUME stack # <<>>, active.todo # {}
      PROVE  Least(active.todo) \in active.todo /\ Least(active.todo) # NoVertex
  <2>1. active.todo \in SUBSET Nat /\ active.todo \subseteq Vertices(hyper_graph)
    BY <1>2, <1>3, <1>4 DEF Frames
  <2> QED
    BY <1>2, <1>4, <2>1, LeastProperties
<1> QED
  BY <1>1, <1>2, <1>3, <1>4 DEF IInv, MembersOK

\* A step that pushes nothing splits what is left to try.
LEMMA SteppedSearch ==
  ASSUME SearchInv, UNCHANGED <<given, output>>, NEW lost,
         Stepped(hyper_graph, cur, stack, Calls, cur', stack', Calls', lost)
  PROVE  /\ FramesOK' /\ SearchOK'
         /\ MinimalCovers(hyper_graph, 0) \cap lost = {}
              => (NothingMissed => NothingMissed')
<1>1. /\ NoOverlap(cur', stack', Calls')
      /\ Whole(cur', stack', Calls') \subseteq Whole(cur, stack, Calls)
      /\ Whole(cur, stack, Calls) \subseteq Whole(cur', stack', Calls') \cup lost
  BY DEF SearchInv, SearchOK, Stepped, Narrowed
<1>2. /\ Emitted' = Emitted /\ hyper_graph' = hyper_graph
      /\ MinimalCovers(hyper_graph, 0)' = MinimalCovers(hyper_graph, 0)
  BY DEF given, Emitted, MinimalCovers, IsApproximateCover, Uncovered, EdgeNum,
         EdgeIds, Vertices
<1>3. FramesOK'
  BY <1>2 DEF Stepped, FramesOK
<1>4. SearchOK'
  BY <1>1, <1>2 DEF SearchInv, SearchOK
<1>5. MinimalCovers(hyper_graph, 0) \cap lost = {} => (NothingMissed => NothingMissed')
  BY <1>1, <1>2 DEF NothingMissed
<1> QED
  BY <1>3, <1>4, <1>5

LEMMA FoundSearch ==
  ASSUME SearchInv, Found
  PROVE  /\ FramesOK' /\ SearchOK' /\ (NothingMissed => NothingMissed')
         /\ cur \notin Emitted /\ cur \in MinimalCovers(hyper_graph, 0)'
<1> DEFINE g == hyper_graph
           calls == Within(cur, args.cand)
<1>1. /\ pc = "call" /\ pc' = "return" /\ uncov = {}
      /\ hyper_graph' = g /\ cur' = cur /\ stack' = stack
      /\ output' = Append(output, cur)
  BY DEF Found, given
<1>2. FramesOK' /\ Calls' = {} /\ Calls = calls
  BY <1>1 DEF SearchInv, FramesOK, Calls
<1>3. /\ NoOverlap(cur, stack, calls) /\ Whole(cur, stack, calls) \cap Emitted = {}
      /\ NoneTwice(output)
  BY <1>2 DEF SearchInv, SearchOK
<1>4. cur \in calls /\ IsFiniteSet(EdgeIds(g)) /\ Uncovered(g, cur) = {}
  BY <1>1, StateProperties DEF Within, SearchInv
<1>5. MinimalCovers(g, 0)' = MinimalCovers(g, 0)
  BY <1>1 DEF MinimalCovers, IsApproximateCover, Uncovered, EdgeNum, EdgeIds, Vertices
<1>6. MinimalCovers(g, 0) \cap calls \subseteq {cur}
  <2>1. IsApproximateCover(g, 0, cur) /\ 0 \in Nat
    BY <1>4, ExactCovers
  <2> HIDE DEF g
  <2> QED
    BY ONLY <1>4, <2>1, FoundWithin
<1> HIDE DEF calls, g
<1>7. /\ NoOverlap(cur, stack, {})
      /\ Whole(cur, stack, {}) \cap calls = {}
      /\ Whole(cur, stack, calls) = Whole(cur, stack, {}) \cup calls
  BY <1>3, CallDone
<1>8. Emitted' = Emitted \cup {cur} /\ (cur \notin Emitted => NoneTwice(output'))
  <2>1. output \in Seq(SUBSET Vertices(hyper_graph)) /\ cur \in SUBSET Vertices(hyper_graph)
    BY DEF SearchInv, IInv, TypeOK
  <2> QED
    BY <1>1, <1>3, <2>1, PushedOnce DEF Emitted
<1>9. cur \notin Emitted
  BY <1>3, <1>4, <1>7
<1>10. SearchOK'
  BY <1>1, <1>2, <1>3, <1>4, <1>7, <1>8, <1>9 DEF SearchOK
<1>11. NothingMissed => NothingMissed'
  BY <1>1, <1>2, <1>5, <1>6, <1>7, <1>8 DEF NothingMissed, g
<1>12. cur \in MinimalCovers(g, 0)
  <2>1. OutputsMinimal' /\ Len(output') = Len(output) + 1 /\ Len(output) \in Nat
        /\ output'[Len(output) + 1] = cur
    <3>1. [Next]_vars
      BY DEF Next
    <3>2. OutputsMinimal'
      BY <3>1, SoundNext DEF SearchInv
    <3> QED
      BY <1>1, <3>2 DEF SearchInv, IInv, TypeOK
  <2>2. IsMinimalHittingSet(g, cur)
    BY <1>1, <2>1 DEF OutputsMinimal, g
  <2> QED
    BY <1>4, <2>2, ExactCovers
<1> QED
  BY <1>2, <1>5, <1>9, <1>10, <1>11, <1>12 DEF g

\* A method other than PRIORITY always picks an edge which, without its
\* vertices, no candidate hits: for MAX, if no uncovered edge has candidates
\* then none has one, whichever edge next_edge_ names.
LEMMA EdgePicked ==
  ASSUME IInv, Findable, uncov # {}, NEW cand,
         NEW choice \in GoodEdgesToCover(cand)
  PROVE  \E e \in uncov :
           hyper_graph[e] \cap (cand \ (cand \cap hyper_graph[choice.edge])) = {}
<1>1. /\ uncov \subseteq EdgeIds(hyper_graph) /\ IsHyperGraph(hyper_graph)
      /\ method \in {"ORDER", "RANDOM", "MIN", "MAX"} /\ uncov \subseteq Nat
  BY MethodsAssumption, HyperGraphsAssumption, IsHyperGraphProperties
     DEF IInv, TypeOK, Findable
<1>2. CASE choice.edge \in uncov
  BY <1>2
<1>3. \A S \in SUBSET uncov : S # {} => Least(S) \in uncov
  BY <1>1, LeastProperties
<1>4. CASE choice = Choice(Least(uncov), Least(uncov)) \/ choice \in RandomChoices
  <2>1. CASE choice = Choice(Least(uncov), Least(uncov))
    <3>1. choice.edge = Least(uncov)
      BY <2>1 DEF Choice
    <3> QED
      BY <1>2, <1>3, <3>1
  <2>2. CASE choice \in RandomChoices
    <3>1. PICK e \in uncov : choice = Choice(e, Cardinality({x \in uncov : x < e}))
      BY <2>2 DEF RandomChoices
    <3>2. choice.edge = e
      BY <3>1 DEF Choice
    <3> QED
      BY <1>2, <3>2
  <2> QED
    BY <1>4, <2>1, <2>2
<1> DEFINE f == [x \in uncov |-> CandNum(cand, x)]
<1>5. f \in [uncov -> 0 .. MaxBit] /\ f \in [uncov -> Nat]
  <2>1. \A x \in uncov : CandNum(cand, x) \in 0 .. MaxBit /\ CandNum(cand, x) \in Nat
    <3> TAKE x \in uncov
    <3>1. CandNum(cand, x) \in 0 .. MaxBit
      BY <1>1, CandidateCount DEF CandNum
    <3> QED
      BY <3>1
  <2> QED
    BY <2>1
<1>6. CASE choice = ScanChoice(cand) /\ method = "MIN"
  <2>1. PICK x \in uncov : \A y \in uncov : f[x] <= f[y]
    <3> HIDE DEF f
    <3> QED
      BY <1>5, CheapestExists
  <2>2. x \in FewestCand(cand) /\ FewestCand(cand) \in SUBSET uncov
    BY <2>1 DEF FewestCand
  <2>3. choice.edge = Least(FewestCand(cand))
    BY <1>6, <2>2 DEF ScanChoice, Choice
  <2> QED
    BY <1>2, <1>3, <2>2, <2>3
<1>7. CASE choice = ScanChoice(cand) /\ method = "MAX" /\ MostCand(cand) # {}
  <2>1. MostCand(cand) \in SUBSET uncov
    BY DEF MostCand
  <2>2. choice.edge = Least(MostCand(cand))
    BY <1>7 DEF ScanChoice, Choice
  <2> QED
    BY <1>2, <1>3, <1>7, <2>1, <2>2
<1>8. CASE method = "MAX" /\ MostCand(cand) = {}
  <2>1. PICK x \in uncov : \A y \in uncov : f[x] >= f[y]
    <3>1. MaxBit \in Nat
      BY DEF MaxBit
    <3> HIDE DEF f
    <3> QED
      BY <1>5, <3>1, DearestExists
  <2>2. ~(CandNum(cand, x) > 0) /\ f[x] \in Nat /\ f[x] = CandNum(cand, x)
    BY <1>5, <1>8, <2>1 DEF MostCand
  <2>3. CandNum(cand, x) = 0
    BY <2>2
  <2>4. hyper_graph[x] \cap cand = {}
    BY <1>1, <2>3, CandidateCount DEF CandNum
  <2> QED
    BY <2>4
<1>9. CASE method = "RANDOM" \/ cur = {}
  BY <1>4, <1>9 DEF GoodEdgesToCover
<1> QED
  BY <1>1, <1>4, <1>6, <1>7, <1>8, <1>9 DEF GoodEdgesToCover

\* The crit of a call holds the critical edges of the vertices of cur.
LEMMA CallCritical ==
  ASSUME IInv, pc = "call"
  PROVE  HoldsCritical(hyper_graph, cur, args.crit)
<1> DEFINE d == Len(stack)
<1>1. d \in Nat /\ (d + 1) - 1 = d
  BY StateProperties
<1>2. \A j \in 1 .. d : stack[j].v # NoVertex
  BY DEF IInv, StackShape
<1>3. CritExact(hyper_graph, stack, d + 1, args.crit) /\ cur = ChosenBefore(stack, d + 1)
  BY DEF IInv, CallOK, MembersOK
<1>4. cur = {stack[j].v : j \in 1 .. d}
  BY <1>1, <1>2, <1>3 DEF ChosenBefore
<1>5. Len(args.crit) = d
      /\ \A j \in 1 .. d : args.crit[j] = Critical(hyper_graph, cur, stack[j].v)
  BY <1>1, <1>3 DEF CritExact
<1> DEFINE critical == {Critical(hyper_graph, cur, u) : u \in cur}
<1> HIDE DEF d
<1>6. \A j \in 1 .. d : args.crit[j] \in critical
  BY <1>4, <1>5
<1>7. \A u \in cur : \E j \in 1 .. d : args.crit[j] = Critical(hyper_graph, cur, u)
  BY <1>4, <1>5
<1>8. {args.crit[j] : j \in 1 .. d} = critical
  BY <1>6, <1>7
<1> QED
  BY <1>5, <1>8 DEF HoldsCritical

\* What the call was to try is what its loop tries, but for the sets without
\* a vertex of the edge picked: none of them hits every edge.
LEMMA ExpandSearch ==
  ASSUME SearchInv, Expand
  PROVE  /\ FramesOK' /\ SearchOK'
         /\ Findable => (NothingMissed => NothingMissed')
<1> DEFINE g == hyper_graph
           s == stack
<1>1. PICK choice \in GoodEdgesToCover(args.cand) :
        LET c == args.cand \cap hyper_graph[choice.edge]
        IN stack' = Append(stack, [cand |-> args.cand \ c, todo |-> c,
                                   crit |-> args.crit, v |-> NoVertex, back |-> {}])
  BY DEF Expand
<1> DEFINE c == args.cand \cap hyper_graph[choice.edge]
           rest == args.cand \ c
           f == [cand |-> rest, todo |-> c, crit |-> args.crit,
                 v |-> NoVertex, back |-> {}]
           t == Append(s, f)
           calls == Within(cur, args.cand)
           lost == Within(cur, rest) \ {}
<1>2. /\ pc = "call" /\ pc' = "loop" /\ uncov # {} /\ stack' = t /\ cur' = cur
      /\ UNCHANGED <<given, output>> /\ IInv
  BY <1>1 DEF Expand, SearchInv
<1>3. /\ s \in Seq(Frames) /\ NoVertex \notin cur /\ IsFiniteSet(EdgeIds(g))
      /\ uncov = Uncovered(g, cur)
  BY <1>2, StateProperties
<1>4. f \in Frames
  <2>1. rest \subseteq Vertices(g) /\ c \subseteq Vertices(g) /\ args.crit \in Crits
    BY <1>2 DEF IInv, TypeOK, Args
  <2> HIDE DEF rest, c
  <2> QED
    BY <2>1 DEF Frames
<1>5. /\ f.cand = args.cand \ c /\ f.todo = c /\ f.crit = args.crit
      /\ f.v = NoVertex /\ f.back = {}
      /\ c \in SUBSET args.cand /\ rest = args.cand \ c
  OBVIOUS
<1>6. args.cand \cap cur = {} /\ HoldsCritical(g, cur, args.crit)
  BY <1>2, CallCritical DEF IInv, CallOK
<1>7. \A i \in 1 .. Len(s) : FrameOK(g, cur, s, i)
  BY DEF SearchInv, FramesOK
<1>8. ASSUME Findable PROVE MinimalCovers(g, 0) \cap lost = {}
  <2>1. PICK e \in uncov : g[e] \cap rest = {}
    BY <1>2, <1>8, EdgePicked
  <2>2. ASSUME NEW S \in MinimalCovers(g, 0), S \in Within(cur, rest)
        PROVE  FALSE
    <3>1. e \in Uncovered(g, S)
      BY <1>3, <2>1, <2>2 DEF Uncovered, Within
    <3>2. Uncovered(g, S) = {}
      BY <1>3, <2>2, ExactCovers DEF MinimalCovers
    <3> QED
      BY <3>1, <3>2
  <2> QED
    BY <2>2
<1> HIDE DEF f, c, rest, calls
<1>9. Stepped(g, cur, s, calls, cur, t, {}, lost)
  <2>1. PICK F, x, crit, cand, y, b, w, h, k2 :
          /\ x = s /\ x \in Seq(F) /\ crit = args.crit /\ cand = args.cand
          /\ y = f /\ y \in F /\ b = cur /\ w = c /\ h = g /\ k2 = {}
    BY <1>3, <1>4
  <2>2. /\ NoVertex \notin b /\ cand \cap b = {} /\ HoldsCritical(h, b, crit)
        /\ w \in SUBSET cand
        /\ y.cand = cand \ w /\ y.todo = w /\ y.crit = crit
        /\ y.v = NoVertex /\ y.back = {}
        /\ \A i \in 1 .. Len(x) : FrameOK(h, b, x, i)
    BY <1>3, <1>5, <1>6, <1>7, <2>1
  <2>3. x \in Seq(F) /\ y \in F /\ k2 \in SUBSET Within(b, cand \ w)
    BY <2>1
  <2>4. Stepped(h, b, x, Within(b, cand), b, Append(x, y), k2,
                Within(b, cand \ w) \ k2)
    BY ONLY <2>2, <2>3, PushStep
  <2> QED
    BY <1>5, <2>1, <2>4 DEF calls
<1>10. Calls = calls /\ Calls' = {}
  BY <1>2 DEF Calls, calls
<1> HIDE DEF lost
<1>11. Stepped(hyper_graph, cur, stack, Calls, cur', stack', Calls', lost)
  BY ONLY <1>2, <1>9, <1>10 DEF g, s
<1> QED
  BY ONLY SearchInv, <1>2, <1>8, <1>11, SteppedSearch DEF g

\* A vertex that would violate is passed over: what is lost with it are no
\* minimal hitting sets.
LEMMA SkipVertexSearch ==
  ASSUME SearchInv, SkipVertex
  PROVE  FramesOK' /\ SearchOK' /\ (NothingMissed => NothingMissed')
<1> DEFINE g == hyper_graph
           s == stack
           a == active
           v == Least(a.todo)
           R == a.todo \ {v}
           f == [a EXCEPT !.todo = @ \ {v}]
           t == WithTop(s, f)
           lost == Passed(cur, s, a.todo \ R)
<1>1. /\ pc = "loop" /\ pc' = "loop" /\ a.todo # {} /\ IInv
      /\ VertexWouldViolate(g, a.crit, v) /\ stack' = t /\ cur' = cur
      /\ UNCHANGED <<given, output>>
  BY DEF SkipVertex, SearchInv
<1>2. s # <<>>
  BY <1>1 DEF IInv, StackShape
<1>3. /\ Len(s) \in 1 .. Len(s) /\ a = s[Len(s)] /\ a \in Frames /\ v \in a.todo
      /\ s \in Seq(Frames) /\ NoVertex \notin cur
  BY <1>1, <1>2, StateProperties
<1>4. a.v = NoVertex /\ \A i \in 1 .. Len(s) : FrameOK(g, cur, s, i)
  BY <1>1, <1>3 DEF SearchInv, FramesOK, IInv, StackShape
<1>5. a.back = {}
  BY <1>3, <1>4 DEF FrameOK
<1>6. /\ f \in Frames /\ f.cand = a.cand /\ f.todo = R /\ f.crit = a.crit
      /\ f.v = NoVertex /\ f.back = {}
  <2> HIDE DEF a, v
  <2> QED
    BY <1>3, <1>4, <1>5 DEF Frames
<1>7. R \in SUBSET a.todo /\ a.todo \ R \in SUBSET a.todo
      /\ \A w \in a.todo \ R : VertexWouldViolate(g, a.crit, w)
  BY <1>1
<1> HIDE DEF R, f, v, a
<1>8. Stepped(g, cur, s, {}, cur, t, {}, lost)
  <2>1. PICK F, x, b, y, z, h, k :
          /\ x = s /\ F = Frames /\ b = cur /\ y = f /\ z = a /\ h = g /\ k = R
    OBVIOUS
  <2>2. /\ x \in Seq(F) /\ x # <<>> /\ NoVertex \notin b /\ z = x[Len(x)]
        /\ z.v = NoVertex /\ k \in SUBSET z.todo /\ y \in F
        /\ y.cand = z.cand /\ y.todo = k /\ y.crit = z.crit
        /\ y.v = NoVertex /\ y.back = {}
        /\ \A i \in 1 .. Len(x) : FrameOK(h, b, x, i)
    BY <1>2, <1>3, <1>4, <1>6, <1>7, <2>1
  <2>3. Stepped(h, b, x, {}, b, WithTop(x, y), {}, Passed(b, x, z.todo \ k))
    BY ONLY <2>2, SkipStep
  <2> QED
    BY <2>1, <2>3
<1>9. MinimalCovers(g, 0) \cap lost = {}
  <2>1. PICK F, x, b, z, h, W, th :
          /\ x = s /\ F = Frames /\ b = cur /\ z = a /\ h = g /\ W = a.todo \ R
          /\ th = 0
    OBVIOUS
  <2>2. /\ x \in Seq(F) /\ x # <<>> /\ NoVertex \notin b /\ z = x[Len(x)]
        /\ z.v = NoVertex /\ FrameOK(h, b, x, Len(x)) /\ W \in SUBSET z.todo
        /\ \A w \in W : VertexWouldViolate(h, z.crit, w)
    BY <1>2, <1>3, <1>4, <1>7, <2>1
  <2>3. MinimalCovers(h, th) \cap Passed(b, x, W) = {}
    BY ONLY <2>2, PassedNotMinimal
  <2> QED
    BY <2>1, <2>3
<1>10. Calls = {} /\ Calls' = {}
  BY <1>1 DEF Calls
<1> HIDE DEF lost, t
<1>11. Stepped(hyper_graph, cur, stack, Calls, cur', stack', Calls', lost)
  BY ONLY <1>1, <1>8, <1>10 DEF g, s
<1> QED
  BY ONLY SearchInv, <1>1, <1>9, <1>11, SteppedSearch DEF g

\* The call made for a vertex tries the sets that have it and none of the
\* vertices of todo left: the caller keeps the others.
LEMMA DescendSearch ==
  ASSUME SearchInv, Descend
  PROVE  FramesOK' /\ SearchOK' /\ (NothingMissed => NothingMissed')
<1> DEFINE g == hyper_graph
           s == stack
           d == Len(stack)
           a == active
           v == Least(a.todo)
           R == a.todo \ {v}
           back == NewCrit(g, uncov, v)
           crit2 == UpdatedCrit(g, a.crit, uncov, v)
           cur2 == cur \cup {v}
           f == [a EXCEPT !.todo = @ \ {v}, !.v = v, !.back = back]
           t == WithTop(s, f)
           calls2 == Within(cur2, a.cand)
<1>1. /\ pc = "loop" /\ pc' = "call" /\ a.todo # {} /\ stack' = t /\ IInv
      /\ cur' = Flip(cur, v) /\ args'.cand = a.cand
      /\ UNCHANGED <<given, output>>
  BY DEF Descend, SearchInv
<1>2. s # <<>>
  BY <1>1 DEF IInv, StackShape
<1>3. /\ d \in 1 .. d /\ a = s[d] /\ a \in Frames
      /\ v \in a.todo /\ v # NoVertex /\ s \in Seq(Frames)
      /\ NoVertex \notin cur /\ uncov = Uncovered(g, cur)
  BY <1>1, <1>2, StateProperties
<1>4. a.v = NoVertex /\ \A i \in 1 .. d : FrameOK(g, cur, s, i)
  BY <1>1, <1>3 DEF SearchInv, FramesOK, IInv, StackShape
<1>5. /\ f \in Frames /\ f.cand = a.cand /\ f.todo = R /\ f.crit = a.crit
      /\ f.v = v /\ f.back = back
  <2>1. back \subseteq EdgeIds(g) /\ v \in Vertices(g)
    BY <1>3 DEF NewCrit, Uncovered, Frames
  <2> HIDE DEF a, v, back, g
  <2> QED
    BY <1>3, <2>1 DEF Frames, g
<1>6. R \subseteq a.todo \ {v} /\ a.todo \ (R \cup {v}) = {}
      /\ a.crit \in Seq(SUBSET EdgeIds(g))
  BY <1>3 DEF Frames, Crits
<1> HIDE DEF R, f, v, a, back, d
<1>7. /\ v \notin cur
      /\ Stepped(g, cur, s, {}, cur2, t, calls2, {})
  <2>1. PICK F, x, b, y, z, h, w, b2, q, W :
          /\ x = s /\ F = Frames /\ b = cur /\ y = f /\ z = a /\ h = g
          /\ w = v /\ b2 = cur2 /\ q = crit2 /\ W = {}
    OBVIOUS
  <2>2. /\ x \in Seq(F) /\ x # <<>> /\ NoVertex \notin b /\ z = x[Len(x)]
        /\ y \in F /\ Chooses(h, b, z, w, y, b2, q, W)
        /\ \A i \in 1 .. Len(x) : FrameOK(h, b, x, i)
    BY <1>2, <1>3, <1>4, <1>5, <1>6, <2>1 DEF back, d, Chooses
  <2>3. /\ w \notin b
        /\ CallReady(h, b2, z.cand, q)
        /\ Stepped(h, b, x, {}, b2, WithTop(x, y), Within(b2, z.cand),
                   Passed(b, x, W))
    BY ONLY <2>2, ChooseStep
  <2>4. Passed(b, x, W) = {}
    BY <2>1 DEF Passed
  <2> QED
    BY <2>1, <2>3, <2>4
<1>8. cur' = cur2
  BY <1>1, <1>7 DEF Flip
<1>9. Calls = {} /\ Calls' = calls2
  BY <1>1, <1>8 DEF Calls
<1> HIDE DEF cur2, calls2, t
<1>10. Stepped(hyper_graph, cur, stack, Calls, cur', stack', Calls', {})
  BY ONLY <1>1, <1>7, <1>8, <1>9 DEF g, s
<1>11. MinimalCovers(hyper_graph, 0) \cap {} = {}
  OBVIOUS
<1> QED
  BY ONLY SearchInv, <1>1, <1>10, <1>11, SteppedSearch

\* The vertex chosen is taken back: nothing changes in what is ahead.
LEMMA ReturnSearch ==
  ASSUME SearchInv, Return
  PROVE  FramesOK' /\ SearchOK' /\ (NothingMissed => NothingMissed')
<1> DEFINE g == hyper_graph
           s == stack
           d == Len(stack)
           a == active
           cur2 == cur \ {a.v}
           f == [a EXCEPT !.cand = @ \cup {a.v}, !.v = NoVertex, !.back = {}]
           t == WithTop(s, f)
<1>1. /\ pc = "return" /\ pc' = "loop" /\ s # <<>> /\ IInv
      /\ stack' = t /\ cur' = Flip(cur, a.v) /\ UNCHANGED <<given, output>>
  BY DEF Return, SearchInv
<1>2. /\ d \in 1 .. d /\ a = s[d] /\ a \in Frames /\ s \in Seq(Frames)
      /\ NoVertex \notin cur
  BY <1>1, StateProperties
<1>3. a.v # NoVertex /\ \A i \in 1 .. d : FrameOK(g, cur, s, i)
  BY <1>1, <1>2 DEF SearchInv, FramesOK, IInv, StackShape
<1>4. /\ f \in Frames /\ f.cand = a.cand \cup {a.v} /\ f.todo = a.todo
      /\ f.crit = a.crit /\ f.v = NoVertex /\ f.back = {}
  <2>1. a.v \in Vertices(g)
    BY <1>2, <1>3 DEF Frames
  <2> HIDE DEF a, g
  <2> QED
    BY <1>2, <2>1 DEF Frames, g
<1> HIDE DEF f, a, d
<1>5. /\ Flip(cur, a.v) = cur2
      /\ Stepped(g, cur, s, {}, cur2, t, {}, {})
  <2>1. PICK F, x, b, y, z, h, b2 :
          /\ x = s /\ F = Frames /\ b = cur /\ y = f /\ z = a /\ h = g
          /\ b2 = cur2
    OBVIOUS
  <2>2. /\ x \in Seq(F) /\ x # <<>> /\ NoVertex \notin b /\ z = x[Len(x)]
        /\ z.v # NoVertex /\ y \in F
        /\ y.cand = z.cand \cup {z.v} /\ y.todo = z.todo /\ y.crit = z.crit
        /\ y.v = NoVertex /\ y.back = {} /\ b2 = b \ {z.v}
        /\ \A i \in 1 .. Len(x) : FrameOK(h, b, x, i)
    BY <1>1, <1>2, <1>3, <1>4, <2>1 DEF d
  <2>3. /\ TakenBack(h, b, z, b2)
        /\ Stepped(h, b, x, {}, b2, WithTop(x, y), {}, {})
    BY ONLY <2>2, TakeBackStep
  <2> QED
    BY <2>1, <2>3 DEF TakenBack
<1>6. Calls = {} /\ Calls' = {}
  BY <1>1 DEF Calls
<1> HIDE DEF cur2, t
<1>7. Stepped(hyper_graph, cur, stack, Calls, cur', stack', Calls', {})
  BY ONLY <1>1, <1>5, <1>6 DEF g, s
<1>8. MinimalCovers(hyper_graph, 0) \cap {} = {}
  OBVIOUS
<1> QED
  BY ONLY SearchInv, <1>1, <1>7, <1>8, SteppedSearch

\* The innermost activation has nothing more to try.
LEMMA LeaveSearch ==
  ASSUME SearchInv, Leave
  PROVE  FramesOK' /\ SearchOK' /\ (NothingMissed => NothingMissed')
<1> DEFINE g == hyper_graph
           s == stack
           a == active
           t == Popped(s)
<1>1. /\ pc = "loop" /\ pc' = "return" /\ a.todo = {} /\ stack' = t /\ IInv
      /\ cur' = cur /\ UNCHANGED <<given, output>>
  BY DEF Leave, SearchInv
<1>2. s # <<>>
  BY <1>1 DEF IInv, StackShape
<1>3. /\ Len(s) \in 1 .. Len(s) /\ a = s[Len(s)] /\ s \in Seq(Frames)
      /\ NoVertex \notin cur
  BY <1>1, <1>2, StateProperties
<1>4. a.v = NoVertex /\ \A i \in 1 .. Len(s) : FrameOK(g, cur, s, i)
  BY <1>1, <1>3 DEF SearchInv, FramesOK, IInv, StackShape
<1> HIDE DEF a
<1>5. Stepped(g, cur, s, {}, cur, t, {}, {})
  <2>1. PICK F, x, b, z, h :
          x = s /\ F = Frames /\ b = cur /\ z = a /\ h = g
    OBVIOUS
  <2>2. /\ x \in Seq(F) /\ x # <<>> /\ NoVertex \notin b /\ z = x[Len(x)]
        /\ z.v = NoVertex
        /\ \A i \in 1 .. Len(x) : FrameOK(h, b, x, i)
    BY <1>2, <1>3, <1>4, <2>1
  <2>3. Stepped(h, b, x, {}, b, Popped(x), {}, Passed(b, x, z.todo))
    BY ONLY <2>2, PopStep
  <2>4. Passed(b, x, z.todo) = {}
    BY <1>1, <2>1 DEF Passed
  <2> QED
    BY <2>1, <2>3, <2>4
<1>6. Calls = {} /\ Calls' = {}
  BY <1>1 DEF Calls
<1> HIDE DEF t
<1>7. Stepped(hyper_graph, cur, stack, Calls, cur', stack', Calls', {})
  BY ONLY <1>1, <1>5, <1>6 DEF g, s
<1>8. MinimalCovers(hyper_graph, 0) \cap {} = {}
  OBVIOUS
<1> QED
  BY ONLY SearchInv, <1>1, <1>7, <1>8, SteppedSearch

\* RunAll returns, or nothing happens.
LEMMA FinishSearch ==
  ASSUME SearchInv, Finish \/ UNCHANGED vars
  PROVE  FramesOK' /\ SearchOK' /\ (NothingMissed => NothingMissed')
<1>1. /\ UNCHANGED <<hyper_graph, cur, stack, output>> /\ Calls' = Calls
  BY DEF Finish, vars, given, Calls
<1>2. Emitted' = Emitted /\ MinimalCovers(hyper_graph, 0)' = MinimalCovers(hyper_graph, 0)
  BY <1>1 DEF Emitted, MinimalCovers, IsApproximateCover, Uncovered, EdgeNum,
              EdgeIds, Vertices
<1>3. FramesOK'
  BY <1>1 DEF SearchInv, FramesOK
<1>4. SearchOK'
  BY <1>1, <1>2 DEF SearchInv, SearchOK
<1>5. NothingMissed => NothingMissed'
  BY <1>1, <1>2 DEF NothingMissed
<1> QED
  BY <1>3, <1>4, <1>5

LEMMA SearchInit == Init => SearchInv /\ NothingMissed
<1> SUFFICES ASSUME Init PROVE SearchInv /\ NothingMissed
  OBVIOUS
<1>1. IInv
  BY SoundInit
<1>2. /\ pc = "call" /\ cur = {} /\ args.cand = Vertices(hyper_graph)
      /\ Len(stack) = 0 /\ Len(output) = 0
  BY DEF Init
<1>3. 1 .. Len(stack) = {} /\ 1 .. Len(output) = {} /\ Emitted = {}
  BY <1>2 DEF Emitted, Elements
<1>4. Whole(cur, stack, Calls) = SUBSET Vertices(hyper_graph)
  <2>1. Calls = SUBSET Vertices(hyper_graph)
    BY <1>2 DEF Calls, Within
  <2> QED
    BY <1>3, <2>1 DEF Whole
<1>5. FramesOK /\ SearchOK
  BY <1>3 DEF FramesOK, SearchOK, NoOverlap, NoneTwice
<1>6. NothingMissed
  BY <1>4 DEF NothingMissed, MinimalCovers
<1> QED
  BY <1>1, <1>5, <1>6 DEF SearchInv

LEMMA SearchNext ==
  SearchInv /\ [Next]_vars =>
    SearchInv' /\ (Findable /\ NothingMissed => NothingMissed')
<1> SUFFICES ASSUME SearchInv, [Next]_vars
             PROVE  SearchInv' /\ (Findable /\ NothingMissed => NothingMissed')
  OBVIOUS
<1>1. IInv'
  BY TypeNext, SoundNext DEF SearchInv, IInv
<1>2. CASE Found
  BY <1>1, <1>2, FoundSearch DEF SearchInv
<1>3. CASE Expand
  BY <1>1, <1>3, ExpandSearch DEF SearchInv
<1>4. CASE SkipVertex
  BY <1>1, <1>4, SkipVertexSearch DEF SearchInv
<1>5. CASE Descend
  BY <1>1, <1>5, DescendSearch DEF SearchInv
<1>6. CASE Return
  BY <1>1, <1>6, ReturnSearch DEF SearchInv
<1>7. CASE Leave
  BY <1>1, <1>7, LeaveSearch DEF SearchInv
<1>8. CASE Finish \/ UNCHANGED vars
  BY <1>1, <1>8, FinishSearch DEF SearchInv
<1> QED
  BY <1>2, <1>3, <1>4, <1>5, <1>6, <1>7, <1>8 DEF Next, Terminated

\* When the outermost call has returned nothing is left to try.
LEMMA AllEmitted ==
  ASSUME NothingMissed, pc \in {"return", "done"}, stack = <<>>
  PROVE  MinimalCovers(hyper_graph, 0) \subseteq Emitted
<1>1. Whole(cur, stack, Calls) = {}
  <2>1. Len(stack) = 0 /\ 1 .. Len(stack) = {} /\ Calls = {}
    BY DEF Calls
  <2> QED
    BY <2>1 DEF Whole
<1> QED
  BY <1>1 DEF NothingMissed

\* The regions that the activations have ahead do not overlap, and nothing
\* pushed lies in them, whatever the method.
THEOREM SearchInductive == Spec => []SearchInv
<1>1. Init => SearchInv
  BY SearchInit
<1>2. SearchInv /\ [Next]_vars => SearchInv'
  BY SearchNext
<1> QED
  BY <1>1, <1>2, PTL DEF Spec

\* No cover is pushed twice.
THEOREM PushedOnceOnly == Spec => []NoneTwice(output)
<1>1. SearchInv => NoneTwice(output)
  BY DEF SearchInv, SearchOK
<1> QED
  BY <1>1, SearchInductive, PTL

\* With every method but PRIORITY, RunAll has pushed every minimal hitting
\* set by the time it returns.
THEOREM CompleteUnlessPriority == Spec /\ Findable => []Complete
<1>1. Init => SearchInv /\ NothingMissed
  BY SearchInit
<1>2. SearchInv /\ [Next]_vars => SearchInv'
  BY SearchNext
<1>3. Findable /\ [Next]_vars => Findable'
  BY DEF Findable, Next, vars, given, Found, Expand, SkipVertex, Descend, Return,
         Leave, Finish, Terminated
<1>4. SearchInv /\ Findable /\ NothingMissed /\ [Next]_vars => NothingMissed'
  BY SearchNext
<1>5. SearchInv /\ NothingMissed => Complete
  <2> SUFFICES ASSUME SearchInv, NothingMissed, pc = "done"
               PROVE  MinimalCovers(hyper_graph, 0) \subseteq Emitted
    BY DEF Complete, Emitted, Elements
  <2>1. stack = <<>>
    BY DEF SearchInv, IInv, StackShape
  <2> QED
    BY <2>1, AllEmitted
<1> QED
  BY <1>1, <1>2, <1>3, <1>4, <1>5, PTL DEF Spec

-----------------------------------------------------------------------------
(***************************************************************************)
(* SubMMCS inherits what is proved of MMCS: a step of its search is one of *)
(* MMCS as long as it has not accepted enough, and pushes nothing after.   *)
(* The covers it accepts are pushed in turn, each far enough from the one  *)
(* before, and a search that is not stopped pushes all there are.          *)
(***************************************************************************)

\* The invariant of MMCS as far as it survives an early return: the members
\* and the call are as they should be unless there are enough covers.
SubInv ==
  TypeOK /\ StackShape /\ OutputsMinimal /\ (~Full => IInv)

\* A step of the search is one of MMCS, or an early return, which leaves the
\* members and the output alone.
LEMMA SubNextCases ==
  ASSUME [SubNext]_sub_vars
  PROVE  \/ [Next]_vars /\ ~Full
         \/ [Next]_vars /\ output' = output /\ Full /\ Full'
         \/ EnterFull /\ Full'
         \/ ReturnFull /\ Full'
<1>1. CASE EnterFull
  BY <1>1 DEF EnterFull, Full, Diverse
<1>2. CASE ReturnFull
  BY <1>2 DEF ReturnFull, Full, Diverse
<1>3. CASE FoundOrAccepted
  BY <1>3 DEF FoundOrAccepted, Next
<1>4. CASE AsInRunAll
  <2>1. [Next]_vars /\ request' = request /\ vc_list' = vc_list
    BY <1>4 DEF AsInRunAll, Next
  <2>2. output' = output
    BY <1>4 DEF AsInRunAll, Expand, SkipVertex, Descend, Return, Leave, Finish,
                Terminated, vars
  <2> QED
    BY <2>1, <2>2 DEF Full, Diverse
<1>5. CASE UNCHANGED sub_vars
  BY <1>5 DEF sub_vars, vars, Full, Diverse
<1> QED
  BY <1>1, <1>2, <1>3, <1>4, <1>5 DEF SubNext

\* An early return keeps the types, and every activation that is left still
\* has the vertex it chose.
LEMMA EarlyReturn ==
  ASSUME TypeOK, StackShape, EnterFull \/ ReturnFull
  PROVE  TypeOK' /\ StackShape' /\ output' = output
<1>1. CASE EnterFull
  <2>1. NoArgs \in Args'
    BY <1>1 DEF EnterFull, given, NoArgs, Args, Crits, TypeOK
  <2> QED
    BY <1>1, <2>1 DEF EnterFull, given, TypeOK, StackShape, Frames, Crits, Args
<1>2. CASE ReturnFull
  <2>1. /\ stack \in Seq(Frames) /\ Len(stack) \in Nat \ {0}
        /\ stack' = Popped(stack) /\ pc = "return" /\ pc' = pc
    BY <1>2 DEF ReturnFull, TypeOK
  <2>2. /\ stack' \in Seq(Frames) /\ Len(stack') = Len(stack) - 1
        /\ \A i \in 1 .. Len(stack) - 1 : stack'[i] = stack[i]
    BY <2>1, PoppedProperties
  <2>3. Frames' = Frames /\ Args' = Args
    BY <1>2 DEF ReturnFull, given, Frames, Args, Crits
  <2>4. TypeOK'
    BY <1>2, <2>2, <2>3 DEF ReturnFull, given, TypeOK
  <2>5. StackShape'
    BY <2>1, <2>2 DEF StackShape
  <2> QED
    BY <1>2, <2>4, <2>5 DEF ReturnFull
<1> QED
  BY <1>1, <1>2

LEMMA SubInvNext == SubInv /\ [SubNext]_sub_vars => SubInv'
<1> SUFFICES ASSUME SubInv, [SubNext]_sub_vars PROVE SubInv'
  OBVIOUS
<1>1. CASE [Next]_vars /\ ~Full
  <2>1. IInv'
    BY <1>1, TypeNext, SoundNext DEF SubInv, IInv
  <2> QED
    BY <2>1 DEF SubInv, IInv
<1>2. CASE [Next]_vars /\ output' = output /\ Full /\ Full'
  <2>1. TypeOK' /\ StackShape'
    BY <1>2, TypeNext DEF SubInv
  <2>2. hyper_graph' = hyper_graph
    BY <1>2 DEF Next, Found, Expand, SkipVertex, Descend, Return, Leave,
                Finish, Terminated, given, vars
  <2>3. OutputsMinimal'
    BY <1>2, <2>2 DEF SubInv, OutputsMinimal
  <2> QED
    BY <1>2, <2>1, <2>3 DEF SubInv
<1>3. CASE (EnterFull \/ ReturnFull) /\ Full'
  <2>1. TypeOK' /\ StackShape' /\ output' = output
    BY <1>3, EarlyReturn DEF SubInv
  <2>2. hyper_graph' = hyper_graph
    BY <1>3 DEF EnterFull, ReturnFull, given
  <2>3. OutputsMinimal'
    BY <2>1, <2>2 DEF SubInv, OutputsMinimal
  <2> QED
    BY <1>3, <2>1, <2>3 DEF SubInv
<1> QED
  BY <1>1, <1>2, <1>3, SubNextCases

\* SubInv is inductive.
THEOREM SubInductive == SubSpec => []SubInv
<1>1. SubInit => SubInv
  BY SoundInit DEF SubInit, SubInv, IInv
<1>2. SubInv /\ [SubNext]_sub_vars => SubInv'
  BY SubInvNext
<1> QED
  BY <1>1, <1>2, PTL DEF SubSpec

\* The members of a SubMMCS object are exact until it has accepted enough
\* covers, whatever the number and the distance asked for.
THEOREM SubBookkeepingExact == SubSpec => []BookkeepingUnlessFull
<1>1. SubInv => BookkeepingUnlessFull
  BY DEF SubInv, IInv, MembersOK, CallOK, ActivationsOK, Exact, Bookkeeping,
         BookkeepingUnlessFull
<1> QED
  BY <1>1, SubInductive, PTL

\* Everything a SubMMCS object pushes is a minimal hitting set, the search
\* stopped or not.
THEOREM SubSound == SubSpec => []OutputsMinimal
<1>1. SubInv => OutputsMinimal
  BY DEF SubInv
<1> QED
  BY <1>1, SubInductive, PTL
-----------------------------------------------------------------------------
(***************************************************************************)
(* Nothing is pushed twice, and nothing is missed unless the search has    *)
(* stopped because it has enough covers.                                   *)
(***************************************************************************)
SubSearchInv == SubInv /\ NoneTwice(output) /\ (~Full => SearchInv)

MissedIfFullOnly == ~Full => NothingMissed

\* A request is kept, and so is a list that is long enough.
LEMMA FullForGood == [SubNext]_sub_vars /\ Full => Full'
<1> SUFFICES ASSUME [SubNext]_sub_vars, Full PROVE Full'
  OBVIOUS
<1>1. CASE UNCHANGED sub_vars
  BY <1>1 DEF sub_vars, Full, Diverse
<1>2. CASE SubNext
  BY <1>2 DEF SubNext, EnterFull, FoundOrAccepted, ReturnFull, AsInRunAll, Full,
              Diverse
<1> QED
  BY <1>1, <1>2

LEMMA SubSearchNext ==
  SubSearchInv /\ [SubNext]_sub_vars =>
    SubSearchInv' /\ (Findable /\ MissedIfFullOnly => MissedIfFullOnly')
<1> SUFFICES ASSUME SubSearchInv, [SubNext]_sub_vars
             PROVE  SubSearchInv' /\ (Findable /\ MissedIfFullOnly => MissedIfFullOnly')
  OBVIOUS
<1>1. SubInv'
  BY SubInvNext DEF SubSearchInv
<1>2. CASE ~Full
  <2>1. [Next]_vars
    BY <1>2, SubNextCases, FullForGood DEF EnterFull, ReturnFull
  <2>2. SearchInv' /\ (Findable /\ NothingMissed => NothingMissed')
    BY <1>2, <2>1, SearchNext DEF SubSearchInv
  <2> QED
    BY <1>1, <1>2, <2>2 DEF SubSearchInv, SearchInv, SearchOK, MissedIfFullOnly
<1>3. CASE Full
  <2>1. Full'
    BY <1>3, FullForGood
  <2>2. output' = output
    BY <1>3, SubNextCases DEF EnterFull, ReturnFull
  <2> QED
    BY <1>1, <2>1, <2>2 DEF SubSearchInv, MissedIfFullOnly, NoneTwice
<1> QED
  BY <1>2, <1>3

LEMMA SubSearchInit == SubInit => SubSearchInv /\ MissedIfFullOnly
BY SearchInit DEF SubInit, SubSearchInv, SubInv, SearchInv, SearchOK, IInv,
                  MissedIfFullOnly

\* No cover is pushed twice, the search stopped or not.
THEOREM SubPushedOnce == SubSpec => []NoneTwice(output)
<1>1. SubInit => SubSearchInv
  BY SubSearchInit
<1>2. SubSearchInv /\ [SubNext]_sub_vars => SubSearchInv'
  BY SubSearchNext
<1>3. SubSearchInv => NoneTwice(output)
  BY DEF SubSearchInv
<1> QED
  BY <1>1, <1>2, <1>3, PTL DEF SubSpec

-----------------------------------------------------------------------------
(***************************************************************************)
(* MMCS, and SubMMCS until it has enough, implement the abstract           *)
(* enumeration.                                                            *)
(***************************************************************************)
LEMMA SameCovers ==
  /\ Searched!MinimalCovers(hyper_graph, 0) = MinimalCovers(hyper_graph, 0)
  /\ Searched!Emitted = Emitted
<1>1. \A S : Searched!Cardinality(S) = Cardinality(S)
  BY DEF Searched!Cardinality, Cardinality
<1>2. \A g : Searched!EdgeIds(g) = EdgeIds(g)
  BY DEF Searched!EdgeIds, EdgeIds
<1>3. \A g : Searched!EdgeNum(g) = EdgeNum(g)
  BY <1>1, <1>2 DEF Searched!EdgeNum, EdgeNum
<1>4. \A g : Searched!Vertices(g) = Vertices(g)
  BY <1>2 DEF Searched!Vertices, Vertices
<1>5. \A g, S : Searched!Uncovered(g, S) = Uncovered(g, S)
  BY <1>2 DEF Searched!Uncovered, Uncovered
<1>6. \A g, th, S :
        Searched!IsApproximateCover(g, th, S) <=> IsApproximateCover(g, th, S)
  BY <1>1, <1>3, <1>5 DEF Searched!IsApproximateCover, IsApproximateCover
<1>7. Searched!MinimalCovers(hyper_graph, 0) = MinimalCovers(hyper_graph, 0)
  BY <1>4, <1>6 DEF Searched!MinimalCovers, MinimalCovers
<1> QED
  BY <1>7 DEF Searched!Emitted, Emitted, Elements

LEMMA SearchedStep ==
  ASSUME SubSearchInv, MissedIfFullOnly, [SubNext]_sub_vars
  PROVE  [Searched!Next]_(Searched!vars)
<1> USE DEF given
<1> DEFINE finished == pc = "done" /\ ~Full
<1>1. Full => Full'
  BY FullForGood
<1>2. CASE FoundOrAccepted
  <2>1. /\ ~Full /\ Found /\ pc = "call" /\ pc' = "return"
        /\ output' = Append(output, cur) /\ hyper_graph' = hyper_graph
    BY <1>2 DEF FoundOrAccepted, Found
  <2>2. cur \notin Emitted /\ cur \in MinimalCovers(hyper_graph, 0)
    BY <2>1, FoundSearch
       DEF SubSearchInv, MinimalCovers, IsApproximateCover, Uncovered, EdgeNum,
           EdgeIds, Vertices
  <2>3. cur \in Searched!MinimalCovers(hyper_graph, 0) \ Searched!Emitted
    BY <2>2, SameCovers
  <2>4. finished = FALSE /\ finished' = FALSE
    BY <2>1
  <2>5. Searched!Emit
    BY <2>1, <2>3, <2>4 DEF Searched!Emit
  <2> QED
    BY <2>5 DEF Searched!Next
<1>3. CASE AsInRunAll /\ Finish /\ ~Full
  <2>1. /\ pc = "return" /\ pc' = "done" /\ stack = <<>>
        /\ output' = output /\ hyper_graph' = hyper_graph
        /\ request' = request /\ vc_list' = vc_list
    BY <1>3 DEF AsInRunAll, Finish
  <2>2. Emitted = MinimalCovers(hyper_graph, 0)
    <3>1. MinimalCovers(hyper_graph, 0) \subseteq Emitted
      BY <1>3, <2>1, AllEmitted DEF MissedIfFullOnly
    <3>2. Emitted \subseteq MinimalCovers(hyper_graph, 0)
      <4>1. IsFiniteSet(EdgeIds(hyper_graph))
        BY <1>3, StateProperties DEF SubSearchInv, SearchInv
      <4>2. \A i \in 1 .. Len(output) : output[i] \in MinimalCovers(hyper_graph, 0)
        BY <4>1, ExactCovers DEF SubSearchInv, SubInv, OutputsMinimal
      <4> QED
        BY <4>2 DEF Emitted, Elements
    <3> QED
      BY <3>1, <3>2
  <2>3. Searched!Emitted = Searched!MinimalCovers(hyper_graph, 0)
    BY <2>2, SameCovers
  <2>4. finished = FALSE /\ finished' = TRUE
    BY <1>3, <2>1 DEF Full, Diverse
  <2>5. Searched!Finish
    BY <2>1, <2>3, <2>4 DEF Searched!Finish
  <2> QED
    BY <2>5 DEF Searched!Next
<1>4. CASE Full
  <2>1. output' = output /\ hyper_graph' = hyper_graph
    BY <1>4, SubNextCases
       DEF Next, Found, Expand, SkipVertex, Descend, Return, Leave, Finish,
           Terminated, vars, EnterFull, ReturnFull
  <2>2. finished = FALSE /\ finished' = FALSE
    BY <1>1, <1>4
  <2> QED
    BY <2>1, <2>2 DEF Searched!vars
<1>5. CASE AsInRunAll /\ ~Finish /\ ~Full
  <2>1. /\ output' = output /\ hyper_graph' = hyper_graph
        /\ request' = request /\ vc_list' = vc_list
        /\ (pc = "done") = (pc' = "done")
    BY <1>5 DEF AsInRunAll, Expand, SkipVertex, Descend, Return, Leave, Terminated,
                vars
  <2>2. finished' = finished
    BY <2>1 DEF Full, Diverse
  <2> QED
    BY <2>1, <2>2 DEF Searched!vars
<1>6. CASE UNCHANGED sub_vars
  <2>1. finished' = finished /\ output' = output /\ hyper_graph' = hyper_graph
    BY <1>6 DEF sub_vars, vars, Full, Diverse
  <2> QED
    BY <2>1 DEF Searched!vars
<1>7. EnterFull \/ ReturnFull => Full
  BY DEF EnterFull, ReturnFull
<1> QED
  BY <1>2, <1>3, <1>4, <1>5, <1>6, <1>7 DEF SubNext

\* With every method but PRIORITY, every minimal hitting set is pushed exactly
\* once before RunAll returns, and nothing else is; the same of RunDiverse
\* unless it stops because it has enough covers.
THEOREM SubExact == SubSpec /\ Findable => Searched!Safety
<1>1. SubInit => SubSearchInv /\ MissedIfFullOnly /\ Searched!Init
  <2>1. SubInit => Searched!Init
    BY DEF SubInit, Init, Searched!Init
  <2> QED
    BY <2>1, SubSearchInit
<1>2. SubSearchInv /\ [SubNext]_sub_vars => SubSearchInv'
  BY SubSearchNext
<1>3. Findable /\ [SubNext]_sub_vars => Findable'
  <2>1. [SubNext]_sub_vars => method' = method
    BY DEF SubNext, EnterFull, ReturnFull, FoundOrAccepted, AsInRunAll, sub_vars,
           vars, given, Found, Expand, SkipVertex, Descend, Return, Leave, Finish,
           Terminated
  <2> QED
    BY <2>1 DEF Findable
<1>4. SubSearchInv /\ Findable /\ MissedIfFullOnly /\ [SubNext]_sub_vars
        => MissedIfFullOnly'
  BY SubSearchNext
<1>5. SubSearchInv /\ MissedIfFullOnly /\ [SubNext]_sub_vars
        => [Searched!Next]_(Searched!vars)
  BY SearchedStep
<1> QED
  BY <1>1, <1>2, <1>3, <1>4, <1>5, PTL DEF SubSpec, Searched!Safety

-----------------------------------------------------------------------------
(***************************************************************************)
(* What is accepted.  As nothing is pushed twice, each cover accepted was  *)
(* pushed at one place.                                                    *)
(***************************************************************************)
Far(S, T) ==
  LET d == GetDistance(S, T) IN 100 * d[1] >= request.threshold * d[2]

\* Where S was pushed in out.
Place(out, S) == CHOOSE p \in DOMAIN out : out[p] = S

\* Where the first cover after the i-th of list was accepted, if any was.
NextPlace(list, out, i) ==
  IF i = Len(list) THEN Len(out) + 1 ELSE Place(out, list[i + 1])

InTurn(list, out, i) ==
  /\ NextPlace(list, out, i) > Place(out, list[i])
  /\ \A p \in Place(out, list[i]) + 1 .. NextPlace(list, out, i) - 1 :
       ~Far(list[i], out[p])
  /\ NextPlace(list, out, i) <= Len(out)
       => Far(list[i], out[NextPlace(list, out, i)])

\* The first cover pushed is accepted, never more than required, and none is
\* pushed once there are enough.
AcceptedOK ==
  /\ request \in Requests
  /\ vc_list \in Seq(SUBSET Vertices(hyper_graph))
  /\ \A i \in 1 .. Len(vc_list) : vc_list[i] \in Emitted
  /\ Diverse /\ vc_list = <<>> => output = <<>>
  /\ vc_list # <<>> => Place(output, vc_list[1]) = 1
  /\ ~Diverse => vc_list = <<>>
  /\ Len(vc_list) <= request.required_number_of_vc
  /\ \A i \in 1 .. Len(vc_list) : InTurn(vc_list, output, i)
  /\ Full => vc_list = <<>> \/ Place(output, vc_list[Len(vc_list)]) = Len(output)

\* A cover is where it was pushed, and pushing another does not change that.
LEMMA PlaceProperties ==
  ASSUME NEW S, NEW out \in Seq(S), NoneTwice(out), NEW p \in 1 .. Len(out)
  PROVE  Place(out, out[p]) = p
<1>1. DOMAIN out = 1 .. Len(out)
  OBVIOUS
<1>2. Place(out, out[p]) \in 1 .. Len(out) /\ out[Place(out, out[p])] = out[p]
  BY <1>1 DEF Place
<1> QED
  BY <1>2 DEF NoneTwice

LEMMA PlacePushed ==
  ASSUME NEW S, NEW out \in Seq(S), NEW C \in S, C \notin Elements(out),
         NoneTwice(out)
  PROVE  /\ Place(Append(out, C), C) = Len(out) + 1
         /\ \A T \in Elements(out) :
              /\ Place(Append(out, C), T) = Place(out, T)
              /\ Place(out, T) \in 1 .. Len(out)
              /\ out[Place(out, T)] = T
<1> DEFINE n == Len(out)
           new == Append(out, C)
<1>1. /\ n \in Nat /\ new \in Seq(S) /\ Len(new) = n + 1 /\ new[n + 1] = C
      /\ \A i \in 1 .. n : new[i] = out[i]
  BY PushProperties
<1>2. NoneTwice(new)
  BY PushedOnce
<1>3. ASSUME NEW i \in 1 .. n + 1 PROVE Place(new, new[i]) = i
  BY <1>1, <1>2, <1>3, PlaceProperties
<1>4. Place(new, C) = n + 1
  BY <1>1, <1>3
<1>5. ASSUME NEW T \in Elements(out)
      PROVE  /\ Place(new, T) = Place(out, T) /\ Place(out, T) \in 1 .. n
             /\ out[Place(out, T)] = T
  <2>1. PICK i \in 1 .. n : out[i] = T
    BY DEF Elements
  <2>2. Place(out, T) = i
    BY <2>1, PlaceProperties
  <2>3. Place(new, T) = i
    BY <1>1, <1>3, <2>1
  <2> QED
    BY <2>1, <2>2, <2>3
<1> QED
  BY <1>4, <1>5

\* Two different covers have a distance: their union is not empty.
LEMMA DistanceExists ==
  ASSUME NEW g, IsHyperGraph(g), NEW S \in SUBSET Vertices(g),
         NEW T \in SUBSET Vertices(g), S # T
  PROVE  GetDistance(S, T)[2] # 0
<1>1. IsFiniteSet(Vertices(g))
  <2>1. Vertices(g) \in SUBSET (0 .. MaxBit - 1)
    <3>1. EdgeIds(g) = 0 .. EdgeNum(g) - 1
      BY IsHyperGraphProperties
    <3>2. \A e \in EdgeIds(g) : g[e] \in SUBSET (0 .. MaxBit - 1)
      BY <3>1 DEF IsHyperGraph
    <3> QED
      BY <3>2 DEF Vertices
  <2>2. 0 \in Int /\ MaxBit - 1 \in Int
    BY DEF MaxBit
  <2>3. IsFiniteSet(0 .. MaxBit - 1)
    BY <2>2, FS_Interval
  <2> QED
    BY <2>1, <2>3, FS_Subset
<1>2. S \cup T \in SUBSET Vertices(g) /\ S \cup T # {}
  OBVIOUS
<1>3. IsFiniteSet(S \cup T)
  BY <1>1, <1>2, FS_Subset
<1>4. Cardinality(S \cup T) # 0
  BY <1>2, <1>3, FS_EmptySet
<1> QED
  BY <1>4 DEF GetDistance

\* C, which is new, is pushed to out and, if it is far enough, to list.
Pushes(S, out, list, C, out2, list2) ==
  /\ out \in Seq(S) /\ NoneTwice(out) /\ C \in S /\ C \notin Elements(out)
  /\ list \in Seq(S)
  /\ \A i \in 1 .. Len(list) : list[i] \in Elements(out)
  /\ out2 = Append(out, C)
  /\ list2 = IF list = <<>> \/ Far(list[Len(list)], C)
               THEN Append(list, C) ELSE list

AllInTurn(list, out) == \A i \in 1 .. Len(list) : InTurn(list, out, i)

\* The list is not empty then, begins where it did and, if it has changed,
\* ends where out does.
Extends(list, out, list2, out2) ==
  /\ list2 # <<>>
  /\ list2 # list => Place(out2, list2[Len(list2)]) = Len(out2)
  /\ list # <<>> => Place(out2, list2[1]) = Place(out, list[1])

\* The last cover accepted keeps its turn, or gives it to the one pushed.
LEMMA TurnPushed ==
  ASSUME NEW S, NEW out, NEW list, NEW C, NEW new, NEW list2,
         Pushes(S, out, list, C, new, list2), AllInTurn(list, out)
  PROVE  AllInTurn(list2, new) /\ Extends(list, out, list2, new)
<1>0. /\ out \in Seq(S) /\ NoneTwice(out) /\ C \in S /\ C \notin Elements(out)
      /\ list \in Seq(S)
      /\ \A i \in 1 .. Len(list) : list[i] \in Elements(out)
      /\ new = Append(out, C)
      /\ list2 = IF list = <<>> \/ Far(list[Len(list)], C)
                   THEN Append(list, C) ELSE list
      /\ \A i \in 1 .. Len(list) : InTurn(list, out, i)
  BY DEF Pushes, AllInTurn
<1> USE <1>0
<1> SUFFICES /\ \A i \in 1 .. Len(list2) : InTurn(list2, new, i)
             /\ list2 # <<>>
             /\ list2 # list => Place(new, list2[Len(list2)]) = Len(new)
             /\ list # <<>> => Place(new, list2[1]) = Place(out, list[1])
  BY DEF AllInTurn, Extends
<1> DEFINE n == Len(out)
           k == Len(list)
<1>1. /\ n \in Nat /\ Len(new) = n + 1 /\ new[n + 1] = C
      /\ \A i \in 1 .. n : new[i] = out[i]
  BY PushProperties
<1>2. /\ Place(new, C) = n + 1
      /\ \A T \in Elements(out) : /\ Place(new, T) = Place(out, T)
                                  /\ Place(out, T) \in 1 .. n
                                  /\ out[Place(out, T)] = T
  BY PlacePushed
<1>3. k \in Nat /\ (list = <<>> <=> k = 0)
  BY EmptySeq
<1>4. \A i \in 1 .. k : /\ Place(new, list[i]) = Place(out, list[i])
                        /\ Place(out, list[i]) \in 1 .. n
                        /\ out[Place(out, list[i])] = list[i]
  BY <1>2
<1> HIDE DEF n, k
<1>5. CASE list2 = Append(list, C) /\ (list = <<>> \/ Far(list[k], C))
  <2>1. /\ Len(list2) = k + 1 /\ list2[k + 1] = C
        /\ \A i \in 1 .. k : list2[i] = list[i]
        /\ list2 # <<>>
    BY <1>5, PushProperties DEF k
  <2>2. ASSUME NEW i \in 1 .. k - 1 PROVE InTurn(list2, new, i)
    <3>1. i \in 1 .. k /\ i + 1 \in 1 .. k /\ i # k /\ i # k + 1
      BY <1>3
    <3>2. NextPlace(list2, new, i) = NextPlace(list, out, i)
          /\ NextPlace(list, out, i) \in 1 .. n
      BY <1>4, <2>1, <3>1 DEF NextPlace, k
    <3>3. InTurn(list, out, i)
      BY <3>1 DEF k
    <3>4. list2[i] = list[i] /\ Place(new, list2[i]) = Place(out, list[i])
          /\ Place(out, list[i]) \in 1 .. n
      BY <1>4, <2>1, <3>1
    <3>5. \A p \in Place(out, list[i]) + 1 .. NextPlace(list, out, i) - 1 :
            p \in 1 .. n
      BY <1>1, <3>2, <3>4
    <3>6. NextPlace(list, out, i) <= Len(out) /\ Len(out) = n
      BY <1>1, <3>2 DEF n
    <3> QED
      BY <1>1, <3>2, <3>3, <3>4, <3>5, <3>6 DEF InTurn
  <2>3. ASSUME k # 0 PROVE InTurn(list2, new, k)
    <3>1. k \in 1 .. k /\ k # k + 1 /\ k + 1 \in 1 .. k + 1
      BY <1>3, <2>3
    <3>2. NextPlace(list2, new, k) = n + 1 /\ NextPlace(list, out, k) = n + 1
      BY <1>2, <2>1, <3>1 DEF NextPlace, k, n
    <3>3. InTurn(list, out, k)
      BY <3>1 DEF k
    <3>4. list2[k] = list[k] /\ Place(new, list2[k]) = Place(out, list[k])
          /\ Place(out, list[k]) \in 1 .. n
      BY <1>4, <2>1, <3>1
    <3>5. \A p \in Place(out, list[k]) + 1 .. (n + 1) - 1 : p \in 1 .. n
      BY <1>1, <3>4
    <3>6. Far(list[k], C)
      BY <1>3, <1>5, <2>3
    <3> QED
      BY <1>1, <3>2, <3>3, <3>4, <3>5, <3>6 DEF InTurn
  <2>4. InTurn(list2, new, k + 1)
    <3>1. NextPlace(list2, new, k + 1) = n + 2 /\ Place(new, list2[k + 1]) = n + 1
      BY <1>1, <1>2, <2>1 DEF NextPlace
    <3>2. (n + 1) + 1 .. (n + 2) - 1 = {} /\ n + 2 > n + 1 /\ ~(n + 2 <= n + 1)
      BY <1>1
    <3> QED
      BY <1>1, <3>1, <3>2 DEF InTurn
  <2>5. \A i \in 1 .. k + 1 : i \in 1 .. k - 1 \/ (i = k /\ k # 0) \/ i = k + 1
    BY <1>3
  <2>6. list # <<>> => Place(new, list2[1]) = Place(out, list[1])
    BY <1>3, <1>4, <2>1
  <2> QED
    BY <1>1, <1>2, <2>1, <2>2, <2>3, <2>4, <2>5, <2>6
<1>6. CASE list2 = list /\ list # <<>> /\ ~Far(list[k], C)
  <2>1. ASSUME NEW i \in 1 .. k - 1 PROVE InTurn(list, new, i)
    <3>1. i \in 1 .. k /\ i + 1 \in 1 .. k /\ i # k
      BY <1>3
    <3>2. NextPlace(list, new, i) = NextPlace(list, out, i)
          /\ NextPlace(list, out, i) \in 1 .. n
      BY <1>4, <3>1 DEF NextPlace, k
    <3>3. InTurn(list, out, i)
      BY <3>1 DEF k
    <3>4. Place(new, list[i]) = Place(out, list[i]) /\ Place(out, list[i]) \in 1 .. n
      BY <1>4, <3>1
    <3>5. \A p \in Place(out, list[i]) + 1 .. NextPlace(list, out, i) - 1 :
            p \in 1 .. n
      BY <1>1, <3>2, <3>4
    <3>6. NextPlace(list, out, i) <= Len(out) /\ Len(out) = n
      BY <1>1, <3>2 DEF n
    <3> QED
      BY <1>1, <3>2, <3>3, <3>4, <3>5, <3>6 DEF InTurn
  <2>2. InTurn(list, new, k)
    <3>1. k \in 1 .. k
      BY <1>3, <1>6
    <3>2. NextPlace(list, new, k) = n + 2 /\ NextPlace(list, out, k) = n + 1
      BY <1>1 DEF NextPlace, k, n
    <3>3. InTurn(list, out, k)
      BY <3>1 DEF k
    <3>4. Place(new, list[k]) = Place(out, list[k]) /\ Place(out, list[k]) \in 1 .. n
      BY <1>4, <3>1
    <3>5. \A p \in Place(out, list[k]) + 1 .. (n + 2) - 1 :
            \/ p \in Place(out, list[k]) + 1 .. (n + 1) - 1 /\ p \in 1 .. n
            \/ p = n + 1
      BY <1>1, <3>4
    <3>6. n + 2 > Place(out, list[k]) /\ ~(n + 2 <= n + 1)
      BY <1>1, <3>4
    <3> QED
      BY <1>1, <1>6, <3>2, <3>3, <3>4, <3>5, <3>6 DEF InTurn
  <2>3. \A i \in 1 .. k : i \in 1 .. k - 1 \/ i = k
    BY <1>3
  <2>4. Place(new, list[1]) = Place(out, list[1])
    BY <1>3, <1>4, <1>6
  <2> QED
    BY <1>6, <2>1, <2>2, <2>3, <2>4 DEF k
<1> QED
  BY <1>5, <1>6 DEF k

LEMMA AcceptedNext ==
  SubSearchInv /\ AcceptedOK /\ [SubNext]_sub_vars => AcceptedOK'
<1> SUFFICES ASSUME SubSearchInv, AcceptedOK, [SubNext]_sub_vars
             PROVE  AcceptedOK'
  OBVIOUS
<1>1. CASE UNCHANGED <<request, vc_list, output, hyper_graph>>
  <2>1. \A i : InTurn(vc_list, output, i)' <=> InTurn(vc_list, output, i)
    BY <1>1 DEF InTurn, NextPlace, Far, Place
  <2> QED
    BY <1>1, <2>1 DEF AcceptedOK, Emitted, Elements, Diverse, Full, Place
<1>2. CASE FoundOrAccepted
  <2>1. /\ ~Full /\ Found /\ output' = Append(output, cur)
        /\ request' = request /\ hyper_graph' = hyper_graph
        /\ vc_list' = IF Diverse /\ FarEnough THEN Append(vc_list, cur) ELSE vc_list
    BY <1>2 DEF FoundOrAccepted, Found, given
  <2>2. cur \notin Emitted
    BY <2>1, FoundSearch DEF SubSearchInv
  <2>3. /\ output \in Seq(SUBSET Vertices(hyper_graph))
        /\ cur \in SUBSET Vertices(hyper_graph)
        /\ NoneTwice(output) /\ IsHyperGraph(hyper_graph)
    BY HyperGraphsAssumption DEF SubSearchInv, SubInv, TypeOK
  <2>4. /\ vc_list \in Seq(SUBSET Vertices(hyper_graph)) /\ Len(vc_list) \in Nat
        /\ vc_list = <<>> <=> Len(vc_list) = 0
    BY EmptySeq DEF AcceptedOK
  <2>5. /\ vc_list' \in Seq(SUBSET Vertices(hyper_graph))
        /\ Emitted' = Emitted \cup {cur}
    BY <2>1, <2>3, <2>4, PushedOnce DEF Emitted
  <2>6. \A i \in 1 .. Len(vc_list') : vc_list'[i] \in Emitted'
    BY <2>1, <2>3, <2>4, <2>5, PushProperties DEF AcceptedOK
  <2>9. Len(vc_list') <= request'.required_number_of_vc
    <3>1. request.required_number_of_vc \in Nat
      BY RequestsAssumption DEF AcceptedOK
    <3>2. Len(vc_list) <= request.required_number_of_vc
      BY DEF AcceptedOK
    <3>3. CASE vc_list' = Append(vc_list, cur) /\ Diverse
      <4>1. Len(vc_list) # request.required_number_of_vc
        BY <2>1, <3>3 DEF Full
      <4>2. Len(vc_list') = Len(vc_list) + 1
        BY <2>3, <2>4, <3>3, PushProperties
      <4> QED
        BY <2>1, <2>4, <3>1, <3>2, <4>1, <4>2
    <3>4. CASE vc_list' = vc_list
      BY <2>1, <3>2, <3>4
    <3> QED
      BY <2>1, <3>3, <3>4
  <2>7. CASE ~Diverse
    <3>1. vc_list' = <<>> /\ ~Diverse' /\ Len(vc_list') = 0
      BY <2>1, <2>4, <2>7 DEF AcceptedOK, Diverse
    <3> QED
      BY <2>1, <2>5, <2>6, <2>9, <3>1 DEF AcceptedOK, Full
  <2>8. CASE Diverse
    <3> DEFINE last == vc_list[Len(vc_list)]
    <3>1. FarEnough <=> vc_list = <<>> \/ Far(last, cur)
      <4>1. ASSUME vc_list # <<>> PROVE GetDistance(last, cur)[2] # 0
        <5>1. last \in Emitted /\ last \in SUBSET Vertices(hyper_graph)
          BY <2>4, <4>1 DEF AcceptedOK
        <5>2. last # cur
          BY <2>2, <5>1
        <5> HIDE DEF last
        <5> QED
          BY <2>3, <5>1, <5>2, DistanceExists
      <4> QED
        BY <4>1 DEF FarEnough, Far
    <3>2. vc_list' = IF vc_list = <<>> \/ Far(last, cur)
                       THEN Append(vc_list, cur) ELSE vc_list
      BY <2>1, <2>8, <3>1
    <3>3. /\ \A i \in 1 .. Len(vc_list') : InTurn(vc_list', output', i)
          /\ vc_list' # <<>>
          /\ vc_list' # vc_list => Place(output', vc_list'[Len(vc_list')]) = Len(output')
          /\ vc_list # <<>> => Place(output', vc_list'[1]) = Place(output, vc_list[1])
      <4>1. PICK S, C, list, list2, out, new :
              /\ S = SUBSET Vertices(hyper_graph) /\ C = cur /\ list = vc_list
              /\ list2 = vc_list' /\ out = output /\ new = output'
        OBVIOUS
      <4>2. Pushes(S, out, list, C, new, list2) /\ AllInTurn(list, out)
        BY <2>1, <2>2, <2>3, <2>4, <3>2, <4>1
           DEF AcceptedOK, Emitted, Pushes, AllInTurn
      <4>3. AllInTurn(list2, new) /\ Extends(list, out, list2, new)
        BY ONLY <4>2, TurnPushed
      <4> QED
        BY <4>1, <4>3 DEF AllInTurn, Extends
    <3>4. \A i \in 1 .. Len(vc_list') : InTurn(vc_list, output, i)'
      <4>1. \A S, T : Far(S, T)' <=> Far(S, T)
        BY <2>1 DEF Far
      <4>2. ASSUME NEW i PROVE InTurn(vc_list, output, i)' <=> InTurn(vc_list', output', i)
        BY <4>1 DEF InTurn, NextPlace, Place
      <4> QED
        BY <3>3, <4>2
    <3>5. Place(output', vc_list'[1]) = 1
      <4>1. CASE vc_list # <<>>
        BY <3>3, <4>1 DEF AcceptedOK
      <4>2. CASE vc_list = <<>>
        <5>1. output = <<>> /\ vc_list' = Append(vc_list, cur)
          BY <2>8, <3>2, <4>2 DEF AcceptedOK
        <5>2. Len(vc_list') = 1 /\ Len(output') = 1 /\ vc_list' # vc_list
          BY <2>1, <3>3, <4>2, <5>1
        <5> QED
          BY <3>3, <5>2
      <4> QED
        BY <4>1, <4>2
    <3>6. Full' => Place(output', vc_list'[Len(vc_list')]) = Len(output')
      <4> SUFFICES ASSUME Full' PROVE vc_list' # vc_list
        BY <3>3
      <4> QED
        BY <2>1, <2>8 DEF Full, Diverse
    <3> QED
      BY <2>1, <2>5, <2>6, <2>8, <2>9, <3>3, <3>4, <3>5, <3>6 DEF AcceptedOK, Diverse
  <2> QED
    BY <2>7, <2>8
<1>3. CASE EnterFull \/ ReturnFull
  BY <1>1, <1>3 DEF EnterFull, ReturnFull, given
<1>4. CASE AsInRunAll
  BY <1>1, <1>4 DEF AsInRunAll, Expand, SkipVertex, Descend, Return, Leave, Finish,
                    Terminated, given, vars
<1>5. CASE UNCHANGED sub_vars
  BY <1>1, <1>5 DEF sub_vars, vars
<1> QED
  BY <1>2, <1>3, <1>4, <1>5 DEF SubNext

\* Whatever the number and the distance asked for, RunDiverse accepts the
\* first cover it pushes and then each that is far enough from the one
\* accepted last, no more than that number, and pushes nothing more once it
\* has enough: nothing at all if none are asked for.
THEOREM SubAcceptedInTurn == SubSpec => []AcceptedInTurn
<1>1. SubInit => SubSearchInv /\ AcceptedOK
  <2> SUFFICES ASSUME SubInit PROVE AcceptedOK
    BY SubSearchInit
  <2>1. vc_list = <<>> /\ output = <<>> /\ request \in Requests /\ Len(vc_list) = 0
    BY DEF SubInit, Init
  <2>2. request.required_number_of_vc \in Nat
    BY <2>1, RequestsAssumption
  <2> QED
    BY <2>1, <2>2 DEF AcceptedOK
<1>2. SubSearchInv /\ AcceptedOK /\ [SubNext]_sub_vars => (SubSearchInv /\ AcceptedOK)'
  BY SubSearchNext, AcceptedNext
<1>3. AcceptedOK => AcceptedInTurn
  <2> SUFFICES ASSUME AcceptedOK PROVE AcceptedInTurn
    OBVIOUS
  <2> DEFINE At(i) == Place(output, vc_list[i])
             next(i) == IF i = Len(vc_list) THEN Len(output) + 1 ELSE At(i + 1)
  <2>1. DOMAIN vc_list = 1 .. Len(vc_list)
    BY DEF AcceptedOK
  <2>2. \A i \in DOMAIN vc_list :
          /\ next(i) > At(i)
          /\ \A p \in At(i) + 1 .. next(i) - 1 : ~Far(vc_list[i], output[p])
          /\ next(i) <= Len(output) => Far(vc_list[i], output[next(i)])
    BY <2>1 DEF AcceptedOK, InTurn, NextPlace
  <2>3. /\ vc_list # <<>> => At(1) = 1
        /\ Full /\ vc_list # <<>> => At(Len(vc_list)) = Len(output)
        /\ Len(vc_list) <= request.required_number_of_vc
    BY DEF AcceptedOK
  <2>4. Diverse => (vc_list = <<>> <=> output = <<>>)
    <3> SUFFICES ASSUME vc_list # <<>> PROVE output # <<>>
      BY DEF AcceptedOK
    <3>1. 1 \in 1 .. Len(vc_list)
      BY EmptySeq DEF AcceptedOK
    <3>2. vc_list[1] \in Elements(output)
      BY <3>1 DEF AcceptedOK, Emitted
    <3> QED
      BY <3>2 DEF Elements
  <2> QED
    BY <2>2, <2>3, <2>4 DEF AcceptedInTurn, Place, Far
<1> QED
  BY <1>1, <1>2, <1>3, PTL DEF SubSpec

=============================================================================
