---------------------------- MODULE ADCEnumProofs ----------------------------
(***************************************************************************)
(* ADCEnum, for every hypergraph, every theta and every method: its        *)
(* bookkeeping is exact in every state, it gives up no edge that could     *)
(* still be hit, it emits minimal covers only, none of them twice, and, if *)
(* the method is one that always finds an edge, all of them.               *)
(***************************************************************************)
EXTENDS ADCEnum, CoverSearchProofs

Emitted == Elements(output)

\* The activation that runs its loop has chosen no vertex.
Shape ==
  /\ pc = "loop" => stack # <<>> /\ active.v = NoVertex
  /\ pc = "done" => stack = <<>>

\* The members are those of the vertices chosen by all activations.
MembersOK ==
  /\ cur = ChosenBefore(stack, Len(stack) + 1)
  /\ uncov = Uncovered(hyper_graph, cur)

ActivationsOK ==
  \A i \in 1 .. Len(stack) :
    /\ FrameOK(hyper_graph, cur, stack, i)
    /\ CritExact(hyper_graph, stack, i, stack[i].crit)

\* What can_hit will be when the activation that runs is in its loop: a call
\* made for a chosen vertex starts and ends with the can_hit of its caller.
CanHitOK ==
  /\ pc = "loop" => can_hit = active.can_hit
  /\ stack # <<>> /\ active.v # NoVertex => can_hit = active.can_hit
  /\ \A i \in 1 .. Len(stack) - 1 :
       stack[i].v # NoVertex => stack[i + 1].can_hit = stack[i].can_hit

\* An activation has given up the edges that no vertex it may still try, or
\* has chosen, hits.
GivenUp(g, s, i) ==
  \A e \in Uncovered(g, ChosenBefore(s, i)) \ s[i].can_hit :
    g[e] \cap (s[i].cand \cup s[i].todo \cup {s[i].v}) = {}

GivenUpOK == \A i \in 1 .. Len(stack) : GivenUp(hyper_graph, stack, i)

CallOK ==
  pc = "call" =>
    /\ args.cand \cap cur = {}
    /\ HoldsCritical(hyper_graph, cur, args.crit)
    /\ CritExact(hyper_graph, stack, Len(stack) + 1, args.crit)
    /\ \A e \in uncov \ can_hit : hyper_graph[e] \cap args.cand = {}

\* The sets that the call about to be entered tries.
Calls == IF pc = "call" THEN Within(cur, args.cand) ELSE {}

SearchOK ==
  /\ NoOverlap(cur, stack, Calls)
  /\ Whole(cur, stack, Calls) \cap Emitted = {}

OutputsOK ==
  /\ Emitted \subseteq MinimalCovers(hyper_graph, theta)
  /\ NoneTwice(output)

IInv ==
  /\ TypeOK /\ Shape /\ MembersOK /\ ActivationsOK /\ CanHitOK /\ GivenUpOK
  /\ CallOK /\ SearchOK /\ OutputsOK

\* No minimal cover is lost: it has been emitted, or is still ahead.
NothingMissed ==
  MinimalCovers(hyper_graph, theta) \subseteq Emitted \cup Whole(cur, stack, Calls)

-----------------------------------------------------------------------------
LEMMA HyperGraphProperties ==
  ASSUME NEW g \in HyperGraphs
  PROVE  /\ Vertices(g) \subseteq Nat
         /\ NoVertex \notin Vertices(g)
         /\ IsFiniteSet(EdgeIds(g))
         /\ EdgeNum(g) \in Nat
         /\ EdgeIds(g) = 0 .. EdgeNum(g) - 1
         /\ EdgeIds(g) \subseteq Nat
         /\ \A e \in EdgeIds(g) : g[e] \subseteq Vertices(g)
BY HyperGraphsAssumption, IsHyperGraphProperties

\* Every activation above the first j chooses at most one vertex more.
LEMMA RankProperties ==
  ASSUME NEW s
  PROVE  /\ Rank(s, 0) = 0
         /\ \A j \in Nat : Rank(s, j) \in Nat
         /\ \A j \in Nat \ {0} :
              Rank(s, j) = IF s[j].v = NoVertex THEN Rank(s, j - 1)
                                                ELSE Rank(s, j - 1) + 1
         /\ \A i, j \in Nat : i <= j => Rank(s, i) <= Rank(s, j)
<1> DEFINE R(j) == {k \in 1 .. j : s[k].v # NoVertex}
<1>1. \A j \in Nat : IsFiniteSet(R(j)) /\ Cardinality(R(j)) \in Nat
  <2> TAKE j \in Nat
  <2>1. IsFiniteSet(1 .. j)
    BY FS_Interval
  <2>2. R(j) \in SUBSET (1 .. j)
    OBVIOUS
  <2> QED
    BY <2>1, <2>2, FS_Subset, FS_CardinalityType
<1>2. \A j : Rank(s, j) = Cardinality(R(j))
  BY DEF Rank
<1>3. Rank(s, 0) = 0
  <2>1. R(0) = {}
    OBVIOUS
  <2> QED
    BY <1>2, <2>1, FS_EmptySet
<1>4. ASSUME NEW j \in Nat \ {0}
      PROVE  Rank(s, j) = IF s[j].v = NoVertex THEN Rank(s, j - 1)
                                               ELSE Rank(s, j - 1) + 1
  <2>1. 1 .. j = (1 .. j - 1) \cup {j} /\ j \notin 1 .. j - 1 /\ j - 1 \in Nat
    OBVIOUS
  <2>2. CASE s[j].v = NoVertex
    <3>1. R(j) = R(j - 1)
      BY <2>1, <2>2
    <3> QED
      BY <1>2, <2>2, <3>1
  <2>3. CASE s[j].v # NoVertex
    <3>1. R(j) = R(j - 1) \cup {j} /\ j \notin R(j - 1)
      BY <2>1, <2>3
    <3>2. Cardinality(R(j)) = Cardinality(R(j - 1)) + 1
      <4>1. IsFiniteSet(R(j - 1))
        BY <1>1, <2>1
      <4> HIDE DEF R
      <4> QED
        BY <3>1, <4>1, FS_AddElement
    <3> QED
      BY <1>2, <2>3, <3>2
  <2> QED
    BY <2>2, <2>3
<1>5. ASSUME NEW i \in Nat, NEW j \in Nat, i <= j
      PROVE  Rank(s, i) <= Rank(s, j)
  <2>1. R(i) \in SUBSET R(j)
    BY <1>5
  <2>2. IsFiniteSet(R(j))
    BY <1>1
  <2> HIDE DEF R
  <2> QED
    BY <1>2, <2>1, <2>2, FS_Subset
<1> QED
  BY <1>1, <1>2, <1>3, <1>4, <1>5

\* CritExact depends on the choices of the activations before the i-th only.
LEMMA CritExactUnchanged ==
  ASSUME NEW g, NEW s, NEW t, NEW i \in Nat, NEW crit,
         \A j \in 1 .. i - 1 : t[j].v = s[j].v, CritExact(g, s, i, crit)
  PROVE  CritExact(g, t, i, crit)
<1>1. ChosenBefore(t, i) = ChosenBefore(s, i)
  BY ChosenUnchanged
<1>2. \A j \in 0 .. i - 1 : Rank(t, j) = Rank(s, j)
  <2> TAKE j \in 0 .. i - 1
  <2>1. {k \in 1 .. j : t[k].v # NoVertex} = {k \in 1 .. j : s[k].v # NoVertex}
    OBVIOUS
  <2> QED
    BY <2>1 DEF Rank
<1>3. Rank(t, i - 1) = Rank(s, i - 1)
  <2>1. {k \in 1 .. i - 1 : t[k].v # NoVertex} = {k \in 1 .. i - 1 : s[k].v # NoVertex}
    OBVIOUS
  <2> QED
    BY <2>1 DEF Rank
<1>4. \A j \in 1 .. i - 1 : j \in 0 .. i - 1
  OBVIOUS
<1> QED
  BY <1>1, <1>2, <1>3, <1>4 DEF CritExact

\* The call that skips an edge gets the crit of its caller.
LEMMA CritExactSkipped ==
  ASSUME NEW g, NEW s, NEW i \in Nat \ {0}, NEW crit,
         s[i].v = NoVertex, CritExact(g, s, i, crit)
  PROVE  CritExact(g, s, i + 1, crit)
<1>1. ChosenBefore(s, i + 1) = ChosenBefore(s, i)
  BY ChosenNext
<1>2. Rank(s, (i + 1) - 1) = Rank(s, i - 1)
  <2>1. (i + 1) - 1 = i
    OBVIOUS
  <2>2. Rank(s, i) = Rank(s, i - 1)
    BY RankProperties
  <2> QED
    BY <2>1, <2>2
<1>3. \A j \in 1 .. (i + 1) - 1 : s[j].v # NoVertex => j \in 1 .. i - 1
  OBVIOUS
<1> QED
  BY <1>1, <1>2, <1>3 DEF CritExact

\* The call for a chosen vertex gets the updated crit.
LEMMA CritExactChosen ==
  ASSUME NEW g, NEW s, NEW i \in Nat \ {0},
         NEW crit \in Seq(SUBSET EdgeIds(g)),
         NEW v, s[i].v = v, v # NoVertex, v \notin ChosenBefore(s, i),
         CritExact(g, s, i, crit)
  PROVE  CritExact(g, s, i + 1,
                   UpdatedCrit(g, crit, Uncovered(g, ChosenBefore(s, i)), v))
<1> DEFINE C == ChosenBefore(s, i)
           new == UpdatedCrit(g, crit, Uncovered(g, C), v)
<1>1. ChosenBefore(s, i + 1) = C \cup {v}
  BY ChosenNext
<1>2. /\ Len(crit) \in Nat /\ Len(new) = Len(crit) + 1
      /\ new[Len(crit) + 1] = NewCrit(g, Uncovered(g, C), v)
      /\ \A k \in 1 .. Len(crit) : new[k] = crit[k] \ VertexHitting(g, v)
  <2> DEFINE U == Uncovered(g, C)
             old == [k \in 1 .. Len(crit) |-> crit[k] \ VertexHitting(g, v)]
  <2>1. Len(crit) \in Nat
    OBVIOUS
  <2>2. old \in Seq(SUBSET EdgeIds(g)) /\ Len(old) = Len(crit)
    BY <2>1
  <2>3. \A k \in 1 .. Len(crit) : old[k] = crit[k] \ VertexHitting(g, v)
    OBVIOUS
  <2>4. new = Append(old, NewCrit(g, U, v))
    BY DEF UpdatedCrit
  <2>5. NewCrit(g, U, v) \in SUBSET EdgeIds(g)
    BY DEF NewCrit, Uncovered
  <2> HIDE DEF old, new, U, C
  <2>6. /\ Len(crit) \in Nat /\ Len(new) = Len(crit) + 1
        /\ new[Len(crit) + 1] = NewCrit(g, U, v)
        /\ \A k \in 1 .. Len(crit) : new[k] = crit[k] \ VertexHitting(g, v)
    BY <2>1, <2>2, <2>3, <2>4, <2>5
  <2> QED
    BY <2>6 DEF U
<1>3. Len(crit) = Rank(s, i - 1) /\ Rank(s, i) = Len(crit) + 1
  BY RankProperties DEF CritExact
<1>4. new[Len(crit) + 1] = Critical(g, C \cup {v}, v)
  BY <1>2, CriticalNew
<1>5. ASSUME NEW j \in 1 .. i - 1, s[j].v # NoVertex
      PROVE  new[Rank(s, j)] = Critical(g, C \cup {v}, s[j].v)
  <2>1. Rank(s, j) \in 1 .. Len(crit)
    <3>1. /\ j \in Nat \ {0} /\ j - 1 \in Nat /\ i - 1 \in Nat /\ j <= i - 1
      OBVIOUS
    <3>2. Rank(s, j) = Rank(s, j - 1) + 1 /\ Rank(s, j - 1) \in Nat
      BY <1>5, <3>1, RankProperties
    <3>3. Rank(s, j) <= Rank(s, i - 1)
      BY <3>1, RankProperties
    <3> QED
      BY <1>2, <1>3, <3>2, <3>3
  <2>2. crit[Rank(s, j)] = Critical(g, C, s[j].v)
    BY <1>5 DEF CritExact
  <2>3. s[j].v \in C
    BY <1>5 DEF ChosenBefore
  <2>4. Critical(g, C, s[j].v) \ VertexHitting(g, v) = Critical(g, C \cup {v}, s[j].v)
    <3>1. v \notin C
      OBVIOUS
    <3> HIDE DEF C
    <3>2. \A u \in C : Critical(g, C, u) \ VertexHitting(g, v) = Critical(g, C \cup {v}, u)
      BY ONLY <3>1, CriticalUpdated
    <3> QED
      BY <2>3, <3>2
  <2> QED
    BY <1>2, <2>1, <2>2, <2>4
<1> HIDE DEF new, C
<1>6. (i + 1) - 1 = i /\ \A j \in 1 .. i : j \in 1 .. i - 1 \/ j = i
  OBVIOUS
<1>7. \A j \in 1 .. i : s[j].v # NoVertex =>
        new[Rank(s, j)] = Critical(g, C \cup {v}, s[j].v)
  BY <1>3, <1>4, <1>5, <1>6
<1>8. Len(new) = Rank(s, i)
  BY <1>2, <1>3
<1>9. CritExact(g, s, i + 1, new)
  BY <1>1, <1>6, <1>7, <1>8 DEF CritExact
<1> QED
  BY <1>9 DEF new, C

-----------------------------------------------------------------------------
(***************************************************************************)
(* Type correctness, and the shape of the stack: an activation that runs   *)
(* its loop has chosen nothing.                                            *)
(***************************************************************************)

LEMMA GoodEdgesProperties ==
  ASSUME TypeOK, NEW cand
  PROVE  /\ GoodEdges(cand) \subseteq uncov \cap can_hit
         /\ GoodEdges(cand) # {} => Least(GoodEdges(cand)) \in uncov \cap can_hit
<1>1. GoodEdges(cand) \subseteq uncov \cap can_hit
  BY DEF GoodEdges
<1>2. uncov \subseteq Nat
  BY HyperGraphProperties DEF TypeOK
<1>3. GoodEdges(cand) \in SUBSET Nat
  BY <1>1, <1>2
<1> QED
  BY <1>1, <1>3, LeastProperties

\* What a step of the innermost activation has to go by.
LEMMA ActiveProperties ==
  ASSUME TypeOK, stack # <<>>
  PROVE  /\ Len(stack) \in Nat \ {0}
         /\ Len(stack) \in 1 .. Len(stack)
         /\ active = stack[Len(stack)]
         /\ active \in Frames
         /\ active.todo # {} => Least(active.todo) \in active.todo
         /\ \A v \in active.todo : v # NoVertex
         /\ \A f \in Frames :
              /\ WithTop(stack, f) \in Seq(Frames)
              /\ WithTop(stack, f) # <<>>
              /\ Len(WithTop(stack, f)) = Len(stack)
              /\ Top(WithTop(stack, f)) = f
              /\ WithTop(stack, f)[Len(stack)] = f
              /\ \A i \in 1 .. Len(stack) - 1 : WithTop(stack, f)[i] = stack[i]
<1>1. stack \in Seq(Frames)
  BY DEF TypeOK
<1>2. /\ Len(stack) \in 1 .. Len(stack) /\ Len(stack) \in Nat
      /\ active = stack[Len(stack)] /\ active \in Frames
  BY <1>1, TopProperties DEF active
<1>3. active.todo \in SUBSET Nat /\ NoVertex \notin active.todo
  <2>1. active.todo \subseteq Vertices(hyper_graph)
    BY <1>2 DEF Frames
  <2> QED
    BY <2>1, HyperGraphProperties DEF TypeOK
<1>4. ASSUME NEW f \in Frames
      PROVE  /\ WithTop(stack, f) \in Seq(Frames)
             /\ WithTop(stack, f) # <<>>
             /\ Len(WithTop(stack, f)) = Len(stack)
             /\ Top(WithTop(stack, f)) = f
             /\ WithTop(stack, f)[Len(stack)] = f
             /\ \A i \in 1 .. Len(stack) - 1 : WithTop(stack, f)[i] = stack[i]
  <2>1. f \in Frames /\ stack # <<>>
    OBVIOUS
  <2>2. /\ WithTop(stack, f) \in Seq(Frames)
        /\ Len(WithTop(stack, f)) = Len(stack)
        /\ WithTop(stack, f)[Len(stack)] = f
        /\ \A i \in 1 .. Len(stack) - 1 : WithTop(stack, f)[i] = stack[i]
        /\ WithTop(stack, f) # <<>>
    BY ONLY <1>1, <2>1, WithTopProperties
  <2>3. Top(WithTop(stack, f)) = f
    BY ONLY <2>2 DEF Top
  <2> QED
    BY ONLY <2>2, <2>3
<1>5. active.todo # {} => Least(active.todo) \in active.todo
  BY <1>3, LeastProperties
<1> QED
  BY <1>2, <1>3, <1>4, <1>5

LEMMA TypeInit == Init => TypeOK /\ Shape
<1> SUFFICES ASSUME Init PROVE TypeOK /\ Shape
  OBVIOUS
<1>1. args \in Args
  BY DEF Init, Args, Crits
<1>2. TypeOK
  BY <1>1 DEF Init, TypeOK
<1> QED
  BY <1>2 DEF Init, Shape

LEMMA TypeNext ==
  TypeOK /\ Shape /\ [Next]_vars => (TypeOK /\ Shape)'
<1> SUFFICES ASSUME TypeOK, Shape, [Next]_vars PROVE (TypeOK /\ Shape)'
  OBVIOUS
<1> USE DEF given
<1>1. /\ stack \in Seq(Frames) /\ args \in Args
      /\ args.cand \subseteq Vertices(hyper_graph) /\ args.crit \in Crits
      /\ cur \subseteq Vertices(hyper_graph)
      /\ uncov \subseteq EdgeIds(hyper_graph) /\ can_hit \subseteq EdgeIds(hyper_graph)
  BY DEF TypeOK, Args
<1>2. NoArgs \in Args
  BY DEF NoArgs, Args, Crits
<1>3. CASE Found
  <2>1. output' \in Seq(SUBSET Vertices(hyper_graph)) /\ total_num' \in Nat
    <3>1. /\ output \in Seq(SUBSET Vertices(hyper_graph)) /\ total_num \in Nat
          /\ cur \in SUBSET Vertices(hyper_graph)
      BY DEF TypeOK
    <3>2. \/ total_num' = total_num + 1 /\ output' = Append(output, cur)
          \/ total_num' = total_num /\ output' = output
      BY <1>3 DEF Found
    <3> QED
      BY ONLY <3>1, <3>2
  <2> QED
    BY <1>2, <1>3, <2>1 DEF Found, TypeOK, Shape, Args, Frames, Crits
<1>4. CASE GiveUp
  BY <1>2, <1>4 DEF GiveUp, TypeOK, Shape, Args, Frames, Crits
<1>5. CASE Expand
  <2> DEFINE e == Least(GoodEdges(args.cand))
             c == args.cand \cap hyper_graph[e]
             rest == args.cand \ c
             f == [cand |-> rest, todo |-> c, crit |-> args.crit,
                   can_hit |-> can_hit, v |-> NoVertex, back |-> {}]
  <2>1. e \in EdgeIds(hyper_graph)
    BY <1>1, <1>5, GoodEdgesProperties DEF Expand
  <2>2. f \in Frames
    BY <1>1 DEF Frames
  <2>3. /\ next_edge' = e /\ stack' = Append(stack, f)
        /\ \/ /\ can_hit' = CanHitWith(rest) /\ args' = [args EXCEPT !.cand = rest]
              /\ pc' = "call"
           \/ can_hit' = can_hit /\ args' = NoArgs /\ pc' = "loop"
    BY <1>5 DEF Expand
  <2>4. [args EXCEPT !.cand = rest] \in Args
    BY <1>1 DEF Args
  <2>5. CanHitWith(rest) \subseteq EdgeIds(hyper_graph)
    BY <1>1 DEF CanHitWith
  <2>6. Append(stack, f) \in Seq(Frames) /\ Append(stack, f) # <<>>
        /\ Top(Append(stack, f)) = f
    <3> HIDE DEF f
    <3>1. /\ Append(stack, f) \in Seq(Frames)
          /\ Len(Append(stack, f)) = Len(stack) + 1
          /\ Append(stack, f)[Len(stack) + 1] = f
          /\ Append(stack, f) # <<>>
      BY <1>1, <2>2, PushProperties
    <3> QED
      BY <3>1 DEF Top
  <2>7. f.v = NoVertex
    OBVIOUS
  <2> HIDE DEF f, e, c, rest
  <2>8. TypeOK'
    BY <1>2, <1>5, <2>1, <2>3, <2>4, <2>5, <2>6 DEF Expand, TypeOK, Args, Frames, Crits
  <2>9. Shape'
    BY <2>3, <2>6, <2>7 DEF Shape, active
  <2> QED
    BY <2>8, <2>9
<1>6. CASE ReturnSkip
  <2>1. active.can_hit \subseteq EdgeIds(hyper_graph)
    BY <1>6, ActiveProperties DEF ReturnSkip, Frames
  <2> QED
    BY <1>6, <2>1 DEF ReturnSkip, TypeOK, Shape, active, Args, Frames, Crits
<1>7. CASE SkipVertex
  <2> DEFINE f == [active EXCEPT !.todo = @ \ {Least(active.todo)}]
  <2>1. stack # <<>>
    BY <1>7 DEF SkipVertex, Shape
  <2>2. f \in Frames /\ f.v = NoVertex
    BY <1>7, <2>1, ActiveProperties DEF SkipVertex, Shape, Frames
  <2>3. stack' = WithTop(stack, f)
    BY <1>7 DEF SkipVertex
  <2> HIDE DEF f
  <2>4. stack' \in Seq(Frames) /\ stack' # <<>> /\ active' = f
    BY <2>1, <2>2, <2>3, ActiveProperties DEF active
  <2> QED
    BY <1>7, <2>2, <2>4 DEF SkipVertex, TypeOK, Shape, Args, Frames, Crits
<1>8. CASE Descend
  <2> DEFINE v == Least(active.todo)
             back == NewCrit(hyper_graph, uncov, v)
             f == [active EXCEPT !.todo = @ \ {v}, !.v = v, !.back = back]
  <2>1. stack # <<>> /\ active.todo # {} /\ active \in Frames /\ v \in active.todo
    BY <1>8, ActiveProperties DEF Descend, Shape
  <2>2. v \in Vertices(hyper_graph) /\ active.crit \in Seq(SUBSET EdgeIds(hyper_graph))
        /\ active.cand \subseteq Vertices(hyper_graph)
    BY <2>1 DEF Frames, Crits
  <2>3. /\ cur' = Flip(cur, v) /\ uncov' = UpdatedUncov(hyper_graph, uncov, v)
        /\ args' = [cand |-> active.cand,
                    crit |-> UpdatedCrit(hyper_graph, active.crit, uncov, v)]
        /\ stack' = WithTop(stack, f) /\ pc' = "call"
    BY <1>8 DEF Descend
  <2>4. back \subseteq EdgeIds(hyper_graph)
    BY <1>1 DEF NewCrit
  <2>5. f \in Frames
    <3> HIDE DEF v, back
    <3> QED
      BY <2>1, <2>2, <2>4 DEF Frames
  <2> HIDE DEF v, back, f
  <2>6. UpdatedCrit(hyper_graph, active.crit, uncov, v) \in Seq(SUBSET EdgeIds(hyper_graph))
    BY <2>2, UpdatedCritProperties DEF TypeOK
  <2>7. args' \in Args
    BY <2>2, <2>3, <2>6 DEF Args, Crits
  <2>8. cur' \subseteq Vertices(hyper_graph) /\ uncov' \subseteq EdgeIds(hyper_graph)
    BY <1>1, <2>2, <2>3 DEF Flip, UpdatedUncov
  <2>9. stack' \in Seq(Frames)
    BY <2>1, <2>3, <2>5, ActiveProperties
  <2> QED
    BY <1>8, <2>3, <2>7, <2>8, <2>9 DEF Descend, TypeOK, Shape, Args, Frames, Crits
<1>9. CASE ReturnVertex
  <2> DEFINE f == [active EXCEPT !.cand = @ \cup {active.v}, !.v = NoVertex,
                                 !.back = {}]
  <2>1. /\ stack # <<>> /\ active.v # NoVertex
        /\ cur' = Flip(cur, active.v) /\ uncov' = uncov \cup active.back
        /\ stack' = WithTop(stack, f) /\ pc' = "loop"
    BY <1>9 DEF ReturnVertex
  <2>2. active \in Frames /\ active.v \in Vertices(hyper_graph)
        /\ active.back \subseteq EdgeIds(hyper_graph)
    BY <2>1, ActiveProperties DEF Frames
  <2>3. f \in Frames /\ f.v = NoVertex
    BY <2>2 DEF Frames
  <2> HIDE DEF f
  <2>4. stack' \in Seq(Frames) /\ stack' # <<>> /\ active' = f
    BY <2>1, <2>3, ActiveProperties DEF active
  <2>5. cur' \subseteq Vertices(hyper_graph) /\ uncov' \subseteq EdgeIds(hyper_graph)
    BY <1>1, <2>1, <2>2 DEF Flip
  <2> QED
    BY <1>9, <2>1, <2>3, <2>4, <2>5 DEF ReturnVertex, TypeOK, Shape, Args, Frames, Crits
<1>10. CASE Leave
  <2>1. stack # <<>>
    BY <1>10 DEF Leave, Shape
  <2>2. Popped(stack) \in Seq(Frames)
    BY <1>1, <2>1, PoppedProperties
  <2> QED
    BY <1>10, <2>2 DEF Leave, TypeOK, Shape, Args, Frames, Crits
<1>11. CASE Finish
  BY <1>11 DEF Finish, TypeOK, Shape, Args, Frames, Crits
<1>12. CASE UNCHANGED vars
  BY <1>12 DEF vars, TypeOK, Shape, active, Args, Frames, Crits
<1> QED
  BY <1>3, <1>4, <1>5, <1>6, <1>7, <1>8, <1>9, <1>10, <1>11, <1>12
  DEF Next, Terminated

-----------------------------------------------------------------------------
(***************************************************************************)
(* The invariant.  One lemma per action; Findable is what an action needs  *)
(* that must not lose a minimal cover.                                     *)
(***************************************************************************)

\* There is an edge, and the method is one that finds it.
Findable == method # "PRIORITY" /\ EdgeNum(hyper_graph) > 0

LEMMA StateProperties ==
  ASSUME IInv
  PROVE  /\ Len(stack) \in Nat
         /\ NoVertex \notin cur
         /\ cur \in SUBSET Vertices(hyper_graph)
         /\ IsFiniteSet(EdgeIds(hyper_graph))
         /\ EdgeNum(hyper_graph) \in Nat
         /\ theta \in Nat
         /\ \A i \in 1 .. Len(stack) : FrameOK(hyper_graph, cur, stack, i)
         /\ \A i \in 1 .. Len(stack) + 1 :
              Left(cur, stack, i) = ChosenBefore(stack, i)
<1>1. /\ stack \in Seq(Frames) /\ cur \subseteq Vertices(hyper_graph)
      /\ hyper_graph \in HyperGraphs /\ theta \in Thetas
  BY DEF IInv, TypeOK
<1>2. Len(stack) \in Nat
  BY <1>1
<1>3. \A i \in 1 .. Len(stack) : FrameOK(hyper_graph, cur, stack, i)
  BY DEF IInv, ActivationsOK
<1>4. cur = ChosenBefore(stack, Len(stack) + 1)
  BY DEF IInv, MembersOK
<1>5. \A i \in 1 .. Len(stack) + 1 : Left(cur, stack, i) = ChosenBefore(stack, i)
  BY ONLY <1>2, <1>3, <1>4, LeftIsChosen
<1>6. theta \in Nat
  BY <1>1, ThetasAssumption
<1> QED
  BY <1>1, <1>2, <1>3, <1>5, <1>6, HyperGraphProperties

\* A step that emits nothing splits what is left to try.
LEMMA NothingEmitted ==
  ASSUME IInv, UNCHANGED <<given, output>>,
         NoOverlap(cur', stack', Calls'),
         Whole(cur', stack', Calls') \subseteq Whole(cur, stack, Calls)
  PROVE  /\ SearchOK' /\ OutputsOK'
         /\ MinimalCovers(hyper_graph, theta) \cap Whole(cur, stack, Calls)
              \subseteq Whole(cur', stack', Calls')
              => (NothingMissed => NothingMissed')
<1>1. /\ Emitted' = Emitted
      /\ MinimalCovers(hyper_graph, theta)' = MinimalCovers(hyper_graph, theta)
  BY DEF given, Emitted, MinimalCovers, IsApproximateCover, Uncovered, EdgeNum,
         EdgeIds, Vertices
<1>2. OutputsOK'
  BY <1>1 DEF IInv, OutputsOK
<1>3. SearchOK'
  BY <1>1 DEF IInv, SearchOK
<1>4. MinimalCovers(hyper_graph, theta) \cap Whole(cur, stack, Calls)
        \subseteq Whole(cur', stack', Calls')
        => (NothingMissed => NothingMissed')
  BY <1>1 DEF NothingMissed
<1> QED
  BY <1>2, <1>3, <1>4

LEMMA SteppedSearch ==
  ASSUME IInv, UNCHANGED <<given, output>>, NEW lost,
         Stepped(hyper_graph, cur, stack, Calls, cur', stack', Calls', lost)
  PROVE  /\ \A i \in 1 .. Len(stack') : FrameOK(hyper_graph, cur', stack', i)
         /\ SearchOK' /\ OutputsOK'
         /\ MinimalCovers(hyper_graph, theta) \cap lost = {}
              => (NothingMissed => NothingMissed')
<1>1. /\ NoOverlap(cur', stack', Calls')
      /\ Whole(cur', stack', Calls') \subseteq Whole(cur, stack, Calls)
      /\ Whole(cur, stack, Calls) \subseteq Whole(cur', stack', Calls') \cup lost
  BY DEF IInv, SearchOK, Stepped, Narrowed
<1>2. /\ SearchOK' /\ OutputsOK'
      /\ MinimalCovers(hyper_graph, theta) \cap Whole(cur, stack, Calls)
           \subseteq Whole(cur', stack', Calls')
           => (NothingMissed => NothingMissed')
  BY <1>1, NothingEmitted
<1> QED
  BY <1>1, <1>2 DEF Stepped

LEMMA FoundStep ==
  ASSUME IInv, Found, TypeOK', Shape'
  PROVE  IInv' /\ (NothingMissed => NothingMissed')
<1> DEFINE g == hyper_graph
           calls == Within(cur, args.cand)
<1>1. /\ pc = "call" /\ pc' = "return" /\ Tolerated(Cardinality(uncov))
      /\ hyper_graph' = g /\ theta' = theta /\ cur' = cur /\ uncov' = uncov
      /\ can_hit' = can_hit /\ stack' = stack
      /\ \/ IsMinimal(args.crit) /\ output' = Append(output, cur)
         \/ ~IsMinimal(args.crit) /\ output' = output
  BY DEF Found, given
<1>2. MembersOK' /\ ActivationsOK' /\ GivenUpOK'
  BY <1>1 DEF IInv, MembersOK, ActivationsOK, GivenUpOK
<1>3. CallOK' /\ CanHitOK' /\ Calls' = {} /\ Calls = calls
  BY <1>1 DEF IInv, CallOK, CanHitOK, active, Calls
<1>4. /\ NoOverlap(cur, stack, {})
      /\ Whole(cur, stack, {}) \cap calls = {}
      /\ Whole(cur, stack, calls) = Whole(cur, stack, {}) \cup calls
      /\ Whole(cur, stack, calls) \cap Emitted = {}
  <2>1. NoOverlap(cur, stack, calls) /\ Whole(cur, stack, calls) \cap Emitted = {}
    BY <1>3 DEF IInv, SearchOK
  <2> HIDE DEF calls
  <2> QED
    BY <2>1, CallDone
<1>5. cur \in calls
  BY DEF Within
<1>6. MinimalCovers(g, theta)' = MinimalCovers(g, theta)
  BY <1>1 DEF MinimalCovers, IsApproximateCover, Uncovered, EdgeNum, EdgeIds, Vertices
<1>7. /\ uncov = Uncovered(g, cur) /\ IsApproximateCover(g, theta, cur)
      /\ EdgeNum(g) > 0
  BY <1>1 DEF IInv, MembersOK, Tolerated, IsApproximateCover
<1>8. cur \in MinimalCovers(g, theta) <=> IsMinimal(args.crit)
  <2>1. HoldsCritical(g, cur, args.crit)
    BY <1>1 DEF IInv, CallOK
  <2>2. cur \in MinimalCovers(g, theta) <=>
           \A k \in 1 .. Len(args.crit) :
             ~(100 * (Cardinality(Uncovered(g, cur)) + Cardinality(args.crit[k]))
                 <= theta * EdgeNum(g))
    <3>1. /\ IsFiniteSet(EdgeIds(g)) /\ theta \in Nat
          /\ cur \in SUBSET Vertices(g)
      BY StateProperties
    <3> HIDE DEF g
    <3> QED
      BY ONLY <1>7, <2>1, <3>1, MinimalByCritical
  <2> QED
    BY <1>7, <2>2 DEF IsMinimal, Tolerated
<1>9. MinimalCovers(g, theta) \cap calls \subseteq {cur}
  <2>1. IsFiniteSet(EdgeIds(g)) /\ theta \in Nat
    BY StateProperties
  <2> HIDE DEF g
  <2> QED
    BY ONLY <1>7, <2>1, FoundWithin
<1> HIDE DEF g, calls
<1>10. CASE IsMinimal(args.crit) /\ output' = Append(output, cur)
  <2>1. /\ Emitted' = Emitted \cup {cur}
        /\ cur \notin Emitted /\ NoneTwice(output) => NoneTwice(output')
    <3>1. output \in Seq(SUBSET Vertices(hyper_graph)) /\ cur \in SUBSET Vertices(hyper_graph)
      BY DEF IInv, TypeOK
    <3> QED
      BY <1>10, <3>1, PushedOnce DEF Emitted
  <2>2. cur \notin Emitted
    BY <1>4, <1>5
  <2>3. OutputsOK'
    BY <1>6, <1>8, <1>10, <2>1, <2>2 DEF IInv, OutputsOK, g
  <2>4. SearchOK'
    BY <1>1, <1>3, <1>4, <1>5, <2>1 DEF SearchOK
  <2>5. NothingMissed => NothingMissed'
    BY <1>1, <1>3, <1>4, <1>6, <1>9, <2>1 DEF NothingMissed, g
  <2> QED
    BY <1>2, <1>3, <2>3, <2>4, <2>5 DEF IInv
<1>11. CASE ~IsMinimal(args.crit) /\ output' = output
  <2>1. Emitted' = Emitted
    BY <1>11 DEF Emitted
  <2>2. OutputsOK'
    BY <1>6, <1>11, <2>1 DEF IInv, OutputsOK, g
  <2>3. SearchOK'
    BY <1>1, <1>3, <1>4, <2>1 DEF SearchOK
  <2>4. NothingMissed => NothingMissed'
    BY <1>1, <1>3, <1>4, <1>6, <1>8, <1>9, <1>11, <2>1 DEF NothingMissed, g
  <2> QED
    BY <1>2, <1>3, <2>2, <2>3, <2>4 DEF IInv
<1> QED
  BY <1>1, <1>10, <1>11

\* A method other than PRIORITY finds an edge as long as some unhit edge has
\* a candidate.
LEMMA GoodEdgesExist ==
  ASSUME TypeOK, method # "PRIORITY", NEW cand, GoodEdges(cand) = {}
  PROVE  \A e \in uncov \cap can_hit : hyper_graph[e] \cap cand = {}
<1> DEFINE open == uncov \cap can_hit
<1>1. SUFFICES ASSUME NEW e \in open, hyper_graph[e] \cap cand # {} PROVE FALSE
  OBVIOUS
<1>2. /\ open \subseteq EdgeIds(hyper_graph) /\ IsHyperGraph(hyper_graph)
      /\ method \in {"ORDER", "RANDOM", "MIN", "MAX"}
  BY MethodsAssumption, HyperGraphsAssumption DEF TypeOK
<1> DEFINE f == [x \in open |-> CandNum(cand, x)]
<1>3. f \in [open -> 0 .. MaxBit] /\ f \in [open -> Nat] /\ f[e] # 0
  <2>1. \A x \in open : CandNum(cand, x) \in 0 .. MaxBit /\ CandNum(cand, x) \in Nat
    <3> TAKE x \in open
    <3>1. CandNum(cand, x) \in 0 .. MaxBit
      BY <1>2, CandidateCount DEF CandNum
    <3> QED
      BY <3>1
  <2>2. CandNum(cand, e) # 0
    BY <1>1, <1>2, CandidateCount DEF CandNum
  <2> QED
    BY <2>1, <2>2
<1>4. CASE method \in {"ORDER", "RANDOM"}
  BY <1>4 DEF GoodEdges
<1>5. CASE method = "MIN"
  <2>1. PICK x \in open : \A y \in open : f[x] <= f[y]
    <3> HIDE DEF f, open
    <3> QED
      BY <1>3, CheapestExists
  <2>2. x \in GoodEdges(cand)
    BY <1>5, <2>1 DEF GoodEdges
  <2> QED
    BY <2>2
<1>6. CASE method = "MAX"
  <2>1. PICK x \in open : \A y \in open : f[x] >= f[y]
    <3>1. MaxBit \in Nat
      BY DEF MaxBit
    <3> HIDE DEF f, open
    <3> QED
      BY <1>3, <3>1, DearestExists
  <2>2. f[x] >= f[e] /\ f[x] \in Nat /\ f[e] \in Nat /\ f[e] # 0
    BY <1>3, <2>1
  <2>3. CandNum(cand, x) > 0
    BY <2>2
  <2>4. x \in GoodEdges(cand)
    BY <1>6, <2>1, <2>3 DEF GoodEdges
  <2> QED
    BY <2>4
<1> QED
  BY <1>2, <1>4, <1>5, <1>6

LEMMA GiveUpStep ==
  ASSUME IInv, GiveUp, TypeOK', Shape'
  PROVE  IInv' /\ (Findable /\ NothingMissed => NothingMissed')
<1> DEFINE g == hyper_graph
           calls == Within(cur, args.cand)
<1>1. /\ pc = "call" /\ pc' = "return" /\ ~Tolerated(Cardinality(uncov))
      /\ GoodEdges(args.cand) = {}
      /\ hyper_graph' = g /\ theta' = theta /\ cur' = cur /\ uncov' = uncov
      /\ can_hit' = can_hit /\ stack' = stack /\ output' = output
      /\ UNCHANGED <<given, output>>
  BY DEF GiveUp, given
<1>2. MembersOK' /\ ActivationsOK' /\ GivenUpOK'
  BY <1>1 DEF IInv, MembersOK, ActivationsOK, GivenUpOK
<1>3. CallOK' /\ CanHitOK' /\ Calls' = {} /\ Calls = calls
  BY <1>1 DEF IInv, CallOK, CanHitOK, active, Calls
<1>4. /\ NoOverlap(cur, stack, {})
      /\ Whole(cur, stack, calls) = Whole(cur, stack, {}) \cup calls
  <2>1. NoOverlap(cur, stack, calls)
    BY <1>3 DEF IInv, SearchOK
  <2> HIDE DEF calls
  <2> QED
    BY <2>1, CallDone
<1>5. ASSUME Findable
      PROVE  MinimalCovers(g, theta) \cap calls = {}
  <2>1. \A e \in uncov : g[e] \cap args.cand = {}
    <3>1. \A e \in uncov \cap can_hit : g[e] \cap args.cand = {}
      BY <1>1, <1>5, GoodEdgesExist DEF Findable, IInv
    <3>2. \A e \in uncov \ can_hit : g[e] \cap args.cand = {}
      BY <1>1 DEF IInv, CallOK
    <3> QED
      BY <3>1, <3>2
  <2>2. uncov = Uncovered(g, cur)
    BY DEF IInv, MembersOK
  <2>3. {e \in Uncovered(g, cur) : g[e] \cap args.cand = {}} = uncov
    BY <2>1, <2>2
  <2>4. ~(100 * Cardinality(uncov) <= theta * EdgeNum(g))
    BY <1>1, <1>5 DEF Tolerated, Findable
  <2>5. IsFiniteSet(EdgeIds(g)) /\ theta \in Nat
    BY StateProperties
  <2>6. ~(100 * Cardinality({e \in Uncovered(g, cur) : g[e] \cap args.cand = {}})
            <= theta * EdgeNum(g))
    BY ONLY <2>3, <2>4
  <2> HIDE DEF g
  <2> QED
    BY ONLY <2>5, <2>6, NothingWithin
<1>6. /\ NoOverlap(cur', stack', Calls')
      /\ Whole(cur', stack', Calls') \subseteq Whole(cur, stack, Calls)
      /\ Findable => MinimalCovers(hyper_graph, theta) \cap Whole(cur, stack, Calls)
           \subseteq Whole(cur', stack', Calls')
  <2>1. cur' = cur /\ stack' = stack /\ Calls' = {} /\ Calls = calls
    BY <1>1, <1>3
  <2> HIDE DEF calls
  <2> QED
    BY <1>4, <1>5, <2>1 DEF g
<1>7. /\ SearchOK' /\ OutputsOK'
      /\ Findable => (NothingMissed => NothingMissed')
  BY <1>1, <1>6, NothingEmitted
<1> QED
  BY <1>2, <1>3, <1>7 DEF IInv

LEMMA ReturnSkipStep ==
  ASSUME IInv, ReturnSkip, TypeOK', Shape'
  PROVE  IInv' /\ (NothingMissed => NothingMissed')
<1>1. /\ pc = "return" /\ pc' = "loop" /\ can_hit' = active.can_hit
      /\ stack # <<>> /\ active.v = NoVertex
      /\ hyper_graph' = hyper_graph /\ cur' = cur /\ uncov' = uncov
      /\ stack' = stack /\ UNCHANGED <<given, output>>
  BY DEF ReturnSkip, given
<1>2. MembersOK' /\ ActivationsOK' /\ GivenUpOK'
  BY <1>1 DEF IInv, MembersOK, ActivationsOK, GivenUpOK
<1>3. CallOK' /\ CanHitOK' /\ Calls' = {} /\ Calls = {}
  BY <1>1 DEF IInv, CallOK, CanHitOK, active, Calls
<1>4. /\ NoOverlap(cur', stack', Calls')
      /\ Whole(cur', stack', Calls') = Whole(cur, stack, Calls)
  BY <1>1, <1>3 DEF IInv, SearchOK
<1>5. SearchOK' /\ OutputsOK' /\ (NothingMissed => NothingMissed')
  BY <1>1, <1>4, NothingEmitted
<1> QED
  BY <1>2, <1>3, <1>5 DEF IInv

LEMMA FinishStep ==
  ASSUME IInv, Finish \/ UNCHANGED vars, TypeOK', Shape'
  PROVE  IInv' /\ (NothingMissed => NothingMissed')
<1>1. /\ \/ pc = "return" /\ pc' = "done"
         \/ pc' = pc /\ args' = args
      /\ can_hit' = can_hit
      /\ hyper_graph' = hyper_graph /\ cur' = cur /\ uncov' = uncov
      /\ stack' = stack /\ UNCHANGED <<given, output>>
  BY DEF Finish, given, vars
<1>2. MembersOK' /\ ActivationsOK' /\ GivenUpOK'
  BY <1>1 DEF IInv, MembersOK, ActivationsOK, GivenUpOK
<1>3. CallOK' /\ CanHitOK' /\ Calls' = Calls
  BY <1>1 DEF IInv, CallOK, CanHitOK, active, Calls
<1>4. /\ NoOverlap(cur', stack', Calls')
      /\ Whole(cur', stack', Calls') = Whole(cur, stack, Calls)
  BY <1>1, <1>3 DEF IInv, SearchOK
<1>5. SearchOK' /\ OutputsOK' /\ (NothingMissed => NothingMissed')
  BY <1>1, <1>4, NothingEmitted
<1> QED
  BY <1>2, <1>3, <1>5 DEF IInv

\* The edge is skipped first: the call without its vertices, if there is one,
\* and the loop over its vertices share what the call was to try.
LEMMA ExpandStep ==
  ASSUME IInv, Expand, TypeOK', Shape'
  PROVE  IInv' /\ (Findable /\ NothingMissed => NothingMissed')
<1> DEFINE g == hyper_graph
           s == stack
           d == Len(stack)
           e == Least(GoodEdges(args.cand))
           c == args.cand \cap hyper_graph[e]
           rest == args.cand \ c
           f == [cand |-> rest, todo |-> c, crit |-> args.crit,
                 can_hit |-> can_hit, v |-> NoVertex, back |-> {}]
           t == Append(s, f)
           calls == Within(cur, args.cand)
           calls2 == IF WillCover(rest) THEN Within(cur, rest) ELSE {}
<1>1. /\ pc = "call" /\ hyper_graph' = g /\ theta' = theta /\ cur' = cur
      /\ uncov' = uncov /\ stack' = t /\ UNCHANGED <<given, output>>
      /\ \/ /\ WillCover(rest) /\ can_hit' = CanHitWith(rest)
            /\ args' = [args EXCEPT !.cand = rest] /\ pc' = "call"
         \/ /\ ~WillCover(rest) /\ can_hit' = can_hit
            /\ args' = NoArgs /\ pc' = "loop"
  BY DEF Expand, given
<1>2. args \in Args /\ s \in Seq(Frames)
  BY DEF IInv, TypeOK
<1>3. f \in Frames
  <2>1. rest \subseteq Vertices(g) /\ c \subseteq Vertices(g)
        /\ args.crit \in Crits /\ can_hit \subseteq EdgeIds(g)
    BY <1>2 DEF IInv, TypeOK, Args
  <2> QED
    BY <2>1 DEF Frames
<1>4. /\ f.cand = args.cand \ c /\ f.todo = c /\ f.crit = args.crit
      /\ f.can_hit = can_hit /\ f.v = NoVertex /\ f.back = {}
      /\ c \in SUBSET args.cand /\ rest = args.cand \ c
  OBVIOUS
<1>5. /\ args.cand \cap cur = {} /\ HoldsCritical(g, cur, args.crit)
      /\ CritExact(g, s, d + 1, args.crit)
      /\ \A x \in uncov \ can_hit : g[x] \cap args.cand = {}
  BY <1>1 DEF IInv, CallOK
<1>6. /\ d \in Nat /\ NoVertex \notin cur
      /\ \A i \in 1 .. d : FrameOK(g, cur, s, i)
      /\ IsFiniteSet(EdgeIds(g)) /\ theta \in Nat
  BY StateProperties
<1>7. /\ Len(t) = d + 1 /\ t[d + 1] = f /\ \A i \in 1 .. d : t[i] = s[i]
      /\ t # <<>> /\ Top(t) = f
  <2> HIDE DEF f
  <2>1. /\ Len(t) = d + 1 /\ t[d + 1] = f /\ \A i \in 1 .. d : t[i] = s[i]
        /\ t # <<>>
    BY <1>2, <1>3, PushProperties
  <2> QED
    BY <2>1 DEF Top
<1> HIDE DEF f, e, c, rest, calls, calls2
<1> DEFINE lost == Within(cur, rest) \ calls2
<1>8. Stepped(g, cur, s, calls, cur, t, calls2, lost)
  <2>1. PICK F, x, crit, cand, y, b, w, h, k2 :
          /\ x = s /\ x \in Seq(F) /\ crit = args.crit /\ cand = args.cand
          /\ y = f /\ y \in F /\ b = cur /\ w = c /\ h = g /\ k2 = calls2
    BY <1>2, <1>3
  <2>2. /\ NoVertex \notin b /\ cand \cap b = {} /\ HoldsCritical(h, b, crit)
        /\ w \in SUBSET cand
        /\ y.cand = cand \ w /\ y.todo = w /\ y.crit = crit
        /\ y.v = NoVertex /\ y.back = {}
        /\ \A i \in 1 .. Len(x) : FrameOK(h, b, x, i)
    BY <1>4, <1>5, <1>6, <2>1
  <2>3. k2 \in SUBSET Within(b, cand \ w)
    BY <1>4, <2>1 DEF calls2
  <2>4. x \in Seq(F) /\ y \in F
    BY <2>1
  <2>5. Stepped(h, b, x, Within(b, cand), b, Append(x, y), k2,
                Within(b, cand \ w) \ k2)
    BY ONLY <2>2, <2>3, <2>4, PushStep
  <2> QED
    BY <1>4, <2>1, <2>5 DEF calls
<1> HIDE DEF lost
<1>c. ChosenBefore(t, d + 1) = ChosenBefore(s, d + 1)
  <2>1. \A j \in 1 .. (d + 1) - 1 : t[j].v = s[j].v
    BY <1>6, <1>7
  <2> HIDE DEF t, d, s
  <2> QED
    BY ONLY <2>1, ChosenUnchanged
<1>9. MembersOK'
  <2>1. d + 1 \in Nat \ {0} /\ t[d + 1].v = NoVertex
    BY <1>4, <1>6, <1>7
  <2>2. ChosenBefore(t, (d + 1) + 1) = ChosenBefore(t, d + 1)
    <3> HIDE DEF t, d
    <3> QED
      BY ONLY <2>1, ChosenNext
  <2> QED
    BY <1>1, <1>7, <1>c, <2>2 DEF IInv, MembersOK
<1>10. \A i \in 1 .. d + 1 : \A crit : CritExact(g, s, i, crit) => CritExact(g, t, i, crit)
  <2> TAKE i \in 1 .. d + 1
  <2> TAKE crit
  <2>1. i \in Nat /\ \A j \in 1 .. i - 1 : t[j].v = s[j].v
    BY <1>6, <1>7
  <2> HIDE DEF g, s, t
  <2> QED
    BY <2>1, CritExactUnchanged
<1>11. ActivationsOK'
  <2>1. ASSUME NEW i \in 1 .. d + 1 PROVE CritExact(g, t, i, t[i].crit)
    <3>1. CASE i \in 1 .. d
      BY <1>7, <1>10, <2>1, <3>1 DEF IInv, ActivationsOK
    <3>2. CASE i = d + 1
      BY <1>4, <1>5, <1>6, <1>7, <1>10, <3>2
    <3> QED
      BY <1>6, <3>1, <3>2
  <2>2. \A i \in 1 .. Len(t) : FrameOK(g, cur, t, i)
    BY <1>8 DEF Stepped
  <2> QED
    BY <1>1, <1>7, <2>1, <2>2 DEF ActivationsOK
<1>12. CanHitOK'
  <2>1. active' = f
    BY <1>1, <1>7 DEF active
  <2>2. pc' = "loop" => can_hit' = f.can_hit
    BY <1>1, <1>4
  <2>3. ASSUME NEW i \in 1 .. d, t[i].v # NoVertex
        PROVE  t[i + 1].can_hit = t[i].can_hit
    <3>1. CASE i \in 1 .. d - 1
      <4>1. i + 1 \in 1 .. d
        BY <1>6, <3>1
      <4> QED
        BY <1>7, <2>3, <3>1, <4>1 DEF IInv, CanHitOK
    <3>2. CASE i = d
      <4>1. s # <<>> /\ active = s[d]
        BY <1>6, <3>2 DEF active, Top
      <4>2. can_hit = s[d].can_hit
        BY <1>7, <2>3, <3>2, <4>1 DEF IInv, CanHitOK
      <4> QED
        BY <1>4, <1>7, <3>2, <4>2
    <3> QED
      BY <1>6, <3>1, <3>2
  <2>4. (d + 1) - 1 = d
    BY <1>6
  <2> QED
    BY <1>1, <1>4, <1>7, <2>1, <2>2, <2>3, <2>4 DEF CanHitOK
<1>13. GivenUpOK'
  <2>1. ASSUME NEW i \in 1 .. d PROVE GivenUp(g, t, i)
    <3>1. GivenUp(g, s, i) /\ t[i] = s[i] /\ \A j \in 1 .. i - 1 : t[j].v = s[j].v
      BY <1>6, <1>7 DEF IInv, GivenUpOK
    <3>2. ChosenBefore(t, i) = ChosenBefore(s, i)
      BY ONLY <3>1, ChosenUnchanged
    <3> QED
      BY <3>1, <3>2 DEF GivenUp
  <2>2. GivenUp(g, t, d + 1)
    <3>1. uncov = Uncovered(g, cur) /\ cur = ChosenBefore(s, d + 1)
      BY DEF IInv, MembersOK
    <3>2. ChosenBefore(t, d + 1) = ChosenBefore(s, d + 1)
      BY <1>c
    <3>3. \A x \in uncov : g[x] \subseteq Vertices(g)
      BY HyperGraphProperties DEF IInv, TypeOK
    <3>4. NoVertex \notin Vertices(g)
      BY HyperGraphProperties DEF IInv, TypeOK
    <3>5. f.cand \cup f.todo = args.cand
      BY <1>4
    <3>6. \A x \in uncov \ can_hit : g[x] \cap (f.cand \cup f.todo \cup {f.v}) = {}
      BY <1>4, <1>5, <3>3, <3>4, <3>5
    <3> QED
      BY <1>4, <1>7, <3>1, <3>2, <3>6 DEF GivenUp
  <2> QED
    BY <1>1, <1>6, <1>7, <2>1, <2>2 DEF GivenUpOK
<1>14. CallOK'
  <2> SUFFICES ASSUME pc' = "call" PROVE CallOK'
    BY DEF CallOK
  <2>1. /\ can_hit' = CanHitWith(rest) /\ args'.cand = rest
        /\ args'.crit = args.crit
    BY <1>1, <1>2 DEF Args
  <2>2. rest \cap cur = {}
    BY <1>4, <1>5
  <2>3. CritExact(g, t, (d + 1) + 1, args.crit)
    <3>1. CritExact(g, t, d + 1, args.crit)
      BY <1>5, <1>6, <1>10
    <3>2. d + 1 \in Nat \ {0} /\ t[d + 1].v = NoVertex
      BY <1>4, <1>6, <1>7
    <3> HIDE DEF g, t
    <3> QED
      BY <3>1, <3>2, CritExactSkipped
  <2>4. \A x \in uncov \ can_hit' : g[x] \cap rest = {}
    BY <1>4, <1>5, <2>1 DEF CanHitWith
  <2> QED
    BY <1>1, <1>5, <1>7, <2>1, <2>2, <2>3, <2>4 DEF CallOK
<1>15. Calls = calls /\ Calls' = calls2
  <2>1. Calls = calls
    BY <1>1 DEF Calls, calls
  <2>2. CASE WillCover(rest)
    <3>1. args'.cand = rest /\ pc' = "call"
      BY <1>1, <1>2, <2>2 DEF Args
    <3> QED
      BY <1>1, <2>1, <2>2, <3>1 DEF Calls, calls2
  <2>3. CASE ~WillCover(rest)
    BY <1>1, <2>1, <2>3 DEF Calls, calls2
  <2> QED
    BY <2>2, <2>3
<1>16. ASSUME Findable
       PROVE  MinimalCovers(g, theta) \cap lost = {}
  <2>1. CASE WillCover(rest)
    BY <2>1 DEF calls2, lost
  <2>2. CASE ~WillCover(rest)
    <3>1. uncov = Uncovered(g, cur)
      BY DEF IInv, MembersOK
    <3>2. ~(100 * Cardinality({x \in Uncovered(g, cur) : g[x] \cap rest = {}})
              <= theta * EdgeNum(g))
      BY <1>16, <2>2, <3>1 DEF WillCover, Tolerated, Findable
    <3>3. MinimalCovers(g, theta) \cap Within(cur, rest) = {}
      <4> HIDE DEF g
      <4> QED
        BY ONLY <1>6, <3>2, NothingWithin
    <3> QED
      BY <3>3 DEF lost
  <2> QED
    BY <2>1, <2>2
<1>17. Stepped(hyper_graph, cur, stack, Calls, cur', stack', Calls', lost)
  BY ONLY <1>1, <1>8, <1>15 DEF g, s
<1>18. /\ SearchOK' /\ OutputsOK'
       /\ Findable => (NothingMissed => NothingMissed')
  BY ONLY IInv, <1>1, <1>16, <1>17, SteppedSearch DEF g
<1> QED
  BY <1>9, <1>11, <1>12, <1>13, <1>14, <1>18 DEF IInv

\* A step of the innermost activation that neither changes its crit and its
\* can_hit nor gives it a vertex it had not: all that is about the
\* activations it leaves alone.
LEMMA TopChanged ==
  ASSUME IInv, stack # <<>>, NEW f \in Frames,
         f.crit = active.crit, f.can_hit = active.can_hit,
         f.cand \cup f.todo \cup {f.v}
           \subseteq active.cand \cup active.todo \cup {active.v, NoVertex},
         NEW t, t = WithTop(stack, f)
  PROVE  /\ Len(t) = Len(stack) /\ t # <<>> /\ Top(t) = f /\ t[Len(stack)] = f
         /\ \A i \in 1 .. Len(stack) :
              /\ ChosenBefore(t, i) = ChosenBefore(stack, i)
              /\ CritExact(hyper_graph, t, i, t[i].crit)
              /\ GivenUp(hyper_graph, t, i)
         /\ \A i \in 1 .. Len(stack) - 1 :
              t[i].v # NoVertex => t[i + 1].can_hit = t[i].can_hit
<1> DEFINE g == hyper_graph
           s == stack
           d == Len(stack)
<1>1. /\ d \in Nat \ {0} /\ d \in 1 .. d /\ active = s[d]
      /\ t # <<>> /\ Len(t) = d /\ Top(t) = f /\ t[d] = f
      /\ \A i \in 1 .. d - 1 : t[i] = s[i]
  BY ActiveProperties DEF IInv
<1> HIDE DEF d
<1>2. ASSUME NEW i \in 1 .. d
      PROVE  /\ t[i].crit = s[i].crit /\ t[i].can_hit = s[i].can_hit
             /\ t[i].cand \cup t[i].todo \cup {t[i].v}
                  \subseteq s[i].cand \cup s[i].todo \cup {s[i].v, NoVertex}
  <2>1. CASE i = d
    BY <1>1, <2>1
  <2>2. CASE i \in 1 .. d - 1
    BY <1>1, <2>2
  <2> QED
    BY <1>1, <2>1, <2>2
<1>3. ASSUME NEW i \in 1 .. d
      PROVE  /\ ChosenBefore(t, i) = ChosenBefore(s, i)
             /\ \A crit : CritExact(g, s, i, crit) => CritExact(g, t, i, crit)
  <2>1. i \in Nat /\ \A j \in 1 .. i - 1 : t[j].v = s[j].v
    BY <1>1
  <2>2. ChosenBefore(t, i) = ChosenBefore(s, i)
    BY ONLY <2>1, ChosenUnchanged
  <2>3. ASSUME NEW crit, CritExact(g, s, i, crit) PROVE CritExact(g, t, i, crit)
    <3> HIDE DEF g, s
    <3> QED
      BY ONLY <2>1, <2>3, CritExactUnchanged
  <2> QED
    BY <2>2, <2>3
<1>4. ASSUME NEW i \in 1 .. d
      PROVE  CritExact(g, t, i, t[i].crit) /\ GivenUp(g, t, i)
  <2>1. CritExact(g, s, i, s[i].crit) /\ GivenUp(g, s, i)
    BY DEF IInv, ActivationsOK, GivenUpOK, d
  <2>2. \A e \in EdgeIds(g) : NoVertex \notin g[e]
    BY HyperGraphProperties DEF IInv, TypeOK
  <2>3. CritExact(g, t, i, t[i].crit)
    BY <1>2, <1>3, <2>1
  <2>4. \A e \in Uncovered(g, ChosenBefore(s, i)) \ s[i].can_hit :
          g[e] \cap (t[i].cand \cup t[i].todo \cup {t[i].v}) = {}
    BY <1>2, <2>1, <2>2 DEF GivenUp, Uncovered
  <2>5. GivenUp(g, t, i)
    BY <1>2, <1>3, <2>4 DEF GivenUp
  <2> QED
    BY <2>3, <2>5
<1>5. ASSUME NEW i \in 1 .. d - 1, t[i].v # NoVertex
      PROVE  t[i + 1].can_hit = t[i].can_hit
  <2>1. i + 1 \in 1 .. d /\ i \in 1 .. d
    BY <1>1
  <2>2. s[i + 1].can_hit = s[i].can_hit
    BY <1>1, <1>5 DEF IInv, CanHitOK, d
  <2> QED
    BY <1>2, <2>1, <2>2
<1> QED
  BY <1>1, <1>3, <1>4, <1>5 DEF d

\* The vertices chosen are those chosen before the innermost activation, and
\* its own.
LEMMA ChosenTop ==
  ASSUME IInv, stack # <<>>
  PROVE  /\ active.v = NoVertex => ChosenBefore(stack, Len(stack)) = cur
         /\ active.v # NoVertex => ChosenBefore(stack, Len(stack)) = cur \ {active.v}
<1>1. Len(stack) \in Nat \ {0} /\ Len(stack) \in 1 .. Len(stack)
      /\ active = stack[Len(stack)] /\ stack \in Seq(Frames)
  BY ActiveProperties DEF IInv, TypeOK
<1>2. Left(cur, stack, Len(stack)) = cur \ {active.v}
  BY <1>1, LeftTop
<1>3. Left(cur, stack, Len(stack)) = ChosenBefore(stack, Len(stack))
      /\ NoVertex \notin cur
  BY <1>1, StateProperties
<1> QED
  BY <1>2, <1>3

\* A vertex that would violate is passed over: what is lost with it are no
\* minimal covers.
LEMMA SkipVertexStep ==
  ASSUME IInv, SkipVertex, TypeOK', Shape'
  PROVE  IInv' /\ (NothingMissed => NothingMissed')
<1> DEFINE g == hyper_graph
           s == stack
           a == active
           v == Least(a.todo)
           R == a.todo \ {v}
           f == [a EXCEPT !.todo = @ \ {v}]
           t == WithTop(s, f)
           lost == Passed(cur, s, a.todo \ R)
<1>1. /\ pc = "loop" /\ pc' = "loop" /\ a.todo # {}
      /\ VertexWouldViolate(g, a.crit, v) /\ stack' = t
      /\ hyper_graph' = g /\ theta' = theta /\ cur' = cur /\ uncov' = uncov
      /\ can_hit' = can_hit /\ UNCHANGED <<given, output>>
  BY DEF SkipVertex, given
<1>2. /\ s # <<>> /\ a.v = NoVertex /\ can_hit = a.can_hit
  BY <1>1 DEF IInv, Shape, CanHitOK
<1>3. /\ Len(s) \in 1 .. Len(s) /\ a = s[Len(s)] /\ a \in Frames
      /\ v \in a.todo /\ s \in Seq(Frames)
  BY <1>1, <1>2, ActiveProperties DEF IInv, TypeOK
<1>4. /\ NoVertex \notin cur /\ \A i \in 1 .. Len(s) : FrameOK(g, cur, s, i)
  BY StateProperties
<1>5. a.back = {}
  BY <1>2, <1>3, <1>4 DEF FrameOK
<1>6. /\ f \in Frames /\ f.cand = a.cand /\ f.todo = R /\ f.crit = a.crit
      /\ f.can_hit = a.can_hit /\ f.v = NoVertex /\ f.back = {}
  <2> HIDE DEF a, v
  <2> QED
    BY <1>2, <1>3, <1>5 DEF Frames
<1>7. R \in SUBSET a.todo /\ a.todo \ R \in SUBSET a.todo
      /\ \A w \in a.todo \ R : VertexWouldViolate(g, a.crit, w)
  BY <1>1
<1> HIDE DEF R, f, v, a
<1>8. Stepped(g, cur, s, {}, cur, t, {}, lost)
  <2>1. PICK F, x, b, y, z, h, k :
          /\ x = s /\ F = Frames /\ b = cur /\ y = f /\ z = a /\ h = g /\ k = R
    OBVIOUS
  <2>2. /\ x \in Seq(F) /\ x # <<>> /\ NoVertex \notin b /\ z = x[Len(x)]
        /\ z.v = NoVertex /\ k \in SUBSET z.todo /\ y \in F
        /\ y.cand = z.cand /\ y.todo = k /\ y.crit = z.crit
        /\ y.v = NoVertex /\ y.back = {}
        /\ \A i \in 1 .. Len(x) : FrameOK(h, b, x, i)
    BY <1>2, <1>3, <1>4, <1>6, <1>7, <2>1
  <2>3. Stepped(h, b, x, {}, b, WithTop(x, y), {}, Passed(b, x, z.todo \ k))
    BY ONLY <2>2, SkipStep
  <2> QED
    BY <2>1, <2>3
<1>9. MinimalCovers(g, theta) \cap lost = {}
  <2>1. PICK F, x, b, z, h, W, th :
          /\ x = s /\ F = Frames /\ b = cur /\ z = a /\ h = g /\ W = a.todo \ R
          /\ th = theta
    OBVIOUS
  <2>2. /\ x \in Seq(F) /\ x # <<>> /\ NoVertex \notin b /\ z = x[Len(x)]
        /\ z.v = NoVertex /\ FrameOK(h, b, x, Len(x)) /\ W \in SUBSET z.todo
        /\ \A w \in W : VertexWouldViolate(h, z.crit, w)
    BY <1>2, <1>3, <1>4, <1>7, <2>1
  <2>3. MinimalCovers(h, th) \cap Passed(b, x, W) = {}
    BY ONLY <2>2, PassedNotMinimal
  <2> QED
    BY <2>1, <2>3
<1>10. Calls = {} /\ Calls' = {}
  BY <1>1 DEF Calls
<1> HIDE DEF lost
<1>11. /\ \A i \in 1 .. Len(t) : FrameOK(g, cur, t, i)
       /\ SearchOK' /\ OutputsOK' /\ (NothingMissed => NothingMissed')
  <2>1. Stepped(hyper_graph, cur, stack, Calls, cur', stack', Calls', lost)
    BY ONLY <1>1, <1>8, <1>10 DEF g, s
  <2> QED
    BY ONLY IInv, <1>1, <1>9, <2>1, SteppedSearch DEF g
<1> DEFINE d == Len(stack)
<1>12. /\ Len(t) = d /\ t # <<>> /\ Top(t) = f /\ t[d] = f
       /\ \A i \in 1 .. d : /\ ChosenBefore(t, i) = ChosenBefore(s, i)
                            /\ CritExact(g, t, i, t[i].crit) /\ GivenUp(g, t, i)
       /\ \A i \in 1 .. d - 1 : t[i].v # NoVertex => t[i + 1].can_hit = t[i].can_hit
  <2>1. f.cand \cup f.todo \cup {f.v}
           \subseteq active.cand \cup active.todo \cup {active.v, NoVertex}
    BY <1>2, <1>6, <1>7 DEF a
  <2>2. f.crit = active.crit /\ f.can_hit = active.can_hit /\ stack # <<>>
        /\ f \in Frames /\ t = WithTop(stack, f)
    BY <1>2, <1>6 DEF a
  <2> HIDE DEF t
  <2> QED
    BY ONLY IInv, <2>1, <2>2, TopChanged DEF g, s, d
<1>13. MembersOK'
  <2>1. d \in Nat \ {0} /\ d \in 1 .. d
    BY <1>2, ActiveProperties DEF IInv
  <2>2. ChosenBefore(t, d + 1) = ChosenBefore(t, d)
    BY <1>6, <1>12, <2>1, ChosenNext
  <2>3. ChosenBefore(s, d) = cur
    BY <1>2, ChosenTop DEF a
  <2> QED
    BY <1>1, <1>12, <2>1, <2>2, <2>3 DEF IInv, MembersOK
<1>14. ActivationsOK' /\ GivenUpOK'
  BY <1>1, <1>11, <1>12 DEF ActivationsOK, GivenUpOK
<1>15. CanHitOK'
  BY <1>1, <1>2, <1>6, <1>12 DEF CanHitOK, active
<1>16. CallOK'
  BY <1>1 DEF CallOK
<1> QED
  BY <1>11, <1>13, <1>14, <1>15, <1>16 DEF IInv

\* The call made for a vertex tries the sets that have it and none of the
\* vertices of todo left: the caller keeps the others.
LEMMA DescendStep ==
  ASSUME IInv, Descend, TypeOK', Shape'
  PROVE  IInv' /\ (NothingMissed => NothingMissed')
<1> DEFINE g == hyper_graph
           s == stack
           d == Len(stack)
           a == active
           v == Least(a.todo)
           R == a.todo \ {v}
           back == NewCrit(g, uncov, v)
           crit2 == UpdatedCrit(g, a.crit, uncov, v)
           cur2 == cur \cup {v}
           f == [a EXCEPT !.todo = @ \ {v}, !.v = v, !.back = back]
           t == WithTop(s, f)
           calls2 == Within(cur2, a.cand)
<1>1. /\ pc = "loop" /\ pc' = "call" /\ a.todo # {} /\ stack' = t
      /\ hyper_graph' = g /\ theta' = theta /\ cur' = Flip(cur, v)
      /\ uncov' = UpdatedUncov(g, uncov, v)
      /\ args' = [cand |-> a.cand, crit |-> crit2]
      /\ can_hit' = can_hit /\ UNCHANGED <<given, output>>
  BY DEF Descend, given
<1>2. s # <<>> /\ a.v = NoVertex /\ can_hit = a.can_hit
  BY <1>1 DEF IInv, Shape, CanHitOK
<1>3. /\ d \in 1 .. d /\ d \in Nat \ {0} /\ a = s[d] /\ a \in Frames
      /\ v \in a.todo /\ v # NoVertex /\ s \in Seq(Frames)
  BY <1>1, <1>2, ActiveProperties DEF IInv, TypeOK
<1>4. /\ NoVertex \notin cur /\ \A i \in 1 .. d : FrameOK(g, cur, s, i)
  BY StateProperties
<1>5. uncov = Uncovered(g, cur) /\ ChosenBefore(s, d) = cur
  BY <1>2, ChosenTop DEF IInv, MembersOK
<1>6. /\ f \in Frames /\ f.cand = a.cand /\ f.todo = R /\ f.crit = a.crit
      /\ f.can_hit = a.can_hit /\ f.v = v /\ f.back = back
  <2>1. back \subseteq EdgeIds(g) /\ v \in Vertices(g)
    BY <1>3, <1>5 DEF NewCrit, Uncovered, Frames
  <2> HIDE DEF a, v, back, g
  <2> QED
    BY <1>3, <2>1 DEF Frames, g
<1>7. R \in SUBSET (a.todo \ {v}) /\ a.todo \ (R \cup {v}) = {}
      /\ a.crit \in Seq(SUBSET EdgeIds(g))
  BY <1>3 DEF Frames, Crits
<1> HIDE DEF R, f, v, a, back, d
<1>8. /\ v \notin cur /\ a.cand \cap cur2 = {}
      /\ HoldsCritical(g, cur2, crit2)
      /\ Stepped(g, cur, s, {}, cur2, t, calls2, {})
  <2>1. PICK F, x, b, y, z, h, w, b2, q, W :
          /\ x = s /\ F = Frames /\ b = cur /\ y = f /\ z = a /\ h = g
          /\ w = v /\ b2 = cur2 /\ q = crit2 /\ W = {}
    OBVIOUS
  <2>2. /\ x \in Seq(F) /\ x # <<>> /\ NoVertex \notin b /\ z = x[Len(x)]
        /\ y \in F /\ Chooses(h, b, z, w, y, b2, q, W)
        /\ \A i \in 1 .. Len(x) : FrameOK(h, b, x, i)
    BY <1>2, <1>3, <1>4, <1>5, <1>6, <1>7, <2>1 DEF back, d, Chooses
  <2>3. /\ w \notin b
        /\ CallReady(h, b2, z.cand, q)
        /\ Stepped(h, b, x, {}, b2, WithTop(x, y), Within(b2, z.cand),
                   Passed(b, x, W))
    BY ONLY <2>2, ChooseStep
  <2>4. Passed(b, x, W) = {}
    BY <2>1 DEF Passed
  <2> QED
    BY <1>5, <2>1, <2>3, <2>4 DEF CallReady
<1>9. cur' = cur2 /\ uncov' = Uncovered(g, cur2)
  BY <1>1, <1>5, <1>8, UncoveredUpdated DEF Flip, UpdatedUncov
<1>10. Calls = {} /\ Calls' = calls2
  BY <1>1, <1>9 DEF Calls
<1> HIDE DEF cur2, calls2
<1>11. /\ \A i \in 1 .. Len(t) : FrameOK(g, cur2, t, i)
       /\ SearchOK' /\ OutputsOK' /\ (NothingMissed => NothingMissed')
  <2>1. Stepped(hyper_graph, cur, stack, Calls, cur', stack', Calls', {})
    BY ONLY <1>1, <1>8, <1>9, <1>10 DEF g, s
  <2>2. MinimalCovers(hyper_graph, theta) \cap {} = {}
    OBVIOUS
  <2> QED
    BY ONLY IInv, <1>1, <1>9, <2>1, <2>2, SteppedSearch DEF g
<1>12. /\ Len(t) = d /\ t # <<>> /\ Top(t) = f /\ t[d] = f
       /\ \A i \in 1 .. d : /\ ChosenBefore(t, i) = ChosenBefore(s, i)
                            /\ CritExact(g, t, i, t[i].crit) /\ GivenUp(g, t, i)
       /\ \A i \in 1 .. d - 1 : t[i].v # NoVertex => t[i + 1].can_hit = t[i].can_hit
  <2>1. f.cand \cup f.todo \cup {f.v}
           \subseteq active.cand \cup active.todo \cup {active.v, NoVertex}
    BY <1>3, <1>6, <1>7 DEF a
  <2>2. f.crit = active.crit /\ f.can_hit = active.can_hit /\ stack # <<>>
        /\ f \in Frames /\ t = WithTop(stack, f)
    BY <1>2, <1>6 DEF a
  <2> HIDE DEF t
  <2> QED
    BY ONLY IInv, <2>1, <2>2, TopChanged DEF g, s, d
<1>13. MembersOK'
  <2>1. d \in Nat \ {0} /\ t[d].v = v /\ v # NoVertex
    BY <1>3, <1>6, <1>12
  <2>2. ChosenBefore(t, d + 1) = ChosenBefore(t, d) \cup {v}
    <3> HIDE DEF t
    <3> QED
      BY ONLY <2>1, ChosenNext
  <2> QED
    BY <1>1, <1>3, <1>5, <1>9, <1>12, <2>2 DEF MembersOK, cur2
<1>14. ActivationsOK' /\ GivenUpOK'
  BY <1>1, <1>9, <1>11, <1>12 DEF ActivationsOK, GivenUpOK, d
<1>15. CanHitOK'
  BY <1>1, <1>2, <1>6, <1>12 DEF CanHitOK, active, d
<1>16. CallOK'
  <2>1. CritExact(g, t, d + 1, crit2)
    <3>1. CritExact(g, t, d, a.crit) /\ ChosenBefore(t, d) = cur
          /\ t[d].v = v
      BY <1>3, <1>5, <1>6, <1>12
    <3>2. d \in Nat \ {0} /\ v \notin ChosenBefore(t, d) /\ v # NoVertex
          /\ a.crit \in Seq(SUBSET EdgeIds(g))
      BY <1>3, <1>7, <1>8, <3>1
    <3>3. CritExact(g, t, d + 1,
                    UpdatedCrit(g, a.crit, Uncovered(g, ChosenBefore(t, d)), v))
      <4> HIDE DEF g, t
      <4> QED
        BY ONLY <3>1, <3>2, CritExactChosen
    <3> QED
      BY <1>5, <3>1, <3>3
  <2>2. \A e \in uncov' \ can_hit : g[e] \cap a.cand = {}
    <3>1. GivenUp(g, s, d)
      BY <1>3 DEF IInv, GivenUpOK, d
    <3>2. \A e \in uncov \ can_hit : g[e] \cap a.cand = {}
      BY <1>2, <1>3, <1>5, <3>1 DEF GivenUp
    <3> QED
      BY <1>1, <3>2 DEF UpdatedUncov
  <2>3. Len(t) + 1 = d + 1
    BY <1>12
  <2> QED
    BY <1>1, <1>8, <1>9, <2>1, <2>2, <2>3 DEF CallOK
<1> QED
  BY <1>11, <1>13, <1>14, <1>15, <1>16 DEF IInv

\* The vertex chosen is taken back: nothing changes in what is ahead.
LEMMA ReturnVertexStep ==
  ASSUME IInv, ReturnVertex, TypeOK', Shape'
  PROVE  IInv' /\ (NothingMissed => NothingMissed')
<1> DEFINE g == hyper_graph
           s == stack
           d == Len(stack)
           a == active
           cur2 == cur \ {a.v}
           f == [a EXCEPT !.cand = @ \cup {a.v}, !.v = NoVertex, !.back = {}]
           t == WithTop(s, f)
<1>1. /\ pc = "return" /\ pc' = "loop" /\ s # <<>> /\ a.v # NoVertex
      /\ stack' = t /\ hyper_graph' = g /\ theta' = theta
      /\ cur' = Flip(cur, a.v) /\ uncov' = uncov \cup a.back
      /\ can_hit' = can_hit /\ UNCHANGED <<given, output>>
  BY DEF ReturnVertex, given
<1>2. can_hit = a.can_hit
  BY <1>1 DEF IInv, CanHitOK
<1>3. /\ d \in 1 .. d /\ d \in Nat \ {0} /\ a = s[d] /\ a \in Frames
      /\ s \in Seq(Frames)
  BY <1>1, ActiveProperties DEF IInv, TypeOK
<1>4. /\ NoVertex \notin cur /\ \A i \in 1 .. d : FrameOK(g, cur, s, i)
  BY StateProperties
<1>5. uncov = Uncovered(g, cur) /\ ChosenBefore(s, d) = cur2
  BY <1>1, ChosenTop DEF IInv, MembersOK
<1>6. /\ f \in Frames /\ f.cand = a.cand \cup {a.v} /\ f.todo = a.todo
      /\ f.crit = a.crit /\ f.can_hit = a.can_hit /\ f.v = NoVertex /\ f.back = {}
  <2>1. a.v \in Vertices(g)
    BY <1>1, <1>3 DEF Frames
  <2> HIDE DEF a, g
  <2> QED
    BY <1>3, <2>1 DEF Frames, g
<1> HIDE DEF f, a, d
<1>7. /\ Flip(cur, a.v) = cur2
      /\ Uncovered(g, cur2) = Uncovered(g, cur) \cup a.back
      /\ Stepped(g, cur, s, {}, cur2, t, {}, {})
  <2>1. PICK F, x, b, y, z, h, b2 :
          /\ x = s /\ F = Frames /\ b = cur /\ y = f /\ z = a /\ h = g
          /\ b2 = cur2
    OBVIOUS
  <2>2. /\ x \in Seq(F) /\ x # <<>> /\ NoVertex \notin b /\ z = x[Len(x)]
        /\ z.v # NoVertex /\ y \in F
        /\ y.cand = z.cand \cup {z.v} /\ y.todo = z.todo /\ y.crit = z.crit
        /\ y.v = NoVertex /\ y.back = {} /\ b2 = b \ {z.v}
        /\ \A i \in 1 .. Len(x) : FrameOK(h, b, x, i)
    BY <1>1, <1>3, <1>4, <1>6, <2>1 DEF d
  <2>3. /\ TakenBack(h, b, z, b2)
        /\ Stepped(h, b, x, {}, b2, WithTop(x, y), {}, {})
    BY ONLY <2>2, TakeBackStep
  <2> QED
    BY <2>1, <2>3 DEF TakenBack
<1>9. cur' = cur2 /\ uncov' = Uncovered(g, cur2)
  BY <1>1, <1>5, <1>7
<1>10. Calls = {} /\ Calls' = {}
  BY <1>1 DEF Calls
<1> HIDE DEF cur2
<1>11. /\ \A i \in 1 .. Len(t) : FrameOK(g, cur2, t, i)
       /\ SearchOK' /\ OutputsOK' /\ (NothingMissed => NothingMissed')
  <2>1. Stepped(hyper_graph, cur, stack, Calls, cur', stack', Calls', {})
    BY ONLY <1>1, <1>7, <1>9, <1>10 DEF g, s
  <2>2. MinimalCovers(hyper_graph, theta) \cap {} = {}
    OBVIOUS
  <2> QED
    BY ONLY IInv, <1>1, <1>9, <2>1, <2>2, SteppedSearch DEF g
<1>12. /\ Len(t) = d /\ t # <<>> /\ Top(t) = f /\ t[d] = f
       /\ \A i \in 1 .. d : /\ ChosenBefore(t, i) = ChosenBefore(s, i)
                            /\ CritExact(g, t, i, t[i].crit) /\ GivenUp(g, t, i)
       /\ \A i \in 1 .. d - 1 : t[i].v # NoVertex => t[i + 1].can_hit = t[i].can_hit
  <2>1. f.cand \cup f.todo \cup {f.v}
           \subseteq active.cand \cup active.todo \cup {active.v, NoVertex}
    BY <1>6 DEF a
  <2>2. f.crit = active.crit /\ f.can_hit = active.can_hit /\ stack # <<>>
        /\ f \in Frames /\ t = WithTop(stack, f)
    BY <1>1, <1>6 DEF a
  <2> HIDE DEF t
  <2> QED
    BY ONLY IInv, <2>1, <2>2, TopChanged DEF g, s, d
<1>13. MembersOK'
  <2>1. ChosenBefore(t, d + 1) = ChosenBefore(t, d)
    BY <1>3, <1>6, <1>12, ChosenNext
  <2> QED
    BY <1>1, <1>3, <1>5, <1>9, <1>12, <2>1 DEF MembersOK
<1>14. ActivationsOK' /\ GivenUpOK'
  BY <1>1, <1>9, <1>11, <1>12 DEF ActivationsOK, GivenUpOK, d
<1>15. CanHitOK'
  BY <1>1, <1>2, <1>6, <1>12 DEF CanHitOK, active, d
<1>16. CallOK'
  BY <1>1 DEF CallOK
<1> QED
  BY <1>11, <1>13, <1>14, <1>15, <1>16 DEF IInv

\* The innermost activation has nothing more to try.
LEMMA LeaveStep ==
  ASSUME IInv, Leave, TypeOK', Shape'
  PROVE  IInv' /\ (NothingMissed => NothingMissed')
<1> DEFINE g == hyper_graph
           s == stack
           d == Len(stack)
           a == active
           t == Popped(s)
<1>1. /\ pc = "loop" /\ pc' = "return" /\ a.todo = {} /\ stack' = t
      /\ hyper_graph' = g /\ theta' = theta /\ cur' = cur /\ uncov' = uncov
      /\ can_hit' = can_hit /\ UNCHANGED <<given, output>>
  BY DEF Leave, given
<1>2. s # <<>> /\ a.v = NoVertex /\ can_hit = a.can_hit
  BY <1>1 DEF IInv, Shape, CanHitOK
<1>3. /\ d \in 1 .. d /\ d \in Nat \ {0} /\ a = s[d] /\ s \in Seq(Frames)
  BY <1>2, ActiveProperties DEF IInv, TypeOK
<1>4. /\ NoVertex \notin cur /\ \A i \in 1 .. d : FrameOK(g, cur, s, i)
  BY StateProperties
<1>5. uncov = Uncovered(g, cur) /\ ChosenBefore(s, d) = cur
  BY <1>2, ChosenTop DEF IInv, MembersOK
<1>6. Len(t) = d - 1 /\ \A i \in 1 .. d - 1 : t[i] = s[i]
  BY <1>2, <1>3, PoppedProperties
<1> HIDE DEF a, d
<1>7. Stepped(g, cur, s, {}, cur, t, {}, {})
  <2>1. PICK F, x, b, z, h :
          x = s /\ F = Frames /\ b = cur /\ z = a /\ h = g
    OBVIOUS
  <2>2. /\ x \in Seq(F) /\ x # <<>> /\ NoVertex \notin b /\ z = x[Len(x)]
        /\ z.v = NoVertex
        /\ \A i \in 1 .. Len(x) : FrameOK(h, b, x, i)
    BY <1>2, <1>3, <1>4, <2>1 DEF d
  <2>3. Stepped(h, b, x, {}, b, Popped(x), {}, Passed(b, x, z.todo))
    BY ONLY <2>2, PopStep
  <2>4. Passed(b, x, z.todo) = {}
    BY <1>1, <2>1 DEF Passed
  <2> QED
    BY <2>1, <2>3, <2>4
<1>8. Calls = {} /\ Calls' = {}
  BY <1>1 DEF Calls
<1> HIDE DEF t
<1>9. /\ \A i \in 1 .. Len(t) : FrameOK(g, cur, t, i)
      /\ SearchOK' /\ OutputsOK' /\ (NothingMissed => NothingMissed')
  <2>1. Stepped(hyper_graph, cur, stack, Calls, cur', stack', Calls', {})
    BY ONLY <1>1, <1>7, <1>8 DEF g, s
  <2>2. MinimalCovers(hyper_graph, theta) \cap {} = {}
    OBVIOUS
  <2> QED
    BY ONLY IInv, <1>1, <2>1, <2>2, SteppedSearch DEF g
<1>10. ASSUME NEW i \in 1 .. d
       PROVE  /\ ChosenBefore(t, i) = ChosenBefore(s, i)
              /\ \A crit : CritExact(g, s, i, crit) => CritExact(g, t, i, crit)
  <2>1. i \in Nat /\ \A j \in 1 .. i - 1 : t[j].v = s[j].v
    BY <1>3, <1>6
  <2>2. ChosenBefore(t, i) = ChosenBefore(s, i)
    BY ONLY <2>1, ChosenUnchanged
  <2>3. ASSUME NEW crit, CritExact(g, s, i, crit) PROVE CritExact(g, t, i, crit)
    <3> HIDE DEF g, s
    <3> QED
      BY ONLY <2>1, <2>3, CritExactUnchanged
  <2> QED
    BY <2>2, <2>3
<1>11. \A i \in 1 .. d - 1 : i \in 1 .. d
  BY <1>3
<1>12. MembersOK'
  <2>1. Len(t) + 1 = d
    BY <1>3, <1>6
  <2> QED
    BY <1>1, <1>3, <1>5, <1>10, <2>1 DEF MembersOK
<1>13. ActivationsOK'
  <2>1. ASSUME NEW i \in 1 .. d - 1 PROVE CritExact(g, t, i, t[i].crit)
    BY <1>6, <1>10, <1>11 DEF IInv, ActivationsOK, d
  <2> QED
    BY <1>1, <1>6, <1>9, <2>1 DEF ActivationsOK
<1>14. GivenUpOK'
  <2>1. ASSUME NEW i \in 1 .. d - 1 PROVE GivenUp(g, t, i)
    BY <1>6, <1>10, <1>11 DEF IInv, GivenUpOK, GivenUp, d
  <2> QED
    BY <1>1, <1>6, <2>1 DEF GivenUpOK
<1>15. CanHitOK'
  <2>1. ASSUME t # <<>>, Top(t).v # NoVertex PROVE can_hit = Top(t).can_hit
    <3>1. Top(t) = t[d - 1]
      BY <1>6 DEF Top
    <3>2. d - 1 \in 1 .. d - 1
      <4>1. t \in Seq(Frames)
        BY <1>2, <1>3, PoppedProperties DEF t
      <4>2. Len(t) # 0
        BY <2>1, <4>1, EmptySeq
      <4> QED
        BY <1>3, <1>6, <4>2
    <3>3. s[d].can_hit = s[d - 1].can_hit
      <4>1. (d - 1) + 1 = d /\ s[d - 1].v # NoVertex
        BY <1>3, <1>6, <2>1, <3>1, <3>2
      <4> QED
        BY <3>2, <4>1 DEF IInv, CanHitOK, d
    <3> QED
      BY <1>2, <1>3, <1>6, <3>1, <3>2, <3>3
  <2>2. ASSUME NEW i \in 1 .. (d - 1) - 1, t[i].v # NoVertex
        PROVE  t[i + 1].can_hit = t[i].can_hit
    <3>1. i \in 1 .. d - 1 /\ i + 1 \in 1 .. d - 1
      BY <1>3
    <3> QED
      BY <1>6, <2>2, <3>1 DEF IInv, CanHitOK, d
  <2> QED
    BY <1>1, <1>6, <2>1, <2>2 DEF CanHitOK, active
<1>16. CallOK'
  BY <1>1 DEF CallOK
<1> QED
  BY <1>9, <1>12, <1>13, <1>14, <1>15, <1>16 DEF IInv

LEMMA InitStep == Init => IInv /\ NothingMissed
<1> SUFFICES ASSUME Init PROVE IInv /\ NothingMissed
  OBVIOUS
<1> DEFINE g == hyper_graph
<1>1. /\ pc = "call" /\ cur = {} /\ uncov = EdgeIds(g) /\ can_hit = EdgeIds(g)
      /\ args.cand = Vertices(g) /\ args.crit = <<>>
      /\ stack = <<>> /\ output = <<>> /\ Len(stack) = 0 /\ Len(output) = 0
  BY DEF Init
<1>2. TypeOK /\ Shape
  BY TypeInit
<1>3. 1 .. Len(stack) = {} /\ 1 .. Len(output) = {} /\ Emitted = {}
  BY <1>1 DEF Emitted, Elements
<1>4. MembersOK
  <2>1. ChosenBefore(stack, Len(stack) + 1) = {}
    BY <1>1 DEF ChosenBefore
  <2>2. Uncovered(g, {}) = EdgeIds(g)
    BY DEF Uncovered
  <2> QED
    BY <1>1, <2>1, <2>2 DEF MembersOK
<1>5. ActivationsOK /\ GivenUpOK
  BY <1>3 DEF ActivationsOK, GivenUpOK
<1>6. CanHitOK
  BY <1>1 DEF CanHitOK
<1>7. CallOK
  <2>1. HoldsCritical(g, cur, args.crit)
    BY <1>1 DEF HoldsCritical
  <2>2. CritExact(g, stack, Len(stack) + 1, args.crit)
    <3>1. (Len(stack) + 1) - 1 = 0 /\ 1 .. 0 = {} /\ Len(args.crit) = 0
      BY <1>1
    <3>2. Rank(stack, 0) = 0
      BY RankProperties
    <3> QED
      BY <3>1, <3>2 DEF CritExact
  <2> QED
    BY <1>1, <2>1, <2>2 DEF CallOK
<1>8. Whole(cur, stack, Calls) = SUBSET Vertices(g)
  <2>1. Calls = SUBSET Vertices(g)
    BY <1>1 DEF Calls, Within
  <2> QED
    BY <1>3, <2>1 DEF Whole
<1>9. SearchOK
  BY <1>3 DEF SearchOK, NoOverlap
<1>10. OutputsOK
  BY <1>3 DEF OutputsOK, NoneTwice
<1>11. NothingMissed
  BY <1>8 DEF NothingMissed, MinimalCovers
<1> QED
  BY <1>2, <1>4, <1>5, <1>6, <1>7, <1>9, <1>10, <1>11 DEF IInv

LEMMA InvNext ==
  IInv /\ [Next]_vars => IInv' /\ (Findable /\ NothingMissed => NothingMissed')
<1> SUFFICES ASSUME IInv, [Next]_vars
             PROVE  IInv' /\ (Findable /\ NothingMissed => NothingMissed')
  OBVIOUS
<1>1. TypeOK' /\ Shape'
  BY TypeNext DEF IInv
<1>2. CASE Found
  BY <1>1, <1>2, FoundStep
<1>3. CASE GiveUp
  BY <1>1, <1>3, GiveUpStep
<1>4. CASE Expand
  BY <1>1, <1>4, ExpandStep
<1>5. CASE ReturnSkip
  BY <1>1, <1>5, ReturnSkipStep
<1>6. CASE SkipVertex
  BY <1>1, <1>6, SkipVertexStep
<1>7. CASE Descend
  BY <1>1, <1>7, DescendStep
<1>8. CASE ReturnVertex
  BY <1>1, <1>8, ReturnVertexStep
<1>9. CASE Leave
  BY <1>1, <1>9, LeaveStep
<1>10. CASE Finish \/ UNCHANGED vars
  BY <1>1, <1>10, FinishStep
<1> QED
  BY <1>2, <1>3, <1>4, <1>5, <1>6, <1>7, <1>8, <1>9, <1>10 DEF Next, Terminated

-----------------------------------------------------------------------------
\* The inductive invariant: the regions that the activations have ahead do
\* not overlap, and nothing emitted lies in them.
THEOREM Inductive == Spec => []IInv
<1>1. Init => IInv
  BY InitStep
<1>2. IInv /\ [Next]_vars => IInv'
  BY InvNext
<1> QED
  BY <1>1, <1>2, PTL DEF Spec

\* Every variable has its type, at any depth of the recursion.
THEOREM TypeCorrect == Spec => []TypeOK
<1>1. IInv => TypeOK
  BY DEF IInv
<1> QED
  BY <1>1, Inductive, PTL

\* cur, uncov, can_hit and every activation's crit are exact in every state:
\* undoing a choice, or the skipping of an edge, restores what it changed.
THEOREM BookkeepingExact == Spec => []Bookkeeping
<1>1. IInv => Bookkeeping
  BY DEF IInv, MembersOK, CallOK, CanHitOK, ActivationsOK, Bookkeeping
<1> QED
  BY <1>1, Inductive, PTL

\* can_hit loses an unhit edge only when no vertex that may still be chosen
\* hits it.
THEOREM OnlyUnhittableGivenUp == Spec => []GivenUpUnhittable
<1>1. IInv => GivenUpUnhittable
  BY DEF IInv, CallOK, GivenUpOK, GivenUp, GivenUpUnhittable
<1> QED
  BY <1>1, Inductive, PTL

\* Whatever the method and theta, everything pushed to the output queue is a
\* minimal approximate cover, and nothing is pushed twice.
THEOREM Sound == Spec => []OutputsOK
<1>1. IInv => OutputsOK
  BY DEF IInv
<1> QED
  BY <1>1, Inductive, PTL

-----------------------------------------------------------------------------
(***************************************************************************)
(* ADCEnum implements the abstract enumeration, if there is an edge and    *)
(* the method is not PRIORITY.  Without an edge f1 divides by zero and no  *)
(* cover is ever good enough; with PRIORITY no edge is ever picked.        *)
(***************************************************************************)

LEMMA SameCovers ==
  /\ Enumeration!MinimalCovers(hyper_graph, theta) = MinimalCovers(hyper_graph, theta)
  /\ Enumeration!Emitted = Emitted
<1>1. \A S : Enumeration!Cardinality(S) = Cardinality(S)
  BY DEF Enumeration!Cardinality, Cardinality
<1>2. \A g : Enumeration!EdgeIds(g) = EdgeIds(g)
  BY DEF Enumeration!EdgeIds, EdgeIds
<1>3. \A g : Enumeration!EdgeNum(g) = EdgeNum(g)
  BY <1>1, <1>2 DEF Enumeration!EdgeNum, EdgeNum
<1>4. \A g : Enumeration!Vertices(g) = Vertices(g)
  BY <1>2 DEF Enumeration!Vertices, Vertices
<1>5. \A g, S : Enumeration!Uncovered(g, S) = Uncovered(g, S)
  BY <1>2 DEF Enumeration!Uncovered, Uncovered
<1>6. \A g, th, S :
        Enumeration!IsApproximateCover(g, th, S) <=> IsApproximateCover(g, th, S)
  BY <1>1, <1>3, <1>5 DEF Enumeration!IsApproximateCover, IsApproximateCover
<1>7. Enumeration!MinimalCovers(hyper_graph, theta) = MinimalCovers(hyper_graph, theta)
  BY <1>4, <1>6 DEF Enumeration!MinimalCovers, MinimalCovers
<1> QED
  BY <1>7 DEF Enumeration!Emitted, Emitted, Elements

\* What is pushed is a minimal cover not pushed before.
LEMMA EmitsNew ==
  ASSUME IInv, IInv', Found, output' # output
  PROVE  /\ output' = Append(output, cur)
         /\ cur \in MinimalCovers(hyper_graph, theta) \ Emitted
<1>1. output' = Append(output, cur) /\ hyper_graph' = hyper_graph /\ theta' = theta
  BY DEF Found, given
<1> DEFINE n == Len(output)
<1>2. /\ n \in Nat /\ Len(output') = n + 1 /\ output'[n + 1] = cur
      /\ \A i \in 1 .. n : output'[i] = output[i]
  BY <1>1 DEF IInv, TypeOK
<1>3. /\ \A i \in 1 .. n : i \in 1 .. n + 1 /\ i # n + 1
      /\ n + 1 \in 1 .. n + 1
  BY <1>2
<1>4. MinimalCovers(hyper_graph, theta)' = MinimalCovers(hyper_graph, theta)
  BY <1>1 DEF MinimalCovers, IsApproximateCover, Uncovered, EdgeNum, EdgeIds, Vertices
<1>5. cur \in MinimalCovers(hyper_graph, theta)
  BY <1>2, <1>3, <1>4 DEF IInv, OutputsOK, Emitted, Elements
<1>6. ASSUME NEW i \in 1 .. n PROVE output[i] # cur
  BY <1>2, <1>3 DEF IInv, OutputsOK, NoneTwice
<1> QED
  BY <1>1, <1>5, <1>6 DEF Emitted, Elements

\* When the outermost call has returned nothing is left to try.
LEMMA AllEmitted ==
  ASSUME IInv, NothingMissed, pc = "return", stack = <<>>
  PROVE  Emitted = MinimalCovers(hyper_graph, theta)
<1>1. Whole(cur, stack, Calls) = {}
  <2>1. Len(stack) = 0 /\ 1 .. Len(stack) = {} /\ Calls = {}
    BY DEF Calls
  <2> QED
    BY <2>1 DEF Whole
<1> QED
  BY <1>1 DEF NothingMissed, IInv, OutputsOK

LEMMA EnumerationStep ==
  ASSUME IInv, IInv', NothingMissed, [Next]_vars
  PROVE  [Enumeration!Next]_(Enumeration!vars)
<1> USE DEF given
<1>1. CASE Found
  <2>1. CASE output' = output
    BY <1>1, <2>1 DEF Found, Enumeration!vars
  <2>2. CASE output' # output
    <3>1. /\ output' = Append(output, cur)
          /\ cur \in Enumeration!MinimalCovers(hyper_graph, theta) \ Enumeration!Emitted
      BY <1>1, <2>2, EmitsNew, SameCovers
    <3>2. Enumeration!Emit
      BY <1>1, <3>1 DEF Found, Enumeration!Emit
    <3> QED
      BY <3>2 DEF Enumeration!Next
  <2> QED
    BY <2>1, <2>2
<1>2. CASE Finish
  <2>1. Enumeration!Emitted = Enumeration!MinimalCovers(hyper_graph, theta)
    BY <1>2, AllEmitted, SameCovers DEF Finish
  <2>2. Enumeration!Finish
    BY <1>2, <2>1 DEF Finish, Enumeration!Finish
  <2> QED
    BY <2>2 DEF Enumeration!Next
<1>3. CASE GiveUp \/ Expand \/ ReturnSkip
  BY <1>3 DEF GiveUp, Expand, ReturnSkip, Enumeration!vars
<1>4. CASE SkipVertex \/ Descend \/ ReturnVertex \/ Leave
  BY <1>4 DEF SkipVertex, Descend, ReturnVertex, Leave, Enumeration!vars
<1>5. CASE UNCHANGED vars
  BY <1>5 DEF vars, Enumeration!vars
<1> QED
  BY <1>1, <1>2, <1>3, <1>4, <1>5 DEF Next, Terminated

\* Every minimal approximate cover is pushed exactly once before
\* RunApproximate returns, and nothing else is.
THEOREM Exact == Spec /\ Findable => Enumeration!Safety
<1>1. Init => IInv /\ NothingMissed /\ Enumeration!Init
  <2>1. Init => Enumeration!Init
    BY DEF Init, Enumeration!Init
  <2> QED
    BY <2>1, InitStep
<1>2. IInv /\ [Next]_vars => IInv'
  BY InvNext
<1>3. Findable /\ [Next]_vars => Findable'
  BY DEF Findable, Next, vars, given, Found, GiveUp, Expand, ReturnSkip, SkipVertex,
         Descend, ReturnVertex, Leave, Finish, Terminated, EdgeNum, EdgeIds
<1>4. IInv /\ Findable /\ NothingMissed /\ [Next]_vars => NothingMissed'
  BY InvNext
<1>5. IInv /\ IInv' /\ NothingMissed /\ [Next]_vars
        => [Enumeration!Next]_(Enumeration!vars)
  BY EnumerationStep
<1> QED
  BY <1>1, <1>2, <1>3, <1>4, <1>5, PTL DEF Spec, Enumeration!Safety

=============================================================================
