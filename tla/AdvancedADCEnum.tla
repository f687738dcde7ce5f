-------------------------- MODULE AdvancedADCEnum ---------------------------
(***************************************************************************)
(* AdvancedADCEnum (advanced_adc_enum.h, advanced_adc_enum.cpp): the       *)
(* enumeration of ADCEnum, in which the call that leaves the picked edge   *)
(* unhit becomes a task of the thread pool when the pool is not full.      *)
(*                                                                         *)
(* A task gets copies of all the sets RunApproximate_ changes, so that a   *)
(* runner, the main thread or a pool thread, shares with the others only   *)
(* the output queue, the pool and the member next_edge_, which             *)
(* GetGoodEdgeToCover writes and reads without a lock.  Steps of a runner  *)
(* on its own data are taken together with the step before them.           *)
(***************************************************************************)
EXTENDS CoverBookkeeping, CallStack

CONSTANTS HyperGraphs,   \* the hypergraphs that may be given
          Thetas,        \* the values of theta, in percent
          Methods,       \* the values SetMethod may be given
          Threads, Main, NoTask

ASSUME HyperGraphsAssumption == \A g \in HyperGraphs : IsHyperGraph(g)

ASSUME ThetasAssumption == Thetas \subseteq 0 .. 100

ASSUME MethodsAssumption ==
  Methods \subseteq {"ORDER", "RANDOM", "MIN", "MAX", "PRIORITY"}

ASSUME RunnersAssumption == IsFiniteSet(Threads) /\ Main \notin Threads

VARIABLES
  hyper_graph, theta, method,   \* given, never assigned
  next_edge,                    \* the member all runners share
  index,                        \* GetVertexHitting has built vertex_hittings_
  run,                          \* what each runner does, see Runs
  output,                       \* everything pushed to output_queue_, in order
  task_num, reserved, posted, running, ended, joined   \* the pool

Runners == Threads \cup {Main}

NoEdge == -1

\* What RunApproximate_ is called with, whatever the hypergraph.
AnyVertices == UNION {Vertices(g) : g \in HyperGraphs}
AnyEdges == UNION {EdgeIds(g) : g \in HyperGraphs}
Tasks ==
  [cand : SUBSET AnyVertices, crit : Seq(SUBSET AnyEdges),
   cur : SUBSET AnyVertices, uncov : SUBSET AnyEdges, can_hit : SUBSET AnyEdges]

ASSUME NoTaskAssumption == NoTask \notin Tasks

Pool == INSTANCE ThreadPool

given == <<hyper_graph, theta, method>>
pool_vars == <<task_num, reserved, posted, running, ended, joined>>
vars == <<given, next_edge, index, run, output, pool_vars>>

\* A runner: cur, uncov, the arguments of the call it makes, the activations
\* of RunApproximate_ below, the edges it has still to write to next_edge_.
Idle == [pc |-> "idle", cur |-> {}, uncov |-> {}, cand |-> {}, crit |-> <<>>,
         can_hit |-> {}, stack |-> <<>>, scan |-> {}]

Called(a) ==
  [pc |-> "call", cur |-> a.cur, uncov |-> a.uncov, cand |-> a.cand,
   crit |-> a.crit, can_hit |-> a.can_hit, stack |-> <<>>, scan |-> {}]

\* The innermost activation of runner r.
active(r) == Top(run[r].stack)

-----------------------------------------------------------------------------
Tolerated(n) ==
  /\ EdgeNum(hyper_graph) > 0
  /\ 100 * n <= theta * EdgeNum(hyper_graph)

IsMinimal(crit, uncov) ==
  \A i \in 1 .. Len(crit) :
    ~Tolerated(Cardinality(uncov) + Cardinality(crit[i]))

CanHitWith(cand, uncov, can_hit) ==
  can_hit \ {e \in uncov : hyper_graph[e] \cap cand = {}}

WillCover(cand, uncov) ==
  Tolerated(Cardinality({e \in uncov : hyper_graph[e] \cap cand = {}}))

CandNum(cand, e) == Cardinality(cand \cap hyper_graph[e])

\* edge_priority_: pow(avg, rho * EdgeNum()) of the connected component of
\* the edge.  The integer division makes rho zero, hence the power 1, unless
\* no two edges of the component share a vertex: it is then a single edge,
\* and the power is its size.  GetSubGraph drops empty edges.
EdgePriority(e) ==
  IF hyper_graph[e] = {} THEN 0
  ELSE IF \E f \in EdgeIds(hyper_graph) \ {e} :
            hyper_graph[e] \cap hyper_graph[f] # {} THEN 1
  ELSE Cardinality(hyper_graph[e])

\* The scan of PRIORITY: the highest priority, then the most candidates.
Preferred(cand, e, f) ==
  \/ EdgePriority(e) > EdgePriority(f)
  \/ EdgePriority(e) = EdgePriority(f) /\ CandNum(cand, e) >= CandNum(cand, f)

\* The edges a scan of GetGoodEdgeToCover writes to next_edge_, in ascending
\* order: MIN and MAX every edge better than those before it, PRIORITY only
\* the best one.
Written(cand, open) ==
  CASE method = "MIN" ->
         {e \in open : \A f \in open :
            f < e => CandNum(cand, f) > CandNum(cand, e)}
    [] method = "MAX" ->
         {e \in open : /\ CandNum(cand, e) > 0
                       /\ \A f \in open :
                            f < e => CandNum(cand, f) < CandNum(cand, e)}
    [] method = "PRIORITY" ->
         {e \in open : \A f \in open :
            /\ Preferred(cand, e, f)
            /\ f < e => ~Preferred(cand, f, e)}

-----------------------------------------------------------------------------
Init ==
  /\ hyper_graph \in HyperGraphs
  /\ theta \in Thetas
  /\ method \in Methods
  /\ next_edge = NoEdge
  /\ index = FALSE
  /\ run = [r \in Runners |->
              IF r # Main THEN Idle
              ELSE Called([cand |-> Vertices(hyper_graph), crit |-> <<>>,
                           cur |-> {}, uncov |-> EdgeIds(hyper_graph),
                           can_hit |-> EdgeIds(hyper_graph)])]
  /\ output = <<>>
  /\ Pool!PoolInit

Goto(r, pc) == run' = [run EXCEPT ![r].pc = pc]

\* RunApproximate_ finds few enough edges unhit, and pushes cur if it is
\* minimal.
Found(r) ==
  /\ run[r].pc = "call"
  /\ Tolerated(Cardinality(run[r].uncov))
  /\ output' = IF IsMinimal(run[r].crit, run[r].uncov)
                 THEN Append(output, run[r].cur) ELSE output
  /\ Goto(r, "return")
  /\ UNCHANGED <<given, index, next_edge, pool_vars>>

\* Mutant: WillCover is left to the task.
CoverUnasked(r, e) ==
  LET c == run[r].cand \cap hyper_graph[e]
      cand_copy == run[r].cand \ c
      frame == [cand |-> cand_copy, todo |-> c, crit |-> run[r].crit,
                can_hit |-> run[r].can_hit, v |-> NoVertex, back |-> {}]
  IN /\ run' = [run EXCEPT
          ![r].stack = Append(@, frame),
          ![r].scan = {},
          ![r].cand = cand_copy,
          ![r].can_hit = CanHitWith(cand_copy, run[r].uncov, @),
          ![r].pc = "offer"]
     /\ UNCHANGED index

\* The edge e is picked: the call that leaves it unhit follows if the
\* candidates outside e would do.  WillCover asks for the edges of each.
Cover(r, e) ==
  LET c == run[r].cand \cap hyper_graph[e]
      cand_copy == run[r].cand \ c
      frame == [cand |-> cand_copy, todo |-> c, crit |-> run[r].crit,
                can_hit |-> run[r].can_hit, v |-> NoVertex, back |-> {}]
      will_cover == WillCover(cand_copy, run[r].uncov)
  IN /\ run' = [run EXCEPT
          ![r].stack = Append(@, frame),
          ![r].scan = {},
          ![r].cand = cand_copy,
          ![r].can_hit = CanHitWith(cand_copy, run[r].uncov, @),
          ![r].pc = IF will_cover THEN "offer" ELSE "loop"]
     /\ index' = (index \/ cand_copy # {})

\* Mutant: can_hit_ is not asked.
ExpandIgnoringCanHit(r) ==
  /\ run[r].pc = "call"
  /\ ~Tolerated(Cardinality(run[r].uncov))
  /\ method \in {"ORDER", "RANDOM"}
  /\ Cover(r, Least(run[r].uncov))
  /\ next_edge' = Least(run[r].uncov)
  /\ UNCHANGED <<given, output, pool_vars>>

\* GetGoodEdgeToCover with ORDER or RANDOM returns the edge it found itself.
Expand(r) ==
  LET open == run[r].uncov \cap run[r].can_hit
  IN /\ run[r].pc = "call"
     /\ ~Tolerated(Cardinality(run[r].uncov))
     /\ method \in {"ORDER", "RANDOM"}
     /\ IF open = {} THEN Goto(r, "return") /\ UNCHANGED <<next_edge, index>>
        ELSE Cover(r, Least(open)) /\ next_edge' = Least(open)
     /\ UNCHANGED <<given, output, pool_vars>>

\* The other methods scan first, writing next_edge_ as they go ...  The
\* priorities are computed from GetSubGraph, which asks for every vertex.
StartScan(r) ==
  LET open == run[r].uncov \cap run[r].can_hit
      written == Written(run[r].cand, open)
  IN /\ run[r].pc = "call"
     /\ ~Tolerated(Cardinality(run[r].uncov))
     /\ method \in {"MIN", "MAX", "PRIORITY"}
     /\ run' = [run EXCEPT ![r].scan = written,
                           ![r].pc = IF written = {} THEN "return" ELSE "scan"]
     /\ index' = (index \/ (method = "PRIORITY" /\ Vertices(hyper_graph) # {}))
     /\ UNCHANGED <<given, next_edge, output, pool_vars>>

Write(r) ==
  /\ run[r].pc = "scan"
  /\ run[r].scan # {}
  /\ next_edge' = Least(run[r].scan)
  /\ run' = [run EXCEPT ![r].scan = @ \ {next_edge'}]
  /\ UNCHANGED <<given, index, output, pool_vars>>

\* ... and return the edge they then read there, which another runner may
\* have written.
Read(r) ==
  /\ run[r].pc = "scan"
  /\ run[r].scan = {}
  /\ Cover(r, next_edge)
  /\ UNCHANGED <<given, next_edge, output, pool_vars>>

\* Mutant: the task gets the can_hit of the loop, not its copy for the call,
\* and all the candidates of the caller.
PostWholeCand(r) ==
  /\ run[r].pc = "post"
  /\ Pool!AddTask(r, [cand |-> active(r).cand \cup active(r).todo,
                      crit |-> run[r].crit,
                      cur |-> run[r].cur, uncov |-> run[r].uncov,
                      can_hit |-> active(r).can_hit])
  /\ Goto(r, "loop")
  /\ UNCHANGED <<given, index, next_edge, output>>

\* The pool is not full: the call becomes a task.
Offer(r) ==
  /\ run[r].pc = "offer"
  /\ Pool!Reserve(r)
  /\ Goto(r, "post")
  /\ UNCHANGED <<given, index, next_edge, output>>

Post(r) ==
  /\ run[r].pc = "post"
  /\ Pool!AddTask(r, [cand |-> run[r].cand, crit |-> run[r].crit,
                      cur |-> run[r].cur, uncov |-> run[r].uncov,
                      can_hit |-> run[r].can_hit])
  /\ Goto(r, "loop")
  /\ UNCHANGED <<given, index, next_edge, output>>

\* The pool is full: the runner makes the call itself.  An activation with
\* no vertex left to try is dropped as it makes its last call, so that a run
\* that does not end still has finitely many states.
Recurse(r) ==
  /\ run[r].pc = "offer"
  /\ Pool!IsFull
  /\ run' = [run EXCEPT ![r].pc = "call",
                        ![r].stack = IF active(r).todo = {} THEN Popped(@) ELSE @]
  /\ UNCHANGED <<given, index, next_edge, output, pool_vars>>

\* The next vertex of c that does not violate is chosen, and RunApproximate_
\* called with the can_hit of this activation.
Descend(r) ==
  /\ run[r].pc = "loop"
  /\ \E v \in active(r).todo :
       LET Violates(w) == VertexWouldViolate(hyper_graph, active(r).crit, w)
           frame == [active(r) EXCEPT
             !.todo = {w \in @ : w > v}, !.v = v,
             !.back = NewCrit(hyper_graph, run[r].uncov, v)]
       IN /\ ~Violates(v)
          /\ \A w \in active(r).todo : w < v => Violates(w)
          /\ run' = [run EXCEPT
               ![r].pc = "call",
               ![r].stack = WithTop(@, frame),
               ![r].cand = active(r).cand,
               ![r].crit = UpdatedCrit(hyper_graph, active(r).crit,
                                       run[r].uncov, v),
               ![r].can_hit = active(r).can_hit,
               ![r].cur = Flip(@, v),
               ![r].uncov = UpdatedUncov(hyper_graph, @, v)]
  /\ index' = TRUE
  /\ UNCHANGED <<given, next_edge, output, pool_vars>>

\* The loop is over.
Leave(r) ==
  /\ run[r].pc = "loop"
  /\ \A v \in active(r).todo : VertexWouldViolate(hyper_graph, active(r).crit, v)
  /\ run' = [run EXCEPT ![r].pc = "return", ![r].stack = Popped(@)]
  /\ index' = (index \/ active(r).todo # {})
  /\ UNCHANGED <<given, next_edge, output, pool_vars>>

\* Mutant: a vertex is taken back after every call.
ReturnVertexAlways(r) ==
  /\ run[r].pc = "return"
  /\ run[r].stack # <<>>
  /\ LET v == active(r).v
     IN run' = [run EXCEPT
          ![r].pc = "loop", ![r].cur = Flip(@, v),
          ![r].uncov = @ \cup active(r).back,
          ![r].stack = WithTop(@, [active(r) EXCEPT
            !.cand = @ \cup {v}, !.v = NoVertex, !.back = {}])]
  /\ UNCHANGED <<given, index, next_edge, output, pool_vars>>

\* Mutant: RestoreCritAndUncov is forgotten.
ReturnWithoutRestore(r) ==
  /\ run[r].pc = "return"
  /\ run[r].stack # <<>>
  /\ LET v == active(r).v
     IN run' = [run EXCEPT
          ![r].pc = "loop",
          ![r].cur = IF v = NoVertex THEN @ ELSE Flip(@, v),
          ![r].stack = WithTop(@, [active(r) EXCEPT
            !.cand = IF v = NoVertex THEN @ ELSE @ \cup {v},
            !.v = NoVertex, !.back = {}])]
  /\ UNCHANGED <<given, index, next_edge, output, pool_vars>>

\* A call has returned: if it was for a vertex, cur and uncov are restored
\* and the vertex is a candidate again for those after it.
Return(r) ==
  /\ run[r].pc = "return"
  /\ run[r].stack # <<>>
  /\ LET v == active(r).v
     IN run' = [run EXCEPT
          ![r].pc = "loop",
          ![r].cur = IF v = NoVertex THEN @ ELSE Flip(@, v),
          ![r].uncov = @ \cup active(r).back,
          ![r].stack = WithTop(@, [active(r) EXCEPT
            !.cand = IF v = NoVertex THEN @ ELSE @ \cup {v},
            !.v = NoVertex, !.back = {}])]
  /\ UNCHANGED <<given, index, next_edge, output, pool_vars>>

\* RunApproximateWrapper: a pool thread starts a task, gives its slot back
\* when RunApproximate_ has returned, and returns to the pool.
RunTask(w, i) ==
  /\ Pool!RunTask(w, i)
  /\ run' = [run EXCEPT ![w] = Called(posted[i])]
  /\ UNCHANGED <<given, index, next_edge, output>>

TaskEnd(w) ==
  /\ run[w].pc = "return"
  /\ run[w].stack = <<>>
  /\ Pool!TaskEnd(w)
  /\ run' = [run EXCEPT ![w] = Idle]
  /\ UNCHANGED <<given, index, next_edge, output>>

TaskReturn(w) ==
  /\ Pool!TaskReturn(w)
  /\ UNCHANGED <<given, index, next_edge, run, output>>

\* RunApproximate: the main thread waits for the pool, and returns.
Wait ==
  /\ run[Main].pc = "return"
  /\ run[Main].stack = <<>>
  /\ Pool!Wait
  /\ Goto(Main, "done")
  /\ UNCHANGED <<given, index, next_edge, output>>

Terminated == run[Main].pc = "done" /\ UNCHANGED vars

Algorithm(r) ==
  \/ Found(r) \/ Expand(r) \/ StartScan(r) \/ Write(r) \/ Read(r)
  \/ Offer(r) \/ Post(r) \/ Recurse(r) \/ Descend(r) \/ Leave(r) \/ Return(r)

PoolThread(w) ==
  \/ \E i \in 1 .. Len(posted) : RunTask(w, i)
  \/ TaskEnd(w) \/ TaskReturn(w)

Next ==
  \/ \E r \in Runners : Algorithm(r)
  \/ \E w \in Threads : PoolThread(w)
  \/ Wait
  \/ Terminated

\* The operating system runs every thread: a runner that can take a step
\* takes one, and the pool starts what was posted.
Fairness ==
  /\ \A r \in Runners : WF_vars(Algorithm(r))
  /\ \A w \in Threads : WF_vars(PoolThread(w))
  /\ WF_vars(Wait)

Spec == Init /\ [][Next]_vars /\ Fairness

-----------------------------------------------------------------------------
Crits == Seq(SUBSET EdgeIds(hyper_graph))

Frames ==
  [cand : SUBSET Vertices(hyper_graph), todo : SUBSET Vertices(hyper_graph),
   crit : Crits, can_hit : SUBSET EdgeIds(hyper_graph),
   v : Vertices(hyper_graph) \cup {NoVertex},
   back : SUBSET EdgeIds(hyper_graph)]

\* What a runner does: pc is the place in RunApproximate_, and cand, crit and
\* can_hit the arguments of the call it is about to make.
Runs ==
  [pc : {"idle", "call", "scan", "offer", "post", "loop", "return", "done"},
   cur : SUBSET Vertices(hyper_graph), uncov : SUBSET EdgeIds(hyper_graph),
   cand : SUBSET Vertices(hyper_graph), crit : Crits,
   can_hit : SUBSET EdgeIds(hyper_graph), stack : Seq(Frames),
   scan : SUBSET EdgeIds(hyper_graph)]

\* Every variable has its type.
TypeOK ==
  /\ hyper_graph \in HyperGraphs
  /\ theta \in Thetas
  /\ method \in Methods
  /\ next_edge \in EdgeIds(hyper_graph) \cup {NoEdge}
  /\ index \in BOOLEAN
  /\ run \in [Runners -> Runs]
  /\ output \in Seq(SUBSET Vertices(hyper_graph))
  /\ Pool!PoolTypeOK

\* Every runner's uncov is exact, whatever the others do: a task works on
\* copies of what its creator goes on to change and restore.
UncovExact ==
  \A r \in Runners :
    run[r].pc \notin {"idle"} =>
      run[r].uncov = Uncovered(hyper_graph, run[r].cur)

\* GetVertexHitting has built its index, which it does unlocked on its first
\* use, before there is any task: no two runners ever build it at a time.
IndexBeforeTasks ==
  index \/ (posted = <<>> /\ \A w \in Threads : run[w].pc = "idle")

\* RunApproximate returns only when every task has run and given its slot
\* back: what the tests read with DebugFunc.
AllGivenBack == run[Main].pc = "done" => task_num = 0 /\ posted = <<>>

\* The abstract enumeration, as far as safety goes: whatever edges the race
\* on next_edge_ makes the runners pick, each minimal approximate cover is
\* pushed at most once, nothing else is, and RunApproximate returns only
\* when all have been.
Enumeration == INSTANCE CoverEnumeration
  WITH emitted <- output, finished <- (run[Main].pc = "done")
ImplementsEnumeration == Enumeration!Safety

\* RunApproximate returns.
Returns == <>(run[Main].pc = "done")

\* It does with ORDER and RANDOM, which never read next_edge_ back, whatever
\* the interleaving of the runners.
ReturnsIfOrdered == method \in {"ORDER", "RANDOM"} => Returns
=============================================================================
