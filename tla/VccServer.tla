----------------------------- MODULE VccServer ------------------------------
(***************************************************************************)
(* One call of Generate (rpc/vcc_server.cpp): the handler runs the         *)
(* algorithm the request asks for, which pushes covers to an output queue, *)
(* while a child thread, Response, takes them from there and writes each   *)
(* to the client.  When the algorithm has returned the handler sets done,  *)
(* joins the child and returns.                                            *)
(*                                                                         *)
(* APPROXIMATE requests run AdvancedADCEnum, of which module               *)
(* CoverEnumeration says what it pushes; DIVERSITY requests run            *)
(* RandomEnumAutoInc; ALL requests run nothing.                            *)
(***************************************************************************)
EXTENDS SubGraphs

CONSTANTS HyperGraphs,   \* the hypergraphs a request may hold
          Parameters,    \* the values of parameter, in percent
          QueueCapacity, \* 1000
          Child          \* the thread that runs Response

ASSUME HyperGraphsAssumption ==
  \A g \in HyperGraphs : IsHyperGraph(g) /\ Vertices(g) # {}

ASSUME ParametersAssumption == Parameters \subseteq Nat

ASSUME QueueCapacityAssumption == QueueCapacity \in Nat \ {0}

VARIABLES
  request, to_push,                         \* given, never assigned
  handler,                                  \* where Generate is
  done,                                     \* the flag Response polls
  child,                                    \* where Response is
  mvc,                                      \* its local, the cover it took
  written,                                  \* what it wrote to the client
  queue, waiting, woken, pushed, popped,    \* output_queue
  overflows                                 \* its pushes that found it full

NoCover == {-1}

\* The number of covers a DIVERSITY request asks for: the parameter, cast to
\* an int.  RandomEnumAutoInc is undefined for less than two.
NumberOfVc(r) == r.parameter \div 100

Requests ==
  {r \in [hyper_graph : HyperGraphs,
          request_type : {"ALL", "APPROXIMATE", "DIVERSITY"},
          parameter : Parameters] :
     r.request_type = "DIVERSITY" => NumberOfVc(r) >= 2}

Queue == INSTANCE ConcurrentDropHeadQueue
  WITH Requests <- SUBSET UNION {Vertices(g) : g \in HyperGraphs},
       Capacity <- QueueCapacity, Consumers <- {Child}, MaxPushes <- 0

queue_vars == <<queue, waiting, woken, pushed, popped, overflows>>
vars == <<request, to_push, handler, done, child, mvc, written, queue_vars>>

-----------------------------------------------------------------------------
\* The theta the algorithm is given: the parameter, cast to an int.
Theta(r) == 100 * (r.parameter \div 100)

\* What the algorithm may push for a request: RunApproximate the minimal
\* approximate covers, RunDiverse the covers of the only component it
\* searches.  No branch handles the request type ALL.
ToPush(r) ==
  CASE r.request_type = "APPROXIMATE" -> MinimalCovers(r.hyper_graph, Theta(r))
    [] r.request_type = "DIVERSITY" ->
         MinimalCovers(GetSubGraph(r.hyper_graph)[1], 0)
    [] OTHER -> {}

\* The covers of a DIVERSITY request are a number of choices, which may be
\* the same; those of the others are each pushed once.
AllPushed ==
  IF request.request_type = "DIVERSITY"
  THEN Len(pushed) = NumberOfVc(request)
  ELSE to_push \subseteq ToSet(pushed)

Init ==
  /\ request \in Requests
  /\ to_push = ToPush(request)
  /\ handler = "run"
  /\ done = FALSE
  /\ child = "check"
  /\ mvc = NoCover
  /\ written = <<>>
  /\ Queue!QueueInit

\* A thread of the algorithm pushes one more cover.
PushCover ==
  /\ handler = "run"
  /\ ~AllPushed
  /\ \E S \in to_push :
       /\ request.request_type # "DIVERSITY" => S \notin ToSet(pushed)
       /\ Queue!Push(S)
  /\ UNCHANGED <<request, to_push, handler, done, child, mvc, written>>

\* Mutant: done is only set when the child has been joined.
JoinBeforeDone ==
  /\ handler = "run"
  /\ AllPushed
  /\ handler' = "join"
  /\ UNCHANGED <<request, to_push, done, child, mvc, written, queue_vars>>

\* The algorithm has returned: done is set, which Response reads unlocked.
SetDone ==
  /\ handler = "run"
  /\ AllPushed
  /\ done' = TRUE
  /\ handler' = "join"
  /\ UNCHANGED <<request, to_push, child, mvc, written, queue_vars>>

\* join returns once Response has, and Generate returns OK.
Join ==
  /\ handler = "join"
  /\ child = "ended"
  /\ handler' = "ok"
  /\ UNCHANGED <<request, to_push, done, child, mvc, written, queue_vars>>

\* Response: the head of its loop.
CheckDone ==
  /\ child = "check"
  /\ child' = IF done THEN "ended" ELSE "size"
  /\ UNCHANGED <<request, to_push, handler, done, mvc, written, queue_vars>>

\* Mutant: the size is not asked for.
PopAnyway ==
  /\ child = "size"
  /\ child' = "pop"
  /\ UNCHANGED <<request, to_push, handler, done, mvc, written, queue_vars>>

\* Size takes no mutex.  While the algorithm pushes it may still see a queue
\* as empty that is not; it cannot see elements in an empty queue, since no
\* thread but this one pops.
ReadSize ==
  /\ child = "size"
  /\ \/ queue # <<>> /\ child' = "pop"
     \/ (queue = <<>> \/ handler = "run") /\ child' = "check"
  /\ UNCHANGED <<request, to_push, handler, done, mvc, written, queue_vars>>

\* Pop returns the oldest cover, or waits for one.
PopCover ==
  /\ child = "pop"
  /\ Queue!Pop(Child)
  /\ IF queue = <<>> THEN UNCHANGED <<child, mvc>>
     ELSE child' = "write" /\ mvc' = Head(queue)
  /\ UNCHANGED <<request, to_push, handler, done, written>>

\* Mutant: done is looked at once more before the cover is written.
WriteUnlessDone ==
  /\ child = "write"
  /\ written' = IF done THEN written ELSE Append(written, mvc)
  /\ mvc' = NoCover
  /\ child' = "check"
  /\ UNCHANGED <<request, to_push, handler, done, queue_vars>>

\* The cover is written to the client.
WriteResponse ==
  /\ child = "write"
  /\ written' = Append(written, mvc)
  /\ mvc' = NoCover
  /\ child' = "check"
  /\ UNCHANGED <<request, to_push, handler, done, queue_vars>>

Terminated == handler = "ok" /\ UNCHANGED vars

Handler == PushCover \/ SetDone \/ Join
Response == CheckDone \/ ReadSize \/ PopCover \/ WriteResponse

Next == Handler \/ Response \/ Terminated

\* Both threads are scheduled, and the algorithm returns.
Spec == Init /\ [][Next]_vars /\ WF_vars(Handler) /\ WF_vars(Response)

-----------------------------------------------------------------------------
AnyCover == SUBSET Vertices(request.hyper_graph)

\* Every variable has its type.
TypeOK ==
  /\ request \in Requests
  /\ to_push \subseteq AnyCover
  /\ handler \in {"run", "join", "ok"}
  /\ done \in BOOLEAN
  /\ child \in {"check", "size", "pop", "write", "ended"}
  /\ mvc \in AnyCover \cup {NoCover}
  /\ written \in Seq(AnyCover)
  /\ Queue!QueueTypeOK

\* The client is sent what was pushed, in the order pushed and each push at
\* most once, whatever was dropped in between: some of the positions P of
\* pushed, from the first to the last.
InOrder ==
  \E P \in SUBSET (1 .. Len(pushed)) :
    /\ Cardinality(P) = Len(written)
    /\ \A p \in P :
         written[Cardinality({q \in P : q <= p})] = pushed[p]

\* A cover that was pushed is written, about to be, or still queued, but for
\* one dropped for each push that found the queue full: the two threads lose
\* none between them.  As long as the queue never overflowed, those are all
\* that were pushed, in that order.
NoneLostInside ==
  LET sent == written \o (IF child = "write" THEN <<mvc>> ELSE <<>>) \o queue
  IN /\ Len(sent) + overflows = Len(pushed)
     /\ overflows = 0 => sent = pushed

\* Response never goes to sleep in Pop, where nobody would wake it once the
\* algorithm has returned: it asks for the size first and is alone.
NeverSleeps == waiting = {}

\* Generate returns.
Responds == <>(handler = "ok")

\* Every cover the algorithm pushed has been written when Generate returns.
AllDelivered == handler = "ok" => ToSet(pushed) \subseteq ToSet(written)

\* An approximate request is answered with minimal covers for the parameter
\* that it names.
ParameterHonoured ==
  request.request_type = "APPROXIMATE" =>
    ToSet(written) \subseteq
      MinimalCovers(request.hyper_graph, request.parameter)
=============================================================================
