# Vertex cover collection: a TLA+ model

The repository enumerates the vertex covers (hitting sets) of a hypergraph:
all minimal ones, the minimal ones that leave at most a share theta of the
edges unhit, or a small diverse selection. A gRPC server streams them to its
client. This directory holds TLA+ modules for its algorithms and for the
concurrent parts around them, the TLC runs that check the modules, and proofs
that TLAPS checks.

## The system

| Part | State | Operations | Interacts with |
|---|---|---|---|
| `HyperGraph`, `BitSet`, `IntSet` (`common/`) | edges, vertices, an index built on first use | `GetEdge`, `GetVertexHitting`, `GetSubGraph`, set operations | read by every algorithm and every pool thread |
| `MMCS` (`mmcs.*`) | `cur_`, `uncov_`, `next_edge_`, one `crit` and `cand` per call | `RunAll`, `SetMethod` | pushes covers to the output queue |
| `ADCEnum` (`adc_enum.*`) | the above and `can_hit_`, `total_num_` | `RunApproximate` | pushes covers to the output queue |
| `AdvancedADCEnum` (`advanced_adc_enum.*`) | the sets are arguments, `next_edge_` is a member that all threads share | `RunApproximate` | posts calls as tasks to `ThreadPool` |
| `ThreadPool` (`common/thread_pool.*`) | `task_num_`, an asio pool | `IsFull`, `AddTask`, `TaskEnd`, `Wait` | called from the main thread and from tasks |
| `ConcurrentDropHeadQueue` (`common/`) | a bounded queue, a mutex, a condition variable | `Push`, `Pop`, `Size` | between the algorithms and the server |
| `VccServer` (`rpc/vcc_server.cpp`) | a flag `done`, a child thread | `Generate`, `Response` | runs an algorithm, drains its queue to the client |
| `RandomEnum`, `RandomEnumAutoInc` | MMCS and `cur_list_`, `back_steps_`, `cover_index_`, `stop_flag_`, `vc_list_` | `RunDiverse`, `SetBackMethod` | `GetSubGraph`, `AutoInc`, the output queue |
| `AutoInc` (`random_enum_auto_inc.*`) | the choice, its distances, `cur_size_`, a counter of successes | `Judge` | asked after every round of `RandomEnumAutoInc`; `IncMaxmin` |
| `Maxmin` (`common/maxmin.*`) | none | `Maxmin`, `IncMaxmin` | used by `AutoInc` and the experiments |
| `SubMMCS` (`sub_mmcs.*`) | MMCS, `prev_`, `vc_list_` | `RunDiverse`, the inherited `RunAll` | the output queue |

The rest is a client, measurement programs, build files and tests.

What is hard here, and what would be right:

- *MMCS, ADCEnum.* State shared by all depths of a recursion is changed before
  a call and undone after it. It has to be exact at every depth, every minimal
  cover has to be found once, and nothing else.
- *AdvancedADCEnum.* The same on several threads that share a member without a
  lock. Safety has to hold whatever edge a thread reads there; whether
  `RunApproximate` returns is a question of its own.
- *ThreadPool.* A slot is taken by one call (`IsFull`), used by a second
  (`AddTask`) and given back by a third on another thread (`TaskEnd`). None may
  leak, and the limit has to hold.
- *The queue.* Elements are dropped oldest first, and a consumer may not sleep
  beside elements it could take.
- *The server.* Two threads and a flag: everything found should reach the
  client, and the handler has to return.
- *RandomEnum.* A search leaves its recursion in three ways: stopped, with
  nothing restored; going back a number of activations; and out of a repair,
  with whole members restored. Whatever came before, what is recorded for a
  component has to be one of its minimal hitting sets.
- *RandomEnumAutoInc.* A greedy choice is kept, cut and completed while covers
  are added; it has to be the choice one would make from all of them at once. A
  stop flag outlives the search it was meant for.
- *SubMMCS.* Early returns in the middle of undoing.

`PROJECT.json` lists the hazards line by line.

## Modules

| Module | Models |
|---|---|
| `HyperGraph` | the data, and the reference definitions (`MinimalCovers`, `Critical`, `Uncovered`) that no code computes |
| `SubGraphs` | `GetSubGraph`, against the definition of connected components |
| `Maxmin` | `IncMaxmin` and `Maxmin` as functions, against the definition of a greedy choice |
| `CoverEnumeration` | abstract: minimal covers are emitted one by one, none twice, nothing else, all before finishing |
| `CallStack`, `CoverBookkeeping` | activations of a recursive function; `VertexWouldViolate`, `UpdateCritAndUncov` |
| `MMCS`, `ADCEnum` | one thread, one action per branch of the recursive function |
| `SubMMCS` | the steps of `MMCS` and the three that `RunDiverse_` adds |
| `RandomEnum` | the recursive search of both random classes, and `RunDiverse` of the first |
| `AutoInc` | `Judge` and `Validate` as actions on the choice kept |
| `RandomEnumAutoInc` | composes `RandomEnum` and `AutoInc`: the rounds of its `RunDiverse`, and the specification of an object of either class |
| `AdvancedADCEnum` | `ADCEnum` on the main thread and the pool threads; contains an instance of `ThreadPool` |
| `ThreadPool` | the counting of slots, the asio pool, `Wait` |
| `ConcurrentDropHeadQueue` | one action per critical section, spurious wakeups included |
| `VccServer` | `Generate` and `Response`; contains an instance of the queue |
| `CoverSearchProofs` | lemmas that the proofs of the four enumeration algorithms share, and that `GetSubGraph` splits a hypergraph into its components |
| `MMCSProofs` (with `SubMMCS`), `ADCEnumProofs`, `AdvancedADCEnumProofs` | theorems about the enumeration algorithms |
| `RandomEnumProofs` | theorems about the random search, the greedy choice and `Maxmin` |
| `ThreadPoolProofs`, `ConcurrentDropHeadQueueProofs`, `VccServerProofs` | theorems about the pool, the queue and the server |
| `MCHyperGraph`, `MC...` | instances for TLC |

**Recursion.** `stack` holds a record per activation of `RunAll_` or
`RunApproximate_`: its `cand_copy` (`cand`), the vertices of `c` still to try
(`todo`), its `crit`, the vertex whose call is under way (`v`) and the edges
that call took from `uncov_` (`back`, the last element of `crit_clone`). `pc`
says whether a call is about to be entered, a loop is at its head or a call has
returned. `cur`, `uncov`, `can_hit` and `next_edge` are the members. An edge is
an id, a set of vertices is a set: the hypergraphs modelled name a vertex at
most once in an edge, where `IntSet` would allow it twice. theta is in percent,
so that f1's comparison is one of integers; the floating point rounding of
f1 is left out. The random choices of MMCS are nondeterministic. What MMCS
does with an uninitialised `next_edge_` needs no case: while `cur_` is empty
the choice is random and assigns it.

**SubMMCS** conjoins its own variables, the request and `vc_list_`, to the steps
of `MMCS`. `EnterFull` and `ReturnFull` are the early returns; `prev_` is the
last element of `vc_list_`. A distance is a fraction of integers, 0 / 0 for two
empty sets, which like NaN is not at least anything.

**RandomEnum.** A record of `stack` has in addition the loop its activation is
in: `untried` and `tried` are the first loop with `flag` false and true,
`repair` the second. The orders that shuffling gives and the numbers of steps
that `SetBackMethod({false, share})` draws are nondeterministic. `pc = "return"`
with an empty stack is the head of the loops of `RunDiverse`, where
`is_auto_inc` decides which class's loops are meant. `Released` is the inner
loop of the repair, for one position of `cur_list_`. A cover recorded past the
end of `vc_list_` is undefined in the code and has no step here; that the run
`random_enum` does not deadlock shows that none of its objects records one. Its
objects with auto_inc have ORDER, RANDOM and MIN: with MAX a round can fail and
a later cover end up there. `found`, how many covers the search under way has
recorded, is a history variable. `to_queue_`, in this class as in the other
algorithms, is true: it is so by default, and without it nothing is pushed.

`GetSubGraph`, `IncMaxmin` and the repair loop are recursive functions rather
than RECURSIVE operators, so that they can be proved about.

**RandomEnumAutoInc.** The matrix of distances is recomputed where the code
keeps it, and floats are exact fractions; the comparisons are kept as they are
written, NaN included. `top_k` below two writes out of bounds and is excluded by
`AutoObjectsAssumption`, as is a hypergraph without a vertex, for which the
rounds add nothing that `Judge` could be asked about.

**AdvancedADCEnum.** `run[r]` is what runner `r` (the main thread, a pool
thread) does, with its own `cur`, `uncov` and stack. A step ends where a runner
touches shared state: `Write` and `Read` are the unlocked accesses of a scan to
`next_edge_`, `Offer` and `Recurse` the two answers of `IsFull`, `Post` is
`AddTask`. An `int` is written and read whole by the builds this code has, and
the compiler may not move the read at line 106 or 147 into another function.
Two liberties keep the state small: the vertices that would violate are passed
over together with the next step, and an activation that has no vertex left is
dropped when it makes its last call. `index` says whether `GetVertexHitting` has
built its map, which it does without a lock when it is first asked: by the
priorities of PRIORITY, by `WillCover` if a candidate is left, or in the loop.

**ThreadPool.** A caller is in `reserved` between `IsFull` and `AddTask`.
`posted` are the tasks asio has not started; it may start any of them. `Wait`
returns when nothing is posted or running. Nothing is added after `Wait`: the
callers modelled call it last.

**Queue.** `overflows` counts the pushes that found the queue full. It is a
history variable like `pushed` and `popped`: no step depends on them. The
capacity is positive, as every caller has it.

**Server.** `Generate` is modelled for APPROXIMATE, where the algorithm pushes
what `CoverEnumeration` promises, in any order; for DIVERSITY, where it pushes
`k` covers, equal ones included, of the first component, the only one
`RandomEnumAutoInc` searches; and for ALL, for which no branch exists. Which
covers those are (`to_push`) depends on the request only and is given with it.
The parameter is cast to an int in both cases. `Size` is read without the mutex:
while the algorithm runs the read may still be zero on a queue that is not
empty. The plain flag `done` is reread in every round, since the calls in the
loop are opaque to the compiler.

## Runs

| Run | Question | Instance |
|---|---|---|
| `mmcs` | bookkeeping exact until stopped, outputs minimal, covers accepted in turn, refinement of `CoverEnumeration` unless stopped, termination | every hypergraph of at most 3 edges over 3 vertices, the tests' and the client's; 4 methods; `RunAll`, and `RunDiverse` for 0 covers, 2 at 60 % and 4 at 80 % |
| `adc_enum` | the same for approximate covers, `can_hit` restored, nothing given up that a candidate hits | 1 to 3 edges over 3 vertices, the tests' and the client's; theta 0, 34, 50 |
| `advanced_adc_enum` | safety of the refinement in every interleaving; the index built before any task; slots given back; ORDER and RANDOM return | the tests' hypergraph and thetas, 2 pool threads, ORDER, MIN, MAX, PRIORITY |
| `random_enum` | components connected, disjoint, complete and not empty; members exact wherever a search goes on; a minimal hitting set recorded per component and slot; one cover per search, and none found by a repair, with the certain way back; no search with MIN fails; the greedy choice and its quality; termination with MIN | see below |
| `thread_pool` | slots accounted for, no task waits behind another, none left after `Wait` | 3 threads, 2 tasks |
| `queue` | only the oldest dropped, one per push to a full queue and none otherwise; no lost wakeup; served | capacity 2, 3 consumers, 5 pushes |
| `vcc_server` | order, no loss but by a push to a full queue, no sleep in `Pop`, `Generate` returns | capacity 2, parameters 0, 0.34, 1 and 3, all request types |

The bounds. Three edges over three vertices already give empty edges, equal
edges, nested edges, vertices that violate, dead ends, and branches that return
to a candidate after another; the four edges of the client add recursion three
deep. Theta 34 and 50 put the tolerance above and exactly on a number of edges.
Two pool threads and the main thread make three runners, enough for two tasks to
overwrite each other's `next_edge_` while a third goes on, and for the pool to
be full and not. RANDOM of `AdvancedADCEnum` is the same code as ORDER and is
left out of that run. Three consumers are the fewest for which a wakeup can be
given to one, taken by a second and missed by a third. The capacity 2 of the
server's queue (1000 in the code) makes it overflow. `SubMMCS` is asked for no
cover, where it stops on entry, for fewer covers than there are, where it stops
in the middle of a branch, and for more than are far enough, where it ends.

The objects of `random_enum`. RandomEnum with two covers per component and the
certain way back: on two components with an empty edge between them, on a
hypergraph one of whose vertices is in no minimal hitting set (choosing it leads
to a dead end), on the tests' hypergraph and on all of two edges over three
vertices, with every method. RandomEnum with three covers and a random way back
of up to 0, 50 and 75 % (`diversity_exp.cpp` has 25 and 50 %; 75 % lets a short
search go back more than one step): on the same nested hypergraph, on the
client's and on one where MAX comes back to an edge already hit, so that a
repair leaves a vertex in `cur_` that `cur_list_` does not have. (The call below
then has nothing to try, or `crit_map` would be asked for that vertex: `CallOK`
and `FrameAt` in `RandomEnumProofs`.) RandomEnum with no cover at all, which
searches nothing. RandomEnumAutoInc on the tests' hypergraph, for two covers with
ORDER, RANDOM and MIN as in its test, and for three with MIN. Its list grows to
6 covers at most (125 in the code) and is long enough after 2 valid ones in a
row (6 in the code): enough for a choice to be cut at each position, kept cut
for a round, completed later and completed at the end. MAX, which the test sets
too, is left out: the search of a round can come back to an edge already hit,
fail in the repair and end without a cover. The round counts all the same, the
empty set in its slot is as far from every cover as two covers can be, and so it
may be chosen and pushed. The object for that is `MCFailing`: in the place of
`MCDisconnected`, and without the check for deadlock, it violates `PushedCovers`.

`RepairFindsNothing` is about the certain way back only. With steps that are
drawn a search leaves branches unfinished, and the repair of a later dead end
may complete a cover that was one of theirs; TLC finds such runs.

Five runs expect a violation; each shows a disagreement between the code and
what it says of itself:

- `mmcs_priority`: MMCS with PRIORITY keeps covering the stale `next_edge_` and
  loses covers. `AdvancedADCEnum`, which has a branch for PRIORITY, does not.
- `advanced_adc_enum_returns`: two tasks can keep reading each other's edge and
  recurse for ever, on the hypergraph, theta and method of
  `test/advanced_adc_enum_test.cpp`. It takes two threads that stay in step, and
  on a real machine the stack ends it. MIN and MAX have the same loop on other
  hypergraphs, MAX for instance on the client's with theta 0.34: the scan
  finds an edge but another one is returned. Safety is not affected, since any
  edge splits the covers into those that meet it and those that do not.
- `vcc_server_delivery`: `done` is set when the algorithm has returned, and
  `Response` then leaves with covers still queued, all of them in the worst case.
- `vcc_server_parameter`: theta is cast to an int, so that 0.34 becomes 0.
- `auto_inc_components`: `stop_flag_`, set by the search of the first component,
  makes those of the others return at once. What `RandomEnumAutoInc` pushes for
  a hypergraph of two components hits the edges of the first only, and the
  server answers DIVERSITY requests with it.

**Fairness.** A sequential algorithm takes its next step (`WF_vars(Next)`). In
`AdvancedADCEnum` each runner and each pool thread is weakly fair: the operating
system runs every thread, and no step of one disables for ever a step of
another. The search of `RandomEnum` goes on too; `GoesOn` states it as "unless
it is done, it takes infinitely many steps", which is `WF_vars(Next)` for a
`Next` that is enabled until then (TLC checks that there is no deadlock) and
spares TLC an `ENABLED`. It is not fair to the random draws, so that
`ReturnsWithMin` means that no search with MIN fails, not that it succeeds in
the end. A woken consumer of the queue gets the mutex in the end; nobody has to
push or pop. In the server both threads run, and the algorithm is taken to
return, which the previous run shows for ORDER and RANDOM and refutes in theory
for the method MAX the server sets: `Responds` is about the server's own part.

## Proofs

Everything proved holds for every value of the constants that satisfies the
named assumptions of the module.

### The search space

The four enumeration algorithms share their argument, which is in
`CoverSearchProofs`. Its first half says what a push, a pop and a change of the
last activation do to a stack, and what `UpdateCritAndUncov` does to `crit` and
`uncov`. Its second half speaks of the part of the search space that is still
ahead. `Within(cur, cand)` are the sets that a call tries; `Ahead` those that an
activation is still to try after the call it waits for, which are those that
contain some vertex of its `todo`; `Whole` is all of it together, and
`NoOverlap` says that no set is in two of these parts. `PushStep`, `ChooseStep`,
`SkipStep`, `TakeBackStep` and `PopStep` say how the parts change with each kind
of step: entering a call splits its sets by the vertices of the edge it covers,
and what is dropped is what does not meet that edge or contains a vertex that
violates. `ViolatingNotMinimal` and `PassedNotMinimal` say that no minimal cover
is among the latter. From this follow, for every algorithm,

- that no cover is emitted twice: what has been emitted lies in no part that is
  left (`PushedOnce`); and
- that none is lost: a minimal cover has been emitted or lies in a part that is
  left (`NothingMissed` in each module). When the algorithm returns no part is
  left.

The second needs an edge that is not covered yet to be picked in every call,
which is what `Findable` asks for. The first does not.

### MMCS

`MMCSProofs`, from `HyperGraphsAssumption` and `MethodsAssumption`:

- `TypeCorrect`: `Spec => []TypeOK`.
- `BookkeepingExact`: `Spec => []Bookkeeping`. At every depth `cur`, `uncov` and
  every `crit` are what one would compute from scratch.
- `Sound`: `Spec => []OutputsMinimal`. Everything pushed is a minimal hitting set.
- `PushedOnceOnly`: nothing is pushed twice.
- `CompleteUnlessPriority`: `Spec /\ Findable => []Complete`, where `Findable` is
  that the method is not PRIORITY. The run `mmcs_priority` shows that the
  hypothesis is needed; the first four have no such hypothesis, so that the stale
  edges of PRIORITY are covered.

`Bookkeeping` alone is not inductive. Choosing `v` keeps `crit` exact only if
`v` is not in `cur` (the second `Flip` would otherwise not undo the first), which
needs the candidates of every activation to avoid what has been chosen above it;
`back` has to be exactly what is missing from `uncov`; every activation but the
last has to have a vertex under way; and no `crit` entry may be empty, which is
what `VertexWouldViolate` guards. `IInv` is the conjunction of these. Minimality
follows at `Found`: `uncov` is empty, every `crit` entry is exact and not empty,
and a chosen vertex with a critical edge cannot be left out. `SearchInv` adds
the parts of the search space.

### SubMMCS

`MMCSProofs` too, from the same assumptions and `RequestsAssumption`:

- `SubBookkeepingExact`: `SubSpec => []BookkeepingUnlessFull`. The members are
  exact until enough covers have been accepted.
- `SubSound`: `SubSpec => []OutputsMinimal`.
- `SubPushedOnce`: nothing is pushed twice, stopped or not.
- `SubExact`: `SubSpec /\ Findable => Searched!Safety`. The search implements the
  safety of `CoverEnumeration` unless it stops because it has enough.
- `SubAcceptedInTurn`: `SubSpec => []AcceptedInTurn`. The first cover pushed is
  accepted, and then each that is far enough from the one accepted before; never
  more are accepted than required, and the last of them is the last one pushed.
  Of a request for none nothing is pushed.

A step of the search is one of `MMCS` or an early return. The early returns
break `IInv`, so the invariant `SubInv` is `IInv` unless there are enough covers,
and `TypeOK`, the shape of the stack and the minimality of what was pushed in
any case: once full a search never gets out of it and pushes nothing. For the
last theorem a cover has to be identified with the place it was pushed at, which
is possible because of `SubPushedOnce`; `InTurn` then says, cover by cover, which
place the next one was accepted at.

### ADCEnum

`ADCEnumProofs`, from `HyperGraphsAssumption`, `ThetasAssumption` and
`MethodsAssumption`:

- `TypeCorrect`, `BookkeepingExact`: `cur`, `uncov`, `crit` and `can_hit` are
  exact at every depth.
- `OnlyUnhittableGivenUp`: an edge that is not in `can_hit` is hit by no candidate.
- `Sound`: what is emitted are minimal approximate covers, none of them twice.
- `Exact`: `Spec /\ Findable => Enumeration!Safety`, the refinement of the safety
  of `CoverEnumeration`. `Findable` is that there is an edge (without one `f1`
  divides zero by zero) and that the method is not PRIORITY.

`can_hit` is a member that every activation saves and that only `Return` of a
skipped edge restores, so `CanHitOK` relates the member to what the activation
on top saved, and what each activation saved to what its caller did. The
algorithm gives up when more edges than are tolerated can no longer be hit, and
`GivenUp`, for every activation, turns that into a statement about the sets that
are abandoned. Leaving an edge unhit tries the sets without its vertices, the
loop those with one of them, so that the parts of the search space are again
disjoint.

### AdvancedADCEnum

`AdvancedADCEnumProofs`, for any number of pool threads, from
`HyperGraphsAssumption`, `ThetasAssumption`, `MethodsAssumption`,
`RunnersAssumption` and `NoTaskAssumption`:

- `TypeCorrect`, and `BookkeepingExact`: every runner's `uncov` is exact.
- `IndexBuiltFirst`: `GetVertexHitting` has built its map before a second runner
  can ask it.
- `NoTaskLeft`: no slot is taken and no task waits or runs when
  `RunApproximate` returns.
- `Sound`: only minimal approximate covers are emitted, none of them twice.
- `Exact`: `Spec /\ EdgeNum(hyper_graph) > 0 => ImplementsEnumeration`, the
  property of the run.

The invariant has a part for one runner (`RunnerOK`, the argument of ADCEnum), a
part for one posted task (`TasksOK`), and one that divides the search space
among the runners and the tasks (`Apart`, `Remaining`). Nothing is said of
`next_edge_`: whichever edge a runner reads there splits its part into the sets
that meet the edge and those that do not, which is why the race harms no cover.
`Post` moves a part from a runner to the pool and `RunTask` moves it to a thread;
every other step of a runner leaves the parts of the others alone. `Linked` ties
the runners to the state of the pool, about which the lemmas of
`ThreadPoolProofs` are used through an instance. `Indexed` is what makes
`IndexBeforeTasks` inductive: whoever is about to offer a task has asked for the
index, because it has candidates left to check, or could not have got there.

### ThreadPool

`ThreadPoolProofs`, for any number of threads and tasks, from
`ThreadsAssumption` and `NoTaskAssumption`:

- `PoolTypeCorrect`, `SlotsNeverLeak`: `task_num_` is the number of callers
  between `IsFull` and `AddTask`, of waiting tasks and of running tasks.
- `TaskFindsThread`: never more tasks wait than threads have nothing left to do.
- `SlotsReturned`: after `Wait` no slot is taken.

The inductive invariant `PoolInv` adds to `SlotsAccounted` that only the main
thread and tasks that have not ended reserve slots, and that after `Wait`
nothing is left. Without the first, a task that returned between `IsFull` and
`AddTask` would leave a slot with nobody to give it back.

### The queue

`ConcurrentDropHeadQueueProofs`, for every capacity, any number of pushes and any
finite set of consumers, from `CapacityAssumption` and `ConsumersAssumption`:

- `QueueTypeCorrect`: the queue does not exceed its capacity.
- `NoWakeupLost`: nobody sleeps beside an element that no woken consumer takes.
- `OnlyOldestDropped`: the queue holds the newest elements, in their order, and
  as many are dropped as pushes found it full: each drops one, no other any.

`QueueInv` states the last element by element (`ElementsKept`), which is
preserved by `Append` and `Tail`, and turns it into an equality of sequences
only at the end.

### The server

`VccServerProofs`, for every capacity of the queue and every set of requests,
from `HyperGraphsAssumption`, `ParametersAssumption` and
`QueueCapacityAssumption`:

- `ResponseNeverSleeps`: `Pop` is only entered beside an element, though `Size`
  is read without the mutex. The invariant (`Alone`) is that nobody but
  `Response` takes anything.
- `NothingLostInside`: what was written, what `Response` holds and what is queued
  are fewer than what was pushed by the number of pushes that found the queue
  full, and while there was none they are what was pushed, in that order. How
  much has been pushed does not matter.
- `SentInOrder`: the client gets some of what was pushed, in that order. `Drawn`
  keeps the positions written, all before what the queue still holds.
- `TypeCorrect`: the component a DIVERSITY request is answered from has only
  vertices of the hypergraph, by `GetSubGraphComponents`.

### GetSubGraph

`CoverSearchProofs` ends with `GetSubGraphComponents`: what `GetSubGraph` makes
of a hypergraph are its connected components. Each is a hypergraph that is
connected and not empty, no two share a vertex, every edge of one is an edge of
the whole, and every nonempty edge of the whole is in one as often as it is
there. The two nested loops of the code are functions from the flags it keeps:
`VisitEach` for the vertices of an edge, `TakeEach` for the queue of a search,
`Collected` for all searches. Each of them is defined by recursion, so each
needs a function that satisfies its equation (`VisitorExists`,
`VisitorUnique`), which is built over the number of vertices without a flag
(`Unflagged`), and a statement of what it returns that follows by induction on
that number: the flags only grow (`Grows`), all that is reached from an edge is
collected (`IsCollected`), and the sub-graph made of it is closed under sharing
a vertex (`IsSubGraph`). `Split` puts the sub-graphs together and
`GetSubGraphSteps` is its induction over the edges. These are inductions on a
number: the numbers up to a bound for which a statement holds are a set that
contains zero and is closed under the next number, so that it is all of them
(`UpTo`, from the well-foundedness of the naturals). No induction theorem with
an operator parameter is used.

### RandomEnum and RandomEnumAutoInc

`RandomEnumProofs`, from `ObjectsAssumption` and `AutoObjectsAssumption`, for
any values of `MaxValidateSuccessTime` and `MaxNumOfVc`. `Spec` is that of an object of either
class, with any method, way back and number of covers.

- `Components`, `TypeCorrectness`: `Spec => []SubGraphsAreComponents` and
  `Spec => []TypeOK`.
- `Exactness`: `Spec => []SearchExact`.
- `OneCover`: `Spec => []OnePerSearch`.
- `Minimality`: `RecordedMinimal`, always, of the objects of `RandomEnum`.
- `AutoMinimality`: `RecordedMinimal` of the objects of `RandomEnumAutoInc` that
  were given a connected hypergraph, while no round has failed or with MIN. The
  run `auto_inc_components` shows why connected.
- `GreedyChoice`, `HalfOptimality`: `SelectionGreedy` and `HalfOptimal` hold
  while every round has found a cover (`EveryRoundFound`).
- `MinSucceeds`: `Spec => MinFinds`. `MinChoosesWell`: with MIN the choice is
  greedy and half optimal without a hypothesis on the rounds.
- `DeadEndsFindNothing`: `RepairFindsNothing`, for every method but PRIORITY.

*The search.* `IInv` is inductive. A repair takes vertices out from below the top
of the stack and puts all members back when its call returns, so that the
members of an activation cannot be read off the stack below it as in MMCS:
`Chain` says that there is a sequence with the members each activation goes on
with, exact for its `crit` (`FrameAt`), and that what each activation remembers
(`back`, or `old` in a repair) takes the members of the call it waits for back
to its own (`Waits`). `ReleasedAllProperties` is the induction over `cur_list_`
that the repair leaves exact critical edges and takes out just the vertices
without any. `CallOK` is what a call finds: `crit` exact, and no entry empty once
nothing is left to hit, which makes what is found minimal (`FoundMinimal`). The
stale edge that MAX and PRIORITY may return is the difficult case: `Stales`
says that only the innermost activation can have taken one and that the call
below has nothing to try. `GoesBack` says that a search which has found a cover
has steps left for all activations since the outermost, or since one that
repairs, which is `OnePerSearch`.

*The choice.* `NearestProperties`, `NewestToProperties`, `FarthestPairProperties`
and `IncMaxminProperties` say what the functions of `Maxmin` return, for every
list of covers none of which is empty: by induction on the length, a first choice
made or completed one at a time is greedy. `ValidateProperties`,
`CompleteProperties` and `GreedyCut` say what `Judge` keeps, cuts and completes
when a cover is appended. `AutoInv` is the inductive invariant of the rounds.
`EveryRoundFound` is needed: after a round that failed the list may be shorter
than the number of covers judged, and TLC shows this with MAX on the
`StaleHyperGraph` of `MCRandomEnum`, where three are judged and two are there;
an empty slot has no meaningful distance, the largest to every cover and 0 / 0 to
another empty one, which compares false with everything. `SelectionGreedy` then speaks of covers that do not
exist. `HalfOptimality` adds that `GetDistance` obeys the
triangle inequality, and that two covers of any better choice would have the
same nearest chosen cover.

*MIN.* `MinInv`: past the first vertex the narrowest edge has been covered, every
edge that is not hit keeps a candidate, every chosen vertex keeps a critical edge
none of whose other vertices is a candidate, and only the edge drawn first may
have vertices tried in vain, the last of which cannot be. So no activation is
left without a vertex that it may choose.

*Dead ends.* `DeadEndInv` speaks of a search that has found nothing yet. Until
its first dead end it is one of MMCS, and loses no minimal hitting set
(`NothingLost`, with the lemmas about the search space above). In the dead end
its own activation has nothing left, and what is ahead of another activation
contains a vertex of its `todo`, which is neither chosen nor a candidate below
(`DeadEnd`). So no minimal hitting set is among the vertices the repair chooses
from, nor is one in anything called from there (`Hopeless`), and the steps back
after the repair outlast all other activations. With PRIORITY the stale edge
loses covers before the dead end, and the argument does not apply.

### Only model-checked

- All liveness: `Returns`, `ReturnsIfOrdered`, `Served`, `Responds`,
  `ReturnsWithMin`, and that part of `CoverEnumeration` which says that an
  enumeration finishes. It is beyond the prover, and so the refinements of
  `mmcs` and `adc_enum` are proved without it.
- `RepairFindsNothing` with PRIORITY. TLC finds no violation; the proof for the
  other methods rests on no cover being lost, which is false there.

A hypothesis that a theorem has is one that the property may not hold without:
the runs `mmcs_priority` and `auto_inc_components` show it of PRIORITY in
`Findable` and of a connected hypergraph; why the choice needs `EveryRoundFound`
is said above.

## Not modelled, and the plan

Every safety property that a passing run checks is proved, with the exceptions
named above. What could be added is the quality of the choice when rounds fail,
which would first need a specification of what an empty cover's distance should
be, and the part of the system left out below.

Parts of the modelled components that are left out:

- An edge that names a vertex twice. `IntSet` keeps it twice and `IntSet::And`
  flips it twice, so that it is no candidate; a set says nothing of it.
- A second `RunApproximate` of an `AdvancedADCEnum` object. Its pool has been
  joined and runs no task any more.
- `AutoInc` with fewer than two covers to choose, and a search of
  `RandomEnumAutoInc` that fails after the list of slots is full: both index
  vectors out of bounds.
- A hypergraph without edges in `ADCEnum`, where `f1` divides zero by zero and
  nothing is pushed.
- Rounding in `f1`, and in `GetDistance`, where two fractions that differ by
  less than a float tells apart would be equal.
- The limit of 32000 vertices of `BitSet` beyond its assumption.

Left out for good: the client and the measurement programs (input and output
around the algorithms), the random number generator (every draw is
nondeterministic), logging, the layout of messages, build files and tests.
