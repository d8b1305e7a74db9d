# zi_lib: a verification project

zi_lib is a header library of C++ components. `src/zi/concurrency` is a POSIX threading
layer with synchronisation objects and a task manager that runs work on a pool of threads.
On it rests the library's largest program, an out-of-core watershed segmentation of
volumes that do not fit in memory; beside it are data structures and algorithms (a heap with keys,
disjoint sets, matchings, components, mesh simplification). The rest of `src/zi` is
geometry, numeric and formatting code, and `src/external` is a vendored Boost.

This directory holds TLA+ modules of these parts, the TLC configurations that check them on
small instances, and TLAPS proofs, for every value of the constants, of the main properties of
the concurrent parts, the heap, the disjoint sets, the graph algorithms, and the segmentation
from the search in a chunk to the joining of chunks. `PROJECT.json` lists components, runs, mutants, theorems,
hazards, and which source lines each definition stands for.

## 1. Inventory

| component | state it keeps | operations | hard part |
|---|---|---|---|
| task manager (`detail/task_manager_impl.hpp`) | four counters, `state_`, a deque of tasks, a mutex, two condition variables | `start stop join add_workers remove_workers push_front push_back clear`, the workers' `run` | calls that give the mutex up in mid-transition, one-shot notifications, a queue drained by workers that are already surplus |
| reader-writer lock (`detail/rwmutex_impl.hpp`) | `reader_count_ has_writer_ writer_waiting_ upgratable_`, three condition variables | read, write and undecided acquire / try / timed / release, `decide_read decide_write write_to_read write_to_undecided` | timeouts that take a notification with them, hand-over to an upgrader that is still asleep |
| barrier (`barrier.hpp`) | `count_ round_` | `wait` | late threads of old rounds next to those of new ones |
| semaphore (`semaphore.hpp`) | `credit_ waiters_` | `acquire timed_acquire release set` | a waiter count that includes threads already woken |
| event (`pthread/event.hpp`) | `signalled_` and a raw condition variable, no mutex | `wait signal clear` | signal without the waiters' mutex |
| periodic function (`periodic_function.hpp`) | `state_`, two condition variables | `run stop` | stop racing a timeout or a call of the function |
| threads (`pthread/thread.hpp`, `detail/thread_info.hpp`, `detail/all_threads_data.hpp`) | a life-cycle state per thread; a registry of counts and a map | `start join detach wake sleep`, `all_threads::join` | a thread between its creation and its registration |
| priority task manager, other containers | as the task manager; a set, a map, a vector | `insert`, the same manager calls | the set merges equal (priority, task) pairs |
| monitor, trigger, state | a waiter count, a flag, a value | `wait notify fire set_to` | a count that leaks, a wait without a loop |
| out-of-core queue (`watershed/detail/xxl_queue.hpp`) | per source two buffers, counts of what is pending, being fetched, left; a heap of sources | `add_source pop clear`, the callback `fetch_cb` | asynchronous fetches through the task manager, deletion with a fetch outstanding |
| segmentation of a chunk (`watershed/quickie/quickie_impl.hpp`) | labels and direction bits per voxel, counts, disjoint sets, a dendrogram | one function, pass by pass | a search that changes from breadth first to depth first; segments that only the next chunk can decide |
| out-of-core watershed (`watershed/xxl/watershed.hpp`) | sizes, sets, marks and new numbers of all domains, dendrograms per chunk | rounds of tasks over the chunks, passes over the queue | marks of one round compared with values of a later one, arrays compacted in place |
| heap (`heap/detail/binary_heap_impl.hpp`) | slots, two inverse index arrays, a map from keys | `insert erase erase_key pop clear` | renumbering of slots when the arrays shrink |
| disjoint sets (`disjoint_sets/disjoint_sets.hpp`) | parents, ranks, a count | `find_set join clear resize` | path compression that is not what it looks like |
| graph algorithms (`graph/`) | pairs and distances; indices, low links, a stack | `execute` | values computed before the structure changed |
| mesh simplification (`mesh/tri_mesh.hpp`, `mesh/quadratic_simplifier.hpp`) | half-edges, open counters, faces; a heap of edges | `add_face prepare round optimize` | heap entries of edges that a collapse destroys; collapses that fold the surface |
| cache, meshes other than the above, vectors, mathematics, OpenGL, logging, arguments, unit tests, system, time, Boost | - | - | numeric, I/O or third-party code; not modelled |

Interaction. Everything above the mutexes is a *monitor*: a function locks the object's
mutex, tests and changes its fields, waits on a condition variable (which releases the
mutex), and notifies. The task manager starts `zi::thread`s, each of which announces
itself to the thread registry; a periodic function is run by a thread; the barrier, the
semaphore, the event and the lock are used by user threads directly; the out-of-core
queue pushes its reads to a task manager shared by all sources; the watershed runs a round of
tasks per stage on another and joins it, uses disjoint sets for its domains and the queue
for their edges; the simplifier keeps its edges in the heap. Nothing is persisted and
no messages are exchanged, so the hazards are those of shared memory: interleavings,
missed or stolen notifications, timeouts, spurious wake-ups, and stale counters; and, in
the sequential parts, several structures that must stay in step over long sequences of
calls. They are listed in `PROJECT.json` with the line where they bite and the properties that cover them.

What makes each component correct: the task manager runs each task once, never more at a
time than its limit, and its calls return; the lock excludes, and forgets no waiter; the
barrier lets threads through in full rounds; the semaphore leaves no credit beside a
sleeper; the event reaches every thread it is passed on to; a stop of a periodic function
is heeded; joining threads returns exactly when they are through. The queue hands out
every item of every file once, the greatest first, and its pops return; segments are basins,
and the dendrograms join at every threshold what all edges join; the heap is a priority queue
and the forest a partition; simplification keeps the surface.

## 2. How the code is modelled

*Steps.* `mutex::guard` makes the code between two releases of the mutex atomic, so an
action is a member function up to its return or its first wait, or a woken thread from its
wait to the next wait or return. Where the code leaves the mutex in the middle (a worker
executing a task, the blocks of `periodic_function_adapter::run`, the routine
`thread::ENTRY`) there are separate actions. `event` has no mutex; there each access of
`signalled_` is a step.

*Condition variables.* One is the set of threads blocked in it. `notify_all` empties the
set, `notify_one` removes some element or, if there is none, is lost; a thread that has left
the set is awake and competes for the mutex. `Spurious` lets threads leave without
notification, as POSIX allows. A timed wait may end whenever its thread is blocked: time is
not modelled, and a timeout may coincide with anything.

*What a call may not do.* Constructors, destructors, getters and the calls that return at
once without effect are not actions. Task bodies do nothing but may push (pushes come from
anywhere).

*Sequential parts.* One action is one member function or one round of a loop. The algorithms that
are proved correct go in small steps: a call of a recursive search is entered, looks at one edge or
returns, a list is walked element by element, a voxel's neighbours direction by direction. The
loops of the heap and the paths of the forest are recursive functions, the passes over a mesh in
`Simplifier` also folds. Floating-point values enter
only through comparisons: affinities are small integers, and what the quadrics and the
geometric checks of the simplifier decide is left open, so that every order of collapses and
every rejection occurs. Equal values leave their order open, as `std::sort` and `std::pop_heap`
do. An array index of C++ is a function's argument; slots and numbers keep their values.

### Modules

| module | models | state and actions |
|---|---|---|
| `TaskManager` | the manager and its deque | the fields by name; `thread` (where a worker is in `run`), `holding` (its local `task`), `manager` (the call a managing thread waits in). `Register`, `WaitForTask`, `TakeTask`, `FinishTask`, `Exit` are `run`; `Start`, `AddWorkers`, `RemoveWorkers`, `Stop` are the calls up to their wait and `CreateReturn`, `KillWaitAgain`, `KillReturn` the rest; `Push`, `Clear`. `owed`, `heard` and `hasty` are history variables; `hasty` is set when a call that waits for new workers is woken by nobody, and reset when the pool is at rest |
| `TaskPool` | what one managing thread is promised | tasks are out, queued or running; the pool idle, open or closing; `unready` is `hasty`, `Hurry` and `GetReady` set and reset it |
| `RWMutex` | the lock | the four flags, three wait sets, `mode` of each thread, `timed`, `expired`. One action per function; `Retry`, `Expire`, `GiveUp...`, `RetryUpgrade` are the woken halves |
| `ReadWriteLock` | what users of the lock are promised | sets of readers, undecided, writers |
| `Barrier` / `Rendezvous` | the barrier / rounds of exactly `Threshold` threads | `Arrive`, `Complete`, `Resume`; `at` is the local variable `round` |
| `Semaphore` | the semaphore | `Acquire`, `TimedAcquire`, `Retry`, `Expire`, `GiveUp`, `Release`, `Set` |
| `Event` | the event in the two tests of `event_test.cpp` | `Lock Test Block Clear Set Notify Unlock` are the lines of the testers, `Fire` the test's own signal |
| `PeriodicFunction` | the adapter | `Enter Begin Called TimeOut End` are `run`, `Stop Stopped` are `stop` |
| `Threads` | thread, thread_info, registry | one action per block under either mutex, in the order of `start`, `ENTRY`, `sleep`, `join`, `join_all` |
| `OutOfCoreQueue` | the queue, its sources, the manager's deque and workers | the fields by name per source; `reading` is the source whose `pop` the thread is in. `AddSource Pop PopLast Resume` are the calls up to their wait and the rest, `Clear`, `Begin FetchCb` the workers; `StrayCb` is a callback whose source is gone |
| `PriorityQueue` | what the queue and the heap promise | one element in at a time, or all of one file (`Batch`); one out, a first one |
| `SteepestAscent` | first half of `chunk_quickie_impl` | `Begin` is the loop over the voxels; `TakeFront`, then `Skip Reach Meet`, one direction of the voxel searched; `NewSegment` a search that met no segment |
| `ChunkMerge` | second half | `Down` is one edge of the descent, `Renumber`, `Final` one edge of the new forest |
| `Watershed` | `xxl::watershed_impl` | `GetChunkSizes ProcessChunkBorders UpdateChunkData` are one chunk's task, `MergePair MergeMissing MergeDust Dendrogram` one pair or edge, `NextTree NextChild` one step of the walk over the lists of children that numbers them, `SerialJoin Renumber Write` whole passes |
| `Regions` | - | joining sets, and what it means for a forest to span edges at every value |
| `BinaryHeap` | `binary_heap_impl` | the arrays by name; `Insert Erase Pop Clear` with growing and shrinking. Each `while` is a function from a state of the loop to the next (`Rising`, `Sinking`, `Renumbering`) and `Looped` takes it to its end |
| `DisjointSets` / `Partition` | the forest / a partition | `FindSet Join Clear Resize` |
| `Simplifier` | `tri_mesh` and `simplifier` | `Prepare`, `Iterate` (a `Reject` or a `Collapse`), `Optimize`, `OptimizeEnds` |
| `HopcroftKarp` | `hopcroft_karp` | `Reset TakeFront Spread BfsReturns` are `bfs`, `Dfs Fail Augment` one edge or one return of `dfs`, `Execute` the loop around it; `path` is the stack of calls |
| `StronglyConnected` | `tarjan_strongly_cc` | `Visit` is the loop of `execute`, `Look` one edge or a call, `Return` the end of a call with `PopComponent`; `calls` is the stack of calls, `ahead` the edges no call has passed |
| `Structures`, `GraphAlgorithms`, `Signals`, `Segmentation` | - | components that share no state beside each other: heap, disjoint sets and simplifier; the two graph algorithms; semaphore, event and periodic function; the queue and the three stages of the watershed, whose thresholds they share. `Segmentation` also states what the inputs of a stage are (`SegmentsAssumption`, `DomainsAssumption`) |
| `MC...` | - | the modules that the runs of section 3 check |
| `..._proofs` | - | theorems |

`TaskManager`, `RWMutex` and `Barrier` are shown to implement `TaskPool`,
`ReadWriteLock` and `Rendezvous` by refinement mappings (`Promise`, `Lock`, `Meeting`);
`OutOfCoreQueue` and `BinaryHeap` implement `PriorityQueue` (`Merge`, `Queue`), `DisjointSets`
implements `Partition` (`AsPartition`).
The mapping of the lock counts a thread in `decide_write` as undecided until it has become
the writer, although the code no longer counts it as a reader; that of the barrier reads
the released threads off their stale `round`; that of the queue takes all items not yet
popped, on disk, in a buffer, under way or in the heap.

## 3. Runs

| run | instance | what it shows |
|---|---|---|
| `tm_one` | 1 managing thread, 4 workers, 2 tasks, all calls, all spurious wake-ups, fair | between calls the pool has exactly its workers, unless a hasty call has left it before (`Settled`); `TaskPool` is implemented (`KeepsPromise`); `start`, `add_workers` and `remove_workers` return whatever is pushed, `stop` and `join` unless somebody pushes for ever (`CallsReturn`); tasks pushed while RUNNING are taken unless overtaken for ever (`TaskServed`) |
| `tm_two` | 2 managing threads, 3 workers, 2 tasks, all calls, all spurious wake-ups | counters, limit and ownership of the state (`PoolExact`); each task in one place, no worker asleep over a task pushed while RUNNING (`TasksKept`); `join` drains (`JoinDrains`) |
| `tm_assert` | 2 managing threads | finding 1 |
| `rw` | 4 threads, every mode, timed, spurious wake-ups, fair | flags mean what they say (`FlagsExact`), mutual exclusion (`ImplementsLock`), a free lock has nobody asleep who could take it (`FreeLockWakes`), readers are forgotten by nobody but a timed writer (`NoReaderForgotten`), waiters are served or give up unless overtaken for ever (`EveryWaiterServed`) |
| `barrier` | 5 threads in rounds of 3, spurious wake-ups, fair | full rounds (`ImplementsRendezvous`), threads of a complete round return (`WaitEnds`) |
| `signals` | a semaphore with 4 threads, demands of 1, releases of 1 to 3, `set`, time-outs; a periodic function with 1 runner and 3 stoppers; an event with 4 threads and one mutex; spurious wake-ups, fair | the waiter count is exact and no credit lies idle beside a sleeper (`SleepersKnown`), credits are taken (`CreditIsTaken`); `state_` tells where the runner is (`StateTells`), the function is quiet after a stop, a stop of a sleeping runner is never undone (`QuietAfterStop`) and its stoppers return (`StopOfSleeperReturns`); every thread passes the event (`AllPass`) |
| `event_two` | 2 + 2 threads, two mutexes, fair | finding 3 |
| `periodic_stop` | 1 runner, 1 stopper, fair | finding 2 |
| `threads` | 2 threads, 2 joiners, spurious wake-ups, fair | counts and life cycle (`RegistryExact`), joining is exact (`JoinsExact`) and returns (`JoinsReturn`) |
| `watershed` | 2 files of up to 5 items, buffers of 2, 1 worker, fair; all affinities in four values on a ring with a tail; 4 segments with 4 edges; 2 chunks of 2 domains with up to 2 faces | `SourcesExact SleeperAwaited MergesInOrder PopReturns` of the queue, `SegmentsAreBasins`, `BorderLeftOpen ForestSpans` of a chunk, `MergersMade DendrogramSpans` of all |
| `structures` | a heap of 5 keys growing from 2 to 8 slots and back; two surfaces of 6 vertices at most, one open; forests of 0, 3 and 6 elements | `HeapSound ImplementsQueue`, `MeshSound SurfaceKept OptimizeReturns`, `ImplementsPartition` |
| `graphs` | all bipartite graphs of up to 3 + 3 and all directed graphs of up to 4 vertices, without edges from a vertex to itself | the matching returned has no larger one, and its pairs agree whenever no path is being turned over (`MatchingIsMaximum`); the components closed at any time are those of the whole graph (`ComponentsExact`) |

The runs `signals`, `watershed`, `structures` and `graphs` each check several components that share
no state: a variable `subject`, chosen at first, says which of them moves, and the others keep
one initial value, so that the states are those of the components one by one and not their
product.

Every property has a mutant: a named variant of a definition, a plausible slip in the code
(a dropped notification, a count taken too early), under which the same run fails; `MergersMade` has
one for each of its passes.

*Bounds.* `MaxLimit`, `MaxCredit` and `Rounds` cap what the code leaves to integers; the sets
`Worker`, `Task`, `Thread`, `Joiner`, `Stopper`, `Runner` cap the actors. They are
chosen so that each of the interesting encounters happens: one more worker thread than the
limit (a worker still leaving while another is created), two tasks queued in both orders
or one queued while the other runs, two managing threads that meet in each wait, a reader, a
writer, an undecided thread and one of another kind in the lock, a thread of an old round with a
complete round and an unfilled one, more credits per release than sleepers, two
joiners of one thread; a file of two and a half buffers, so that a fetch overlaps the reading
of the piece before it, beside another that competes for the worker; a plateau with two ways
off it; dust between two segments of which one, both or none touch the border; two faces between the same
two domains, between crossed ones, or with a mark on either side; a heap that shrinks with
elements in slots that are cut off, in every position; a surface with and one without a border, and
edges that must be rejected. `InitReserved` and `ShrinkAbove` are 16 and 4096 in the code and 2 in the run, so that
a few elements make the arrays grow and shrink twice. The stages of the watershed share the thresholds
`High` = 4, `Low` = 2, `DustLow` = `DustMerge` = 1 and `DustSize` = 3: affinities from 0 to 4 lie on
either side of each and on it, and sizes from 1 to 3 are dust or not, alone or after a join.
`Plausible` restricts the faces
between chunks to what the segmentation of each chunk leaves, which the code asserts in part. The number of threads in existence in the pool is bounded by `Worker`: a
call that would need more waits until one has left. `Rounds` is the modulus of `round_`;
`NotLapped` says that no thread sleeps while it turns all the way, which 2^32 rounds make
sure of. Releases that would pass `MaxCredit` are held back.

*Symmetry* is used in `tm_two` only, which has no liveness property (no definition orders the
threads or tasks). Spurious wake-ups are allowed in the fair runs too, but never assumed.
*Deadlock* is checked except in `event_two`, `signals`, `watershed`, `structures` and `graphs`,
where a test or an algorithm comes to its end.

*Fairness.* Threads that are not blocked are eventually scheduled and mutexes are given
up, hence weak fairness of the actions a thread takes once it has been woken or started.
A task or callback returns, and so does a read of a file. Holders of the lock release it. Nobody is assumed to call
anything: acquiring, pushing, releasing credits, starting and stopping are not fair.
The loop of `optimize` goes on (`Loop`), and only an empty heap is taken to end it.
`SF` is used where a step waits for a mutex that others hold again and again (`Event`) and for
the end of a runnable that may sleep often (`Threads`).

## 4. Proofs

The proofs are in eight modules named `..._proofs`; they hold for any finite set of threads,
any set of tasks, files, elements and limits, any graph and any chunks, under the `ASSUME`s of the
modules (finiteness, `NoTask` is no task and `NoSource` no source, positive limits, inputs as
the code before leaves them). Components that share a wrapper module share a module of proofs, and the
names of those proved there through an instance carry its prefix (`CM!`, `WS!`, `SCC!`, `Periodic!`).

*Task manager.* `PoolCorrect`, `TasksCorrect`, `JoinCorrect` (and their parts, `TypeCorrect`,
`CountersCorrect`, `LimitCorrect`, `StateCorrect`, `NoSleepCorrect`, `OnePlaceCorrect`). The inductive invariant is
`IInv == Typed /\ Governed /\ Served`. `Typed` is the type invariant with
`CountersExact`: `worker_count_ - 1` is a natural number only because the counter is the
number of registered threads. `Governed` is `LimitRespected /\ StateOwned`: that the loop
of `create_workers_nl` stops at the limit needs to know who set STARTING and what
`active_workers_` is in each state. `Served` adds, to the facts about the queue, that
exactly the executing workers hold a task (`Custody`) and that a stopping pool still owes
only what is queued while a worker is left to serve it (`Drained`); without it neither
`TaskInOnePlace` nor `JoinDrains` is inductive. The lemmas on counting (`CountersMove`) and
on sequences (`ElemsOfTail`, `ElemsOfPush`) are proved once.
`SettledCorrect` and `PromiseKept` assume one managing thread (`OneManager`) and nothing of the
condition variables. With a second call in progress both are false: it may
take the notification of the first or change the counters it is about to read.
`create_workers_nl` waits once and not in a loop, and POSIX lets that wait end without a
notification; the history variable `hasty` is true from such a wake-up until the pool is at rest
(`AtRest`), and no other step sets it. `Settled` excepts that time and no other, and `TaskPool`
says what it may cost: a pool closed then may be closed at once with its queue unserved, or run more tasks than its
limit while it is joined. Without `manager_cv` in `Spurious`, `MayHurry` is false and `TaskPool`
allows neither.
The strengthening is `Steady == (hasty \/ Balanced) /\ Quiet`. `Balanced` ties the threads a call has created
or marked as superfluous, and not yet waited for, to the call in progress; `RestBalances` shows that a hasty pool that
comes to rest is balanced again, wherever its managing thread is. `Quiet` is what survives haste: outside the calls
a pool that should have no workers runs no task, workers are created only for a pool that should have
some, and nothing is owed unless the pool is stopping. The
refinement of `TaskPool` also needs `TaskInOnePlace`: only then is a task either queued or
running.

*Lock.* `TypeCorrect`, `FlagsCorrect`, `LockImplemented`, `FreeLockCorrect`, `ReadersCorrect`. The invariant
`RInv == TypeOK /\ FlagsExact /\ Exclusive` adds mutual exclusion over the modes, including
a thread that has been handed the lock and has not run yet. `SharingMove` says how
the number of sharers changes with one thread's mode; the refinement is a second pass
over the same actions, with `RInv` in both states. `FreeLockWakes` is inductive beside
`RInv`: whoever frees the lock notifies on both conditions, and nobody goes to sleep on a free one.
`NoReaderForgotten` is an action property; it follows from `RInv` action by action.

*Barrier.* `TypeCorrect`, `CountCorrect`, `NobodyStrandedCorrect`, `RendezvousImplemented`,
from `BInv == TypeOK /\ CountExact /\ NobodyStranded`. `NotLapped` is used exactly
once: the round that begins must not already have a thread of the same number.

*Semaphore.* `WaitersCorrect` holds for all demands, grants and levels. `SleepersCorrect`
assumes `Demand \subseteq {1}` and `Level \subseteq {0, 1}`, without which it is false (see
section 5): then a release of n either finds all sleepers among the threads it wakes or
wakes n more for n more credits.

*Threads.* `RegistryCorrect` and `JoinsCorrect` from `TInv == TypeOK /\ CountsExact /\ StateFollows`.
The two parts need each other: a step of `ENTRY` counts only if `state_` is what it expects.

*Periodic function.* `StateCorrect` and `QuietCorrect`, for one runner (`OneRunner`) and any number of
stoppers. `Reached`, that a runner asleep under STOPPING is no longer in the condition
variable, is the strengthening: it rules out the time-out.

*Out-of-core queue.* `SourcesCorrect` and `SleeperCorrect`. Neither is inductive. The invariant has, per source, where the two buffers
lie in the file (`Places`), what they hold (`Contents`), that the heap's item is the one taken
last (`AtHand`), that a fetch finds its buffer empty and that a source with nothing left to
fetch has none outstanding (`Fetch`), where the one thread can be (`Thread`) and which fetches
the manager has (`Fetched`); and that the deque holds no source twice. Deletion by `clear` is
covered: the fetch of a deleted source stays in the manager and does no harm to the others.
`MergeCorrect` is the refinement of `PriorityQueue`. Beyond the invariant above
it needs that every source taking part has an item in the heap unless the thread is waiting for one, and that
nothing of a new one was taken (`TakesPart`), so that `add_source` adds a whole file: with that, the top of the heap is a first item of all sources, because files are
sorted (`TopIsFirst`); `HeldSame` and `HeldDrops` say what a step does to the items left.

*Heap and disjoint sets* (`Structures_proofs`). Both have a recursive definition at
their centre: the loops of the heap, and `root`, what a path in the forest leads to. No theorem about induction
over data can be used here, so that the module brings a principle of its own, in plain set
theory. `Acyclic(q)` says of a step function q that no non-empty set is
closed under it and free of its ends; an induction is a use of it with the set of
counterexamples. A step that makes a natural number smaller is acyclic (`MeasureEnds`), the function that leads
every element to its end exists and is the only one (`EndExists`, `OneRoot`, and so `LoopedLeads` and
`RootLeads`), and what a step keeps holds at the end (`LoopKeeps`): loop
invariant and variant, once for all loops.

- `PartitionKept`: the invariant is `DInv == Shape /\ ForestSound`, where `Shape` says that
  the forest is acyclic. `CutForest` and `JoinForest` say that cutting a path short and putting one root
  under another keep it so and what becomes of the roots; that a cut keeps the ranks growing needs that they have
  grown all the way to the root (`GrowsToRoot`). The bound by 2^rank is
  proved by counting the subsets of a set (`PowerNext`), as `^` has no laws in the prover. The one assumption is
  that sizes are natural numbers.
- `HeapCorrect`: `HeapSound` is inductive once `reserved` is a positive number. A `Hole` is the
  one position where the order may be broken; it moves up with `heap_up` (`HoleRises`), down with
  `heap_down` (`HoleSinks`), and both loops keep which slots are in use. In `try_shrink` the two
  arrays are inverse below the half but for as many positions as slots (`HalfInverse`), a
  count that shows why the scan for a free slot does not run out of the half (`OneIsFree`): the code has no test
  of it. `FitMoved` says what moving elements to other slots must keep;
  growing and shrinking are two instances of it.
- `QueueKept` is the refinement of `PriorityQueue` from the same lemmas; that the element in
  front is a least is one more induction, along the parents (`FrontIsLeast`).

*Search for segments* (`Segmentation_proofs`). `AscentCorrect`, `BasinsCorrect`, for chunks of any shape and
all affinities and thresholds, with no assumption about which threshold is higher. `VoxelsAssumption`
says that neighbours are mutual, that pairs of neighbours have an affinity, taken from the integers because only its
order matters, and that a voxel around the inside has one neighbour. `AInv == AscentOK /\ Searching /\ SegmentsAreBasins`.
Again "leads to" is said with sets: in the property, `Kept` has the sets that no pointer leaves.
- `OneWay`: affinities do not get lower along pointers, so that a way that does not lead back at once never does;
  the voxels with no pointers, or with an affinity above that of the way, are a set that keeps what is
  ahead and does not have what is behind.
- `OnStage`, the heart of `Searching`: the last part of `bfs` is the plateau that the search is on.
  All that was visited leads to all of it; pointers looked at lead to what was visited; and what was visited before
  is out of its reach. When the search leaves a plateau, the voxel it goes on from is the new
  one, by `OneWay`. The voxels of the old plateau that were still queued need no search of their own, because
  they lead to the new plateau already.
- When the search ends, the plateau is a summit: nothing leads off it to what has a segment, because that would have been
  met, nor to what was visited before. When it meets a segment, all that was visited leads into that segment,
  hence to its summit, and as nothing leads out of the summit it stays one.

*Merging within a chunk.* `ChunkCorrect`, `BorderCorrect`, `ForestCorrect`,
for all segments and edges that satisfy `SegmentsAssumption`. "Joined by the edges of at least a value" is
said with sets instead of paths: the `Part` of a segment is what every set with it in that those edges do
not leave has. `Tells` says that a partition is that of the parts, `Alike` that two sets of edges have the
same parts at every value. `ChunkInv` says that the edges taken are no smaller than those
ahead (`InOrder`); that the counts of the roots are sums over their sets and those of the others 0 (`Counted`, by `Sums`,
which a join keeps); that the set of a segment on the border is what the edges of at least
the high threshold join, and carries the bit (`BorderAlone`); that the new numbers are each of one set
(`Numbered`); and that the forest tells the new numbers apart as the edges taken so far do, at every value
(`Spanned`). An edge within a set is no news even at its own value, because all that were taken are at least as large;
that the forest has no cycle is a count: edges plus parts are as many as the numbers.

*Joining of chunks.* `BordersCorrect`, `MergersCorrect`, `DendrogramCorrect`, for any number of chunks and
all domains and faces with `DomainsAssumption` and `Plausible`, the inputs that the two stages
before can leave. `WInv` has these parts:
- `JoinInv`, while domains are joined: sizes are sums over sets (`Summing`); a mark says that no edge out of its set
  is higher (`Marked`), which the faces make so at first and joins keep; an edge passed whose value is the mark of a set at
  one of its ends does not lead out of it (`Missed`), and an edge passed above the dust threshold does not
  lead out of dust, to other dust or not (`Dusted`); an edge is stored at least with its own value, so that at the end
  of the second pass that holds of all first edges (`NoDustLeft`). `Missed` needs `Marked`: the joint set of two marked sets keeps a mark only if the larger of
  both is the value of the edge at hand, and all other edges out of it were no larger than either mark.
- `Updating`: chunk by chunk the edges are renamed and those within a set dropped.
- `Spanning`: as `Spanned` above, with pairs plus parts as many as labels.
- `Listed`, `InTurn`, `Reached`: the list of children of a label without a number names all beside it; what
  lies beside a label that has a number has one or waits in the list, and only that waits.
- `Trees`: no two labels whose neighbours all got their numbers later are in one tree. Each label but such a `Root`
  comes first in a pair, pairs are as many as labels less the parts, and roots are at most as many as
  parts: so the map from pairs to what comes first in them is onto a set of no fewer elements, and
  one to one. This is why every number has one parent.

*Graph algorithms* (`GraphAlgorithms_proofs`), for every graph up to any bound. An edge given twice is one
edge of the model: the code's second look at it changes nothing.
- `MatchingCorrect`: `HInv == TypeOK /\ Mutual /\ Counted /\ Calls /\ Search`. `Mutual` says that partners agree, but
  for the vertex at which a path is just being turned over; `Calls` that the calls of `dfs` follow
  edges of the graph and of the matching by turns, from the free vertex that `execute` has come to and farther and farther
  away, so that they never meet themselves; `Search` what `bfs` has reached and has still to do. At the end no matching is
  larger: the vertices not reached on the left and those beside a reached one on the right cover all edges,
  and no two of them are ends of one matched edge, as in König's theorem. `InSteps`, in `Search`, is the invariant that
  keeps distances below the number that stands for none; `Bounds` assumes fewer vertices than that.
- `ComponentsCorrect` (with `SearchInv`): `TInv == TarjanOK /\ Indexed /\ EdgesPassed /\ Stacked /\ Nested /\ Low /\
  Linked /\ Exact`. The stack holds, by index, what was visited and has no component (`Stacked`); the calls are on it
  in the same order (`Nested`). On the stack the earlier leads to the later and everything back to a call
  (`Linked`). The low link of a call is the index of something on the stack that it leads to, and no
  edge passed from what was reached during the call leads to a smaller one (`Low`): so, when a
  call ends with its own index as the low link, what is popped with it has no edge to what stays, and all of it leads
  to the root and back. "Leads to" is membership in every set that no edge leaves (`Leads`), which
  needs no induction along paths.

*Only model-checked.*
- All liveness, which is out of the prover's reach; this is everything about `Event`.
- `MeshSound` and `SurfaceKept`: a collapse is a fold over a ring of faces, itself found by walking the
  half-edge table. That the walk ends and comes round is the topology of surfaces, in which each vertex has
  one fan; and `SurfaceKept` counts, by Euler's formula, over the whole mesh.

*Only proved:* `NobodyStranded`, which `WaitEnds` implies for the instance, and
`CountExact`.

## 5. Findings

1. *Assertions of start().* `start()` asserts that no worker is counted or idle
   (`task_manager_impl.hpp:210`). With two managing threads, one in `remove_workers` and one that
   stops and starts again, workers may still be there (run `tm_assert`).
2. *A lost stop.* `periodic_function_adapter::run` sets `RUNNING` over `STOPPING`; a `stop()`
   during a call of the function, or just as the sleep times out, is forgotten and its
   caller blocked (run `periodic_stop`; the test of the same name passes by timing).
3. *A lost event.* `event::signal` without the waiters' mutex may fall between their test and
   their block; `event_test.cpp` uses it so with two events (run `event_two`).

Three more behaviours that nothing in the repository contradicts: a task pushed while `start()`
waits for its workers notifies nobody, and neither does `start()`, so that it stays until the
next push (`NoSleepOverTask`, in `TasksKept`, is therefore about pushes to a RUNNING manager); a
spurious wake-up in the one wait of `create_workers_nl` (`task_manager_impl.hpp:139`) lets `start()` and
`add_workers()` return before their workers have come, and a `stop()` or `join()` that follows may find
`worker_count_` 0 and return at once, with the queue of the `join()` unserved and workers still to
register, or let more workers than the limit serve the queue while it waits (`hasty`, in `Settled` and
`KeepsPromise`); and with two managing threads waiting, `notify_one` may wake the wrong one, so that the other's call
does not return (`CallsReturn`, `Settled` and `KeepsPromise` are stated for one).

Limits of other properties, for the same kind of reason: `NoReaderForgotten` excuses
the timed writer that gives up, because that one wakes no reader; `NoIdleCredit`, in `SleepersKnown`, holds for demands of 1 and
`set` to at most 1 (both notify by the head and not by the demand); the properties of `PeriodicFunction` are those of one runner.

Behaviours of the sequential parts met on the way, which nothing in the repository contradicts:
`find_set` shortens the path of the element asked for only, and the second loop ends because it
reads the parent it has just written; `hopcroft_karp` reports its matching in the order of the sorted edges
and not in that of its input; `xxl_queue::clear` deletes sources whose fetch may be outstanding,
and the watershed calls it in the middle of a pass (`StrayCb`).

## 6. What is not modelled

Of the modelled components: destructors and object lifetime (`shared_from_this`, the `self_` pointer of
`thread_info`); `get_thread`, which reads the registry's map without its mutex;
a second `start()` of a thread object; `all_threads::join` from a registered thread, which
would wait for itself; the cycle counter and the timeout setter of the periodic function;
time itself. `pending_count_` is missing from the constructor of the
registry; the registry is a static object and starts out zeroed, as in the model. An
exception thrown by a task (which would end the process) and a failure to create
a thread (an assertion) are left out. Of the chunk's segmentation, the collection of edges
between segments and of border marks is input; of the watershed, the files; of the simplifier,
coordinates, normals and strips, and the `resize` and `clear` of mesh and simplifier, which drop all there is
before a new surface is read in.

Not modelled at all, with the reason:

- `monitor`, `trigger`, `state`, the priority task manager and the other containers,
  `thread_pool`: small, or a second copy of what is modelled, and used by nothing else in the library. Two slips are
  visible on reading: `trigger::wait` is an `if` and not a loop (`trigger.hpp:65`), and
  `monitor` reads `waiters_` after unlocking and does not give the count back when a timed wait
  expires (`monitor.hpp:108`, `:75`).
- `simple_binary_heap`: no header includes it. Its `erase` sifts down only (`:201`), so that
  erasing from the middle may break the order.
- `biconnected_components.hpp`, `hungarian_matching.hpp`: unfinished, they return nothing.
- seven earlier versions of `quickie_impl.hpp`, `quickie.hpp`, `quickie_tmp.hpp`,
  `quickie_pre_volume_ref.hpp`, `xxl_watershed.hpp`: drafts of the segmentation that is modelled.
- vectors, matrices, quaternions, marching cubes, learning, mathematics: floating-point
  computation without states; OpenGL, logging, arguments, files: calls of other libraries;
  meta-programming and macros; windows primitives; Boost.

Those parts are by far most of the lines of `src/zi`, so the map covers a small share
of the repository and most of the code that has states.

## 7. Plan

Done: the concurrency core, the out-of-core watershed with its queue, the structures and
algorithms above; proofs of every safety property of what is concurrent, of the heap, the disjoint sets, the
graph algorithms, and of the whole segmentation, within a chunk and across chunks.

What could be added: the mesh in steps of its walks, with a proof of `MeshSound`; the priority manager as a second instance of the worker protocol; `monitor`, `trigger` and `state`.
