--------------------------- MODULE OutOfCoreQueue ---------------------------
(***************************************************************************)
(* xxl_queue and xxl_queue_source (src/zi/watershed/detail/xxl_queue.hpp): *)
(* one thread merges sorted files, each read piece by piece into one of    *)
(* two buffers by callbacks that a task manager runs.  A source's mutex is *)
(* held except inside cv_.wait, so one action is a call of the queue up to *)
(* that wait or its return, the rest of it, or one callback.               *)
(*                                                                         *)
(* The task manager appears as TaskManager shows it: a deque served in     *)
(* order, each task run once.                                              *)
(***************************************************************************)
EXTENDS Integers, Sequences, FiniteSets

CONSTANTS
    Source,     \* the sources ever added
    Key,        \* what items are compared by
    MaxSize,    \* bound of the model: items per file
    CacheLen,   \* cache_len_
    NoThreads   \* worker threads of the manager

ASSUME SourceAssumption == IsFiniteSet(Source) /\ Key \subseteq Int
ASSUME SizeAssumption == MaxSize \in Nat /\ CacheLen \in Nat \ {0} /\ NoThreads \in Nat \ {0}

VARIABLES
    file,             \* what is on disk, the greatest key first
    life,             \* "new", "live", or deleted: "spent" by pop, "cleared" by clear
    remaining,        \* remaining_
    filePos,          \* file_pos_
    buffer,           \* the buffer_len_ items of buffer_
    bufferPos,        \* buffer_pos_
    pending,          \* the pending_ items of pending_buffer_
    fetching,         \* fetching_
    waiting,          \* num_waiting_
    asleep,           \* is the thread blocked in the cv_ of this source
    heap,             \* heap_: the item at hand of each source in it
    reading,          \* the source whose pop the thread is in, or NoSource
    tasks,            \* the fetches queued in the manager
    running           \* the fetches its workers have taken

sourceVars == <<remaining, filePos, buffer, bufferPos, pending, fetching, waiting, asleep>>
vars == <<file, life, sourceVars, heap, reading, tasks, running>>

NoSource == "none"

ASSUME NoSourceAssumption == NoSource \notin Source

Sizes == 1..MaxSize
Sorted(f) == \A i \in DOMAIN f : \A j \in 1..i : f[j] >= f[i]
Files == {f \in UNION {[1..n -> Key] : n \in Sizes} : Sorted(f)}

Lesser(m, n) == IF m < n THEN m ELSE n
Size(s) == Len(file[s])
RemainingInFile(s) == Size(s) - filePos[s]

Init ==
    /\ file \in [Source -> Files]
    /\ life = [s \in Source |-> "new"]
    /\ remaining = [s \in Source |-> Size(s)]
    /\ filePos = [s \in Source |-> 0]
    /\ buffer = [s \in Source |-> <<>>]
    /\ bufferPos = [s \in Source |-> 0]
    /\ pending = [s \in Source |-> <<>>]
    /\ fetching = [s \in Source |-> 0]
    /\ waiting = [s \in Source |-> 0]
    /\ asleep = [s \in Source |-> FALSE]
    /\ heap = <<>>
    /\ reading = NoSource
    /\ tasks = <<>>
    /\ running = {}

-----------------------------------------------------------------------------
(* xxl_queue_source::pop, in its critical sections                         *)

UsedUp(s) == bufferPos[s] = Len(buffer[s])

\* Mutant: a fetch is started although one is outstanding.
Idle_Any(s) == TRUE
Idle(s)     == fetching[s] = 0

TryFetch(s) ==
    IF UsedUp(s) /\ RemainingInFile(s) > 0 /\ Idle(s)
    THEN /\ fetching' = [fetching EXCEPT ![s] = Lesser(CacheLen, RemainingInFile(s))]
         /\ tasks' = Append(tasks, s)
    ELSE UNCHANGED <<fetching, tasks>>

CanRead(s) == ~UsedUp(s) \/ pending[s] # <<>>

\* The buffer to read from and the place in it.
Place(s) == IF UsedUp(s) THEN <<pending[s], 0>> ELSE <<buffer[s], bufferPos[s]>>

\* can_read swaps in the pending buffer if the other is used up, pop takes one item.
Take(s) ==
    /\ CanRead(s)
    /\ TryFetch(s)
    /\ buffer' = [buffer EXCEPT ![s] = Place(s)[1]]
    /\ bufferPos' = [bufferPos EXCEPT ![s] = Place(s)[2] + 1]
    /\ pending' = IF UsedUp(s) THEN [pending EXCEPT ![s] = <<>>] ELSE pending
    /\ remaining' = [remaining EXCEPT ![s] = @ - 1]
    /\ UNCHANGED <<filePos, asleep>>

Block(s) ==
    /\ ~CanRead(s)
    /\ TryFetch(s)
    /\ asleep' = [asleep EXCEPT ![s] = TRUE]
    /\ UNCHANGED <<remaining, filePos, buffer, bufferPos, pending>>

-----------------------------------------------------------------------------
(* xxl_queue                                                               *)

InHeap == DOMAIN heap
Without(s) == [r \in InHeap \ {s} |-> heap[r]]
With(s, item) == [r \in InHeap \cup {s} |-> IF r = s THEN item ELSE heap[r]]

\* Which of several equal items std::pop_heap moves out is left open.
\* Mutant: any item is popped.
OnTop_Any(s) == s \in InHeap
OnTop(s)     == s \in InHeap /\ \A r \in InHeap : heap[r] <= heap[s]

Pull(s) ==
    \/ /\ Take(s)
       /\ heap' = With(s, Place(s)[1][Place(s)[2] + 1])
       /\ reading' = NoSource
       /\ waiting' = [waiting EXCEPT ![s] = IF reading = s THEN @ - 1 ELSE @]
    \/ /\ Block(s)
       /\ heap' = Without(s)
       /\ reading' = s
       /\ waiting' = [waiting EXCEPT ![s] = IF reading = s THEN @ ELSE @ + 1]

AddSource(s) ==
    /\ reading = NoSource
    /\ life[s] = "new"
    /\ life' = [life EXCEPT ![s] = "live"]
    /\ Pull(s)
    /\ UNCHANGED <<file, running>>

Empty(s) == remaining[s] = 0

\* pop with a source that has nothing left deletes it and returns false.
PopLast(s) ==
    /\ reading = NoSource
    /\ OnTop(s) /\ Empty(s)
    /\ life' = [life EXCEPT ![s] = "spent"]
    /\ heap' = Without(s)
    /\ UNCHANGED <<file, sourceVars, reading, tasks, running>>

Pop(s) ==
    /\ reading = NoSource
    /\ OnTop(s) /\ ~Empty(s)
    /\ Pull(s)
    /\ UNCHANGED <<file, life, running>>

\* The thread comes back from cv_.wait.
Resume(s) ==
    /\ reading = s
    /\ ~asleep[s]
    /\ Pull(s)
    /\ UNCHANGED <<file, life, running>>

\* Fetches of the sources that clear deletes may be outstanding.
Clear ==
    /\ reading = NoSource
    /\ life' = [s \in Source |-> IF s \in InHeap THEN "cleared" ELSE life[s]]
    /\ heap' = <<>>
    /\ UNCHANGED <<file, sourceVars, reading, tasks, running>>

-----------------------------------------------------------------------------
(* The manager's workers and fetch_cb                                      *)

Begin ==
    /\ tasks # <<>>
    /\ Cardinality(running) < NoThreads
    /\ tasks' = Tail(tasks)
    /\ running' = running \cup {Head(tasks)}
    /\ UNCHANGED <<file, life, sourceVars, heap, reading>>

\* Mutant: the thread that waits is notified by the last callback only.
Notifies_Last(s) == waiting[s] > 0 /\ filePos[s] + fetching[s] = Size(s)
Notifies(s)      == waiting[s] > 0

FetchCb(s) ==
    /\ s \in running
    /\ life[s] = "live"
    /\ fetching[s] # 0       \* else it throws "!fetching_ wtf?"
    /\ pending' = [pending EXCEPT ![s] = SubSeq(file[s], filePos[s] + 1, filePos[s] + fetching[s])]
    /\ filePos' = [filePos EXCEPT ![s] = @ + fetching[s]]
    /\ fetching' = [fetching EXCEPT ![s] = 0]
    /\ asleep' = [asleep EXCEPT ![s] = @ /\ ~Notifies(s)]
    /\ running' = running \ {s}
    /\ UNCHANGED <<file, life, remaining, buffer, bufferPos, waiting, heap, reading, tasks>>

\* A callback whose source has been deleted.  What it does is undefined; the model goes
\* on with the executions it does not end.
StrayCb(s) ==
    /\ s \in running
    /\ life[s] # "live"
    /\ running' = running \ {s}
    /\ UNCHANGED <<file, life, sourceVars, heap, reading, tasks>>

\* POSIX allows a wait to return without a notification.
Wake(s) ==
    /\ asleep[s]
    /\ asleep' = [asleep EXCEPT ![s] = FALSE]
    /\ UNCHANGED <<file, life, remaining, filePos, buffer, bufferPos, pending, fetching,
                   waiting, heap, reading, tasks, running>>

-----------------------------------------------------------------------------

Next ==
    \/ Clear \/ Begin
    \/ \E s \in Source :
          AddSource(s) \/ Pop(s) \/ PopLast(s) \/ Resume(s) \/ FetchCb(s) \/ StrayCb(s) \/ Wake(s)

Spec == Init /\ [][Next]_vars

\* Threads that are not blocked run; nobody has to call anything.
FairSpec ==
    /\ Spec /\ WF_vars(Begin)
    /\ \A s \in Source : WF_vars(Resume(s)) /\ WF_vars(FetchCb(s)) /\ WF_vars(StrayCb(s))

-----------------------------------------------------------------------------
(* Properties.                                                             *)

Queued == {tasks[i] : i \in DOMAIN tasks}

TypeOK ==
    /\ file \in [Source -> Files]
    /\ life \in [Source -> {"new", "live", "spent", "cleared"}]
    /\ remaining \in [Source -> Nat] /\ filePos \in [Source -> Nat]
    /\ bufferPos \in [Source -> Nat] /\ fetching \in [Source -> Nat]
    /\ waiting \in [Source -> Nat] /\ asleep \in [Source -> BOOLEAN]
    /\ buffer \in [Source -> Seq(Key)] /\ pending \in [Source -> Seq(Key)]
    /\ reading \in Source \cup {NoSource}
    /\ tasks \in Seq(Source) /\ running \subseteq Source
    /\ InHeap \subseteq Source /\ \A s \in InHeap : heap[s] \in Key

\* A source has at most one fetch outstanding, and has one exactly when fetching_ says
\* so; the buffer it will be read into is empty; and no source that ran out of items was
\* deleted under it.
Outstanding(s) ==
    /\ s \in Queued => s \notin running
    /\ \A i, j \in DOMAIN tasks : tasks[i] = s /\ tasks[j] = s => i = j
    /\ life[s] \in {"new", "spent"} => s \notin Queued \cup running
    /\ life[s] = "live" => (fetching[s] # 0 <=> s \in Queued \cup running)

FetchesExact == TypeOK /\ \A s \in Source :
    /\ Outstanding(s)
    /\ fetching[s] # 0 => /\ pending[s] = <<>>
                          /\ fetching[s] = Lesser(CacheLen, RemainingInFile(s))

\* The items at hand in the two buffers are those of the file between what was taken and
\* what is still to be fetched, each in its place, and the item in the heap is the one
\* taken last: nothing is lost, repeated or out of order.
InFileOrder == \A s \in Source :
    LET start == filePos[s] - Len(pending[s]) - Len(buffer[s])
    IN  /\ bufferPos[s] \in 0..Len(buffer[s])
        /\ start + bufferPos[s] = Size(s) - remaining[s]
        /\ \A i \in DOMAIN buffer[s] : buffer[s][i] = file[s][start + i]
        /\ \A i \in DOMAIN pending[s] : pending[s][i] = file[s][start + Len(buffer[s]) + i]
        /\ s \in InHeap => heap[s] = file[s][Size(s) - remaining[s]]

\* Both: every source reads its file piece by piece, each piece once and in order.
SourcesExact == FetchesExact /\ InFileOrder

\* Whoever sleeps for an item has a fetch on its way and is counted, so that the
\* callback notifies it.
SleeperAwaited == \A s \in Source :
    asleep[s] => reading = s /\ waiting[s] = 1 /\ fetching[s] # 0

-----------------------------------------------------------------------------

\* The merge: adding a source adds all items of its file, and of all items of all sources
\* added, pop takes a greatest.
Element == {<<s, i, k>> : s \in Source, i \in Sizes, k \in Key}
Greater(d, e) == d[3] > e[3]
WholeFile(B) == \E s \in Source, f \in Files : B = {<<s, i, f[i]>> : i \in DOMAIN f}
FirstLeft(s) == Size(s) - remaining[s] + (IF s \in InHeap THEN 0 ELSE 1)
Left(s) == {<<s, i, file[s][i]>> : i \in FirstLeft(s)..Size(s)}

Merge == INSTANCE PriorityQueue WITH
    held <- UNION {Left(s) : s \in {r \in Source : life[r] = "live"}},
    Before <- Greater, Batch <- WholeFile, Erases <- FALSE

MergesInOrder == Merge!Spec

\* add_source and pop return.
PopReturns == reading # NoSource ~> reading = NoSource
=============================================================================
