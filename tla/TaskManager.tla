---------------------------- MODULE TaskManager ----------------------------
(***************************************************************************)
(* The worker pool of zi::task_manager                                     *)
(* (src/zi/concurrency/detail/task_manager_impl.hpp) over a deque of tasks *)
(* (src/zi/concurrency/detail/simple_task_container.hpp).                  *)
(*                                                                         *)
(* The manager is a monitor: every member function holds mutex_ from its   *)
(* first line to its return, except where it waits on one of the two       *)
(* condition variables and where a worker runs a task.  One action below   *)
(* is one such uninterrupted stretch.  A condition variable is the set of  *)
(* threads blocked in it; a thread that left the set has been woken and    *)
(* has still to reacquire mutex_.                                          *)
(***************************************************************************)
EXTENDS Integers, FiniteSets, Sequences

CONSTANTS
    Worker,      \* threads a manager may create
    Manager,     \* threads that call start, stop, join, add_ and remove_workers
    Task,        \* the runnables that are pushed
    NoTask,      \* an empty shared_ptr<runnable>
    InitLimit,   \* worker_limit passed to the constructor, resolved
    MaxLimit,    \* bound: add_workers is not called past this limit
    Calls,       \* the member functions the environment calls
    Spurious     \* the condition variables that may wake a thread unnotified

ASSUME WorkerAssumption == IsFiniteSet(Worker)
ASSUME NoTaskAssumption == NoTask \notin Task
ASSUME LimitAssumption  == InitLimit \in Nat \ {0} /\ MaxLimit \in Nat
ASSUME SpuriousAssumption == Spurious \subseteq {"workers_cv", "manager_cv"}

VARIABLES
    worker_count,    \* worker_count_: threads that registered in run()
    worker_limit,    \* worker_limit_
    idle_workers,    \* idle_workers_
    active_workers,  \* active_workers_: the number of workers there should be
    state,           \* state_
    tasks,           \* tasks_
    thread,          \* where each worker thread is in run()
    holding,         \* the local "task" of each worker
    workers_cv,      \* workers blocked in workers_cv_
    manager,         \* what each calling thread is blocked in
    manager_cv,      \* managers blocked in manager_cv_
    owed,            \* history: the tasks queued when the manager began to stop
    heard,           \* history: the queued tasks that were pushed while RUNNING
    hasty            \* history: nobody woke a call that waited for new workers, and
                     \* the pool has not been at rest since

pool == <<worker_count, worker_limit, idle_workers, active_workers, state>>
vars == <<pool, tasks, thread, holding, workers_cv, manager, manager_cv,
          owed, heard, hasty>>

State == {"IDLE", "STARTING", "RUNNING", "STOPPING"}

\* "none": not created or returned from run();  "created": started, not yet
\* counted;  "loop": about to lock mutex_ at the top of the loop;  "waiting":
\* inside workers_cv_.wait;  "executing": running a task without mutex_.
ThreadState == {"none", "created", "loop", "waiting", "executing"}

\* The wait a call is in, named by the call it will return from.
ManagerState == {"out", "start", "add_workers", "remove_workers", "stop"}

Queued == {tasks[i] : i \in DOMAIN tasks}
Free   == {w \in Worker : thread[w] = "none"}
Least(a, b) == IF a < b THEN a ELSE b

Init ==
    /\ worker_count = 0
    /\ worker_limit = InitLimit
    /\ idle_workers = 0
    /\ active_workers = 0
    /\ state = "IDLE"
    /\ tasks = << >>
    /\ thread = [w \in Worker |-> "none"]
    /\ holding = [w \in Worker |-> NoTask]
    /\ workers_cv = {}
    /\ manager = [m \in Manager |-> "out"]
    /\ manager_cv = {}
    /\ owed = {}
    /\ heard = {}
    /\ hasty = FALSE

-----------------------------------------------------------------------------
(* The condition variables.                                                *)

\* Mutant: notify_one in place of notify_all.
NotifyAllWorkers_One ==
    workers_cv' \in IF workers_cv = {} THEN {{}}
                                      ELSE {workers_cv \ {w} : w \in workers_cv}
NotifyAllWorkers == workers_cv' = {}

\* notify_one is lost when nobody waits.
NotifyOneManager ==
    \/ manager_cv = {} /\ manager_cv' = {}
    \/ \E m \in manager_cv : manager_cv' = manager_cv \ {m}

\* The thread that makes worker_count_ what it should be reports to a manager.
\* Mutant: every thread reports.
Report_Always(count) == NotifyOneManager
Report(count) == IF count = active_workers THEN NotifyOneManager
                                           ELSE UNCHANGED manager_cv

-----------------------------------------------------------------------------
(* A worker thread: run().                                                 *)

\* The pool has the workers it should have, none on its way in or out.
AtRest == worker_count = active_workers /\ \A w \in Worker : thread[w] # "created"

\* The first block of run(): the thread counts itself, and the one that makes
\* the pool complete reports to the manager.
Register(w) ==
    /\ thread[w] = "created"
    /\ thread' = [thread EXCEPT ![w] = "loop"]
    /\ worker_count' = worker_count + 1
    /\ Report(worker_count')
    /\ UNCHANGED <<worker_limit, idle_workers, active_workers, state, tasks,
                   holding, workers_cv, manager, owed, heard>>
    /\ hasty' = (hasty /\ ~AtRest')

\* The thread owns mutex_ at the test of the inner loop: it comes from the top
\* of the loop, or was woken in workers_cv_.wait.
AtTest(w) == \/ thread[w] = "loop"
             \/ thread[w] = "waiting" /\ w \notin workers_cv

\* idle_workers_ once a woken thread has executed --idle_workers_.
IdleWithout(w) == IF thread[w] = "waiting" THEN idle_workers - 1
                                           ELSE idle_workers

Surplus == worker_count > active_workers

\* A surplus worker still serves the queue of a manager that is stopping, which
\* is how join() drains it.  Mutants: it does so in every state; it leaves
\* without a look at the queue.
MayTake_Surplus == TRUE
MayTake == ~Surplus \/ state = "STOPPING"

MustExit_Early == Surplus
MustExit == Surplus /\ ~(state = "STOPPING" /\ tasks # << >>)

\* get_pop_front.  Mutant: the task stays in the deque.
Rest_Kept == tasks
Rest == Tail(tasks)

WaitForTask(w) ==
    /\ AtTest(w)
    /\ ~Surplus /\ tasks = << >>
    /\ idle_workers' = IdleWithout(w) + 1
    /\ thread' = [thread EXCEPT ![w] = "waiting"]
    /\ workers_cv' = workers_cv \cup {w}
    /\ UNCHANGED <<worker_count, worker_limit, active_workers, state, tasks,
                   holding, manager, manager_cv, owed, heard, hasty>>

TakeTask(w) ==
    /\ AtTest(w)
    /\ tasks # << >>
    /\ MayTake
    /\ idle_workers' = IdleWithout(w)
    /\ thread' = [thread EXCEPT ![w] = "executing"]
    /\ holding' = [holding EXCEPT ![w] = Head(tasks)]
    /\ tasks' = Rest
    /\ owed' = owed \ {Head(tasks)}
    /\ heard' = heard \ {Head(tasks)}
    /\ UNCHANGED <<worker_count, worker_limit, active_workers, state,
                   workers_cv, manager, manager_cv, hasty>>

\* task->execute(); task.reset();
FinishTask(w) ==
    /\ thread[w] = "executing"
    /\ thread' = [thread EXCEPT ![w] = "loop"]
    /\ holding' = [holding EXCEPT ![w] = NoTask]
    /\ UNCHANGED <<pool, tasks, workers_cv, manager, manager_cv, owed, heard, hasty>>

Exit(w) ==
    /\ AtTest(w)
    /\ MustExit
    /\ idle_workers' = IdleWithout(w)
    /\ worker_count' = worker_count - 1
    /\ thread' = [thread EXCEPT ![w] = "none"]
    /\ Report(worker_count')
    /\ UNCHANGED <<worker_limit, active_workers, state, tasks, holding,
                   workers_cv, manager, owed, heard>>
    /\ hasty' = (hasty /\ ~AtRest')

-----------------------------------------------------------------------------
(* create_workers_nl and kill_workers_nl, called with mutex_ held.         *)

\* The threads the loop of create_workers_nl starts: none when the pool is at
\* its limit already, else count, and never past one more than the limit.
NewWorkers(count, limit) ==
    IF active_workers >= limit THEN 0
                               ELSE Least(count, limit - active_workers + 1)

\* Starts them.  Worker bounds how many threads exist at one time.
Create(n) ==
    /\ \E new \in SUBSET Free :
          /\ Cardinality(new) = n
          /\ thread' = [w \in Worker |-> IF w \in new THEN "created"
                                                      ELSE thread[w]]
    /\ active_workers' = active_workers + n

Kill(count) ==
    IF count = 0 \/ active_workers = 0
      THEN UNCHANGED <<active_workers, workers_cv>>
      ELSE /\ active_workers' = active_workers - Least(count, active_workers)
           /\ NotifyAllWorkers

\* kill_workers_nl leaves its while loop, or never comes to it.
KillDone(count) == \/ count = 0
                   \/ active_workers = 0
                   \/ worker_count = active_workers - Least(count, active_workers)

\* m blocks in manager_cv_.wait; it will return from call.
Block(m, call) ==
    /\ manager' = [manager EXCEPT ![m] = call]
    /\ manager_cv' = manager_cv \cup {m}

Idle(m) == manager[m] = "out"

\* add_workers and remove_workers change the limit only.
Dormant == state \in {"IDLE", "STOPPING"}

\* Mutant: stop() acts on a manager that is still starting.
MayStop_Starting == state \in {"STARTING", "RUNNING"}
MayStop == state = "RUNNING"

-----------------------------------------------------------------------------
(* The calls of the managing threads.  A call that returns at once and     *)
(* changes nothing (start when not IDLE, stop when not RUNNING) is no step.*)

Start(m) ==
    /\ "start" \in Calls
    /\ Idle(m)
    /\ state = "IDLE"
    /\ LET n == NewWorkers(worker_limit, worker_limit) IN
         /\ Create(n)
         /\ IF n = 0
              THEN state' = "RUNNING" /\ UNCHANGED <<manager, manager_cv>>
              ELSE state' = "STARTING" /\ Block(m, "start")
    /\ UNCHANGED <<worker_count, worker_limit, idle_workers, tasks, holding,
                   workers_cv, owed, heard, hasty>>

AddWorkers(m, count) ==
    /\ "add_workers" \in Calls
    /\ Idle(m)
    /\ worker_limit + count <= MaxLimit
    /\ worker_limit' = worker_limit + count
    /\ LET n == IF Dormant THEN 0 ELSE NewWorkers(count, worker_limit + count)
       IN  /\ Create(n)
           /\ IF n = 0 THEN UNCHANGED <<manager, manager_cv>>
                       ELSE Block(m, "add_workers")
    /\ UNCHANGED <<worker_count, idle_workers, state, tasks, holding,
                   workers_cv, owed, heard, hasty>>

RemoveWorkers(m, count) ==
    /\ "remove_workers" \in Calls
    /\ Idle(m)
    /\ worker_limit > 0
    /\ LET c == Least(count, worker_limit)
           n == IF Dormant THEN 0 ELSE c
       IN  /\ worker_limit' = worker_limit - c
           /\ Kill(n)
           /\ IF KillDone(n) THEN UNCHANGED <<manager, manager_cv>>
                             ELSE Block(m, "remove_workers")
    /\ UNCHANGED <<worker_count, idle_workers, state, tasks, thread, holding,
                   owed, heard, hasty>>

\* stop() drops the queue, join() is stop(true) and leaves it to the workers.
Stop(m, and_join) ==
    /\ (IF and_join THEN "join" ELSE "stop") \in Calls
    /\ Idle(m)
    /\ MayStop
    /\ tasks' = IF and_join THEN tasks ELSE << >>
    /\ heard' = IF and_join THEN heard ELSE {}
    /\ Kill(active_workers)
    /\ IF KillDone(active_workers)
         THEN /\ state' = "IDLE"
              /\ owed' = {}
              /\ UNCHANGED <<manager, manager_cv>>
         ELSE /\ state' = "STOPPING"
              /\ owed' = IF and_join THEN Queued ELSE {}
              /\ Block(m, "stop")
    /\ UNCHANGED <<worker_count, worker_limit, idle_workers, thread, holding, hasty>>

Woken(m, calls) == manager[m] \in calls /\ m \notin manager_cv

\* create_workers_nl waits once and does not look at what woke it.
CreateReturn(m) ==
    /\ Woken(m, {"start", "add_workers"})
    /\ manager' = [manager EXCEPT ![m] = "out"]
    /\ state' = IF manager[m] = "start" THEN "RUNNING" ELSE state
    /\ UNCHANGED <<worker_count, worker_limit, idle_workers, active_workers,
                   tasks, thread, holding, workers_cv, manager_cv, owed, heard,
                   hasty>>

KillWaitAgain(m) ==
    /\ Woken(m, {"remove_workers", "stop"})
    /\ worker_count # active_workers
    /\ manager_cv' = manager_cv \cup {m}
    /\ UNCHANGED <<pool, tasks, thread, holding, workers_cv, manager, owed,
                   heard, hasty>>

KillReturn(m) ==
    /\ Woken(m, {"remove_workers", "stop"})
    /\ worker_count = active_workers
    /\ manager' = [manager EXCEPT ![m] = "out"]
    /\ IF manager[m] = "stop" THEN state' = "IDLE" /\ owed' = {}
                              ELSE UNCHANGED <<state, owed>>
    /\ UNCHANGED <<worker_count, worker_limit, idle_workers, active_workers,
                   tasks, thread, holding, workers_cv, manager_cv, heard, hasty>>

-----------------------------------------------------------------------------
(* Pushing and clearing, from any thread, a running task included.         *)

\* A runnable is pushed again only when it is neither queued nor running.
Pushable(t) == t \notin Queued /\ \A w \in Worker : holding[w] # t

\* Mutant: off by one.
Notifies_Late == state = "RUNNING" /\ idle_workers > 1
Notifies == state = "RUNNING" /\ idle_workers > 0

Push(t, call) ==
    /\ call \in Calls
    /\ Pushable(t)
    /\ tasks' = IF call = "push_front" THEN <<t>> \o tasks ELSE Append(tasks, t)
    /\ IF Notifies THEN NotifyAllWorkers ELSE UNCHANGED workers_cv
    /\ heard' = IF state = "RUNNING" THEN heard \cup {t} ELSE heard
    /\ UNCHANGED <<pool, thread, holding, manager, manager_cv, owed, hasty>>

Clear ==
    /\ "clear" \in Calls
    /\ tasks' = << >>
    /\ owed' = {}
    /\ heard' = {}
    /\ UNCHANGED <<pool, thread, holding, workers_cv, manager, manager_cv, hasty>>

-----------------------------------------------------------------------------
(* POSIX allows pthread_cond_wait to return without a notification.        *)

WakeWorker(w) ==
    /\ "workers_cv" \in Spurious
    /\ w \in workers_cv
    /\ workers_cv' = workers_cv \ {w}
    /\ UNCHANGED <<pool, tasks, thread, holding, manager, manager_cv, owed, heard,
                   hasty>>

WakeManager(m) ==
    /\ "manager_cv" \in Spurious
    /\ m \in manager_cv
    /\ manager_cv' = manager_cv \ {m}
    /\ hasty' = (hasty \/ manager[m] \in {"start", "add_workers"})
    /\ UNCHANGED <<pool, tasks, thread, holding, workers_cv, manager, owed, heard>>

-----------------------------------------------------------------------------

Run(w) == Register(w) \/ WaitForTask(w) \/ TakeTask(w) \/ FinishTask(w) \/ Exit(w)

Resume(m) == CreateReturn(m) \/ KillWaitAgain(m) \/ KillReturn(m)

Manage(m) ==
    \/ Start(m)
    \/ \E count \in 1 .. MaxLimit : AddWorkers(m, count)
    \/ \E count \in 1 .. MaxLimit : RemoveWorkers(m, count)
    \/ \E and_join \in BOOLEAN : Stop(m, and_join)

Submit == \E t \in Task, call \in {"push_front", "push_back"} : Push(t, call)

Next ==
    \/ \E w \in Worker : Run(w) \/ WakeWorker(w)
    \/ \E m \in Manager : Manage(m) \/ Resume(m) \/ WakeManager(m)
    \/ Submit
    \/ Clear

Spec == Init /\ [][Next]_vars

\* A thread that is not blocked runs, mutex_ is never held for ever, and every
\* task returns from execute().  Nothing is assumed of the callers.
FairSpec ==
    /\ Spec
    /\ \A w \in Worker  : WF_vars(Run(w))
    /\ \A m \in Manager : WF_vars(Resume(m))

-----------------------------------------------------------------------------
(* Properties.                                                             *)

TypeOK ==
    /\ worker_count \in Nat
    /\ worker_limit \in Nat
    /\ idle_workers \in Nat
    /\ active_workers \in Nat
    /\ state \in State
    /\ tasks \in Seq(Task)
    /\ thread \in [Worker -> ThreadState]
    /\ holding \in [Worker -> Task \cup {NoTask}]
    /\ workers_cv \subseteq {w \in Worker : thread[w] = "waiting"}
    /\ manager \in [Manager -> ManagerState]
    /\ manager_cv \subseteq {m \in Manager : manager[m] # "out"}
    /\ owed \subseteq Task
    /\ heard \subseteq Task
    /\ hasty \in BOOLEAN

\* worker_count_ is the number of threads between their registration and their
\* exit and idle_workers_ the number inside workers_cv_.wait, whatever woke
\* them: push trusts the second, every termination test the first.
Registered == {w \in Worker : thread[w] \in {"loop", "waiting", "executing"}}
Waiting    == {w \in Worker : thread[w] = "waiting"}
CountersExact ==
    /\ worker_count = Cardinality(Registered)
    /\ idle_workers = Cardinality(Waiting)

\* active_workers_ follows worker_limit_ while the manager runs and is 0 else,
\* so the "<=" of the loop in create_workers_nl never starts a thread too many,
\* however add_workers, remove_workers, start and stop interleave.
LimitRespected ==
    active_workers = IF state \in {"STARTING", "RUNNING"} THEN worker_limit ELSE 0

\* STARTING and STOPPING belong to the one call that set them: no second
\* start, stop or join changes the state under it.
StateOwned ==
    /\ state = "STARTING" <=> \E m \in Manager : manager[m] = "start"
    /\ state = "STOPPING" <=> \E m \in Manager : manager[m] = "stop"
    /\ \A m1, m2 \in Manager :
          manager[m1] = manager[m2] /\ manager[m1] \in {"start", "stop"} => m1 = m2

\* The three together: counters, limit and state machine of the pool stay right however
\* the calls of its managing threads overlap.
PoolExact == CountersExact /\ LimitRespected /\ StateOwned

\* A task is in one place: once in the queue or with one worker, so it is never
\* executed twice for one push.
TaskInOnePlace ==
    /\ \A i, j \in DOMAIN tasks : tasks[i] = tasks[j] => i = j
    /\ \A w \in Worker : holding[w] # NoTask =>
          /\ holding[w] \notin Queued
          /\ \A v \in Worker : holding[v] = holding[w] => v = w

\* No worker stays asleep over a task that was pushed to a running manager:
\* push skips the notification only when nobody waits.  (A task pushed during
\* start() is not covered: push notifies nobody then, and neither does start().)
NoSleepOverTask == workers_cv # {} => heard \cap Queued = {}

\* Both: a task pushed is neither doubled nor slept over.
TasksKept == TaskInOnePlace /\ NoSleepOverTask

\* stop() and join(), when they had workers to wait for, return only after every
\* task that was queued when they began to stop has been taken, and with no
\* worker still executing.
JoinDrains ==
    [][state = "STOPPING" /\ state' = "IDLE" =>
          /\ owed \cap Queued = {}
          /\ \A w \in Worker : holding[w] = NoTask]_vars

-----------------------------------------------------------------------------
(* With one managing thread.                                               *)

\* Outside every call the pool has exactly the workers it should have: none is
\* still being created, none is still to exit.  The one exception: create_workers_nl
\* waits once and not in a loop, so that when nobody woke it the call returns before
\* its threads have come, and it is not so until the pool has come to rest.
Settled == (\A m \in Manager : Idle(m)) => AtRest \/ hasty

\* start, add_workers and remove_workers return, whatever is pushed; stop and join
\* return unless somebody keeps pushing, since the workers serve the queue even then.
CallsReturn ==
    \A m \in Manager :
        /\ manager[m] \in {"start", "add_workers", "remove_workers"} ~> manager[m] = "out"
        /\ \/ manager[m] = "stop" ~> manager[m] = "out"
           \/ []<><<Submit>>_vars

\* A task pushed to a running manager leaves the queue, unless no worker may be
\* there, or pushes at the front or removals of workers go on for ever: each of
\* them can take the worker away that was about to serve it.
Overtaken ==
    \/ \E t \in Task : Push(t, "push_front")
    \/ \E m \in Manager, count \in 1 .. MaxLimit : RemoveWorkers(m, count)
TaskServed ==
    \A t \in Task :
        \/ (t \in heard) ~> (t \notin Queued \/ worker_limit = 0 \/ state = "IDLE")
        \/ []<><<Overtaken>>_vars

-----------------------------------------------------------------------------
(* The promise of TaskPool.                                                *)

\* A task is running from the moment a worker has taken it.
Status(t) == CASE t \in Queued                        -> "queued"
               [] \E w \in Worker : holding[w] = t    -> "running"
               [] OTHER                               -> "out"

Phase == CASE state = "IDLE"     -> "idle"
           [] state = "STOPPING" -> "closing"
           [] OTHER              -> "open"

Promise == INSTANCE TaskPool WITH
    status   <- [t \in Task |-> Status(t)],
    phase    <- Phase,
    limit    <- worker_limit,
    unready  <- hasty,
    MayHurry <- "manager_cv" \in Spurious

\* One managing thread gets from the pool of threads what TaskPool promises: at
\* most worker_limit_ tasks run, none after stop or join returned, and join
\* leaves nothing that was queued when it was called, unless no worker was left or
\* a call that waited for new workers was woken by nobody.
KeepsPromise == Promise!Spec

-----------------------------------------------------------------------------
(* What the assertions at the head of start() claim.                       *)

\* ZI_ASSERT_0(worker_count_); ZI_ASSERT_0(idle_workers_);
StartFindsNoWorkers ==
    [][state = "IDLE" /\ state' \in {"STARTING", "RUNNING"} =>
          worker_count = 0 /\ idle_workers = 0]_vars
=============================================================================
