------------------------------ MODULE Threads ------------------------------
(***************************************************************************)
(* zi::thread (concurrency/pthread/thread.hpp), the thread_info each one   *)
(* shares with its pthread, and the registry all_threads_data, by which    *)
(* all_threads::join() waits for every thread ever started.                *)
(*                                                                         *)
(* thread_info and the registry have a mutex each; one action is one block *)
(* under either of them, so that what a thread does between its pthread's  *)
(* start and end interleaves with those who wait for it.  The registry is  *)
(* a static object, so that pending_count_, which its constructor leaves   *)
(* out, is zero.                                                           *)
(***************************************************************************)
EXTENDS Integers, FiniteSets

CONSTANTS
    Thread,     \* thread objects, each started at most once
    Joiner,     \* threads outside the registry that call their members
    Spurious    \* do condition variables wake threads unnotified

ASSUME ThreadAssumption == IsFiniteSet(Thread)
ASSUME SpuriousAssumption == Spurious \in BOOLEAN

VARIABLES
    at,         \* where each thread is between start() and pthread_exit
    state,      \* thread_info::state_
    detached,   \* the threads with thread_info::detached_
    sleep_cv,   \* threads blocked in their sleep_cv_
    joining,    \* <<j, t>>: j is inside t.join()
    state_cv,   \* those of them blocked in state_cv_ of t
    pending_count, running_count, finished_count,
    threads,    \* threads_
    dying,      \* dying_
    joining_all,  \* joiners inside join_all()
    dying_cv    \* those of them blocked in dying_cv_

info     == <<state, detached, sleep_cv, joining, state_cv>>
registry == <<pending_count, running_count, finished_count, threads, dying,
              joining_all, dying_cv>>
vars     == <<at, info, registry>>

State == {"CREATED", "INITIALIZED", "STARTING", "RUNNING", "SLEEPING",
          "JOINING", "JOINED"}

Place == {"out",         \* start() not called
          "pending",     \* in start(), before pthread_create
          "entry", "starting", "registered",    \* in ENTRY, before execute()
          "running", "sleeping",                \* in execute()
          "ran", "unregistered", "gone"}        \* in ENTRY, after it

Init ==
    /\ at = [t \in Thread |-> "out"]
    /\ state = [t \in Thread |-> "CREATED"]
    /\ detached = {} /\ sleep_cv = {}
    /\ joining = {} /\ state_cv = {}
    /\ pending_count = 0 /\ running_count = 0 /\ finished_count = 0
    /\ threads = {} /\ dying = FALSE
    /\ joining_all = {} /\ dying_cv = {}

Go(t, from, to) == at[t] = from /\ at' = [at EXCEPT ![t] = to]

\* thread_info leaves a state it is not in alone.
Turn(t, from, to) ==
    state' = IF state[t] = from THEN [state EXCEPT ![t] = to] ELSE state

-----------------------------------------------------------------------------
(* start() and the life of the pthread.                                    *)

\* Mutant: start() does not count the thread until it runs.
Announce_Not == UNCHANGED pending_count
Announce     == pending_count' = pending_count + 1

RegisterPending(t) ==
    /\ Go(t, "out", "pending")
    /\ Announce
    /\ UNCHANGED <<info, running_count, finished_count, threads, dying,
                   joining_all, dying_cv>>

\* initialize and pthread_create
Initialize(t, detach) ==
    /\ Go(t, "pending", "entry")
    /\ Turn(t, "CREATED", "INITIALIZED")
    /\ detached' = IF detach THEN detached \cup {t} ELSE detached \ {t}
    /\ UNCHANGED <<sleep_cv, joining, state_cv, registry>>

OnBeforeStart(t) ==
    /\ Go(t, "entry", "starting")
    /\ Turn(t, "INITIALIZED", "STARTING")
    /\ UNCHANGED <<detached, sleep_cv, joining, state_cv, registry>>

RegisterStarted(t) ==
    /\ Go(t, "starting", "registered")
    /\ threads' = threads \cup {t}
    /\ running_count' = running_count + 1
    /\ pending_count' = pending_count - 1
    /\ UNCHANGED <<info, finished_count, dying, joining_all, dying_cv>>

\* run() executes the runnable only from STARTING.
RunBegins(t) ==
    /\ Go(t, "registered", IF state[t] = "STARTING" THEN "running" ELSE "ran")
    /\ Turn(t, "STARTING", "RUNNING")
    /\ UNCHANGED <<detached, sleep_cv, joining, state_cv, registry>>

\* execute() has returned.
RunEnds(t) ==
    /\ Go(t, "running", "ran")
    /\ Turn(t, "RUNNING", "JOINING")
    /\ UNCHANGED <<detached, sleep_cv, joining, state_cv, registry>>

\* The last running thread reports to join_all.  Mutant: the last but one does.
LastOne_Early(count) == dying /\ count = 1
LastOne(count)       == dying /\ count = 0

RegisterFinished(t) ==
    /\ Go(t, "ran", "unregistered")
    /\ threads' = threads \ {t}
    /\ running_count' = running_count - 1
    /\ finished_count' = finished_count + 1
    /\ dying_cv' = IF LastOne(running_count') THEN {} ELSE dying_cv
    /\ UNCHANGED <<info, pending_count, dying, joining_all>>

NotifyJoiners(t) == state_cv' = {p \in state_cv : p[2] # t}

OnBeforeJoin(t) ==
    /\ Go(t, "unregistered", "gone")
    /\ IF state[t] = "JOINING"
         THEN Turn(t, "JOINING", "JOINED") /\ NotifyJoiners(t)
         ELSE UNCHANGED <<state, state_cv>>
    /\ UNCHANGED <<detached, sleep_cv, joining, registry>>

-----------------------------------------------------------------------------
(* this_thread::sleep and wake()                                           *)

Sleep(t) ==
    /\ Go(t, "running", "sleeping")
    /\ state[t] = "RUNNING"
    /\ Turn(t, "RUNNING", "SLEEPING")
    /\ sleep_cv' = sleep_cv \cup {t}
    /\ UNCHANGED <<detached, joining, state_cv, registry>>

TimeOut(t) ==
    /\ t \in sleep_cv
    /\ sleep_cv' = sleep_cv \ {t}
    /\ UNCHANGED <<at, state, detached, joining, state_cv, registry>>

Awake(t) == Turn(t, "SLEEPING", "RUNNING")

SleepEnds(t) ==
    /\ t \notin sleep_cv
    /\ Go(t, "sleeping", "running")
    /\ Awake(t)
    /\ UNCHANGED <<detached, sleep_cv, joining, state_cv, registry>>

\* wake() of a thread that does not sleep does nothing.
Wake(t) ==
    /\ state[t] = "SLEEPING"
    /\ sleep_cv' = sleep_cv \ {t}
    /\ UNCHANGED <<at, state, detached, joining, state_cv, registry>>

-----------------------------------------------------------------------------
(* join(), detach() and join_all()                                         *)

Free(j) == j \notin joining_all /\ \A t \in Thread : <<j, t>> \notin joining

\* join() returns at once if the thread is detached or has been joined.
Join(j, t) ==
    /\ Free(j)
    /\ t \notin detached /\ state[t] # "JOINED"
    /\ joining' = joining \cup {<<j, t>>}
    /\ state_cv' = state_cv \cup {<<j, t>>}
    /\ UNCHANGED <<at, state, detached, sleep_cv, registry>>

\* A woken joiner looks again.
Joined(t) == state[t] = "JOINED" \/ t \in detached

JoinAgain(j, t) ==
    /\ <<j, t>> \in joining \ state_cv
    /\ IF Joined(t)
         THEN joining' = joining \ {<<j, t>>} /\ UNCHANGED state_cv
         ELSE state_cv' = state_cv \cup {<<j, t>>} /\ UNCHANGED joining
    /\ UNCHANGED <<at, state, detached, sleep_cv, registry>>

Detach(t) ==
    /\ detached' = detached \cup {t}
    /\ NotifyJoiners(t)
    /\ UNCHANGED <<at, state, sleep_cv, joining, registry>>

\* Mutant: join_all waits for running threads only.
AllDone_Running == running_count = 0
AllDone == running_count = 0 /\ pending_count = 0

JoinAll(j) ==
    /\ Free(j)
    /\ dying' = TRUE
    /\ IF AllDone
         THEN UNCHANGED <<joining_all, dying_cv>>
         ELSE joining_all' = joining_all \cup {j} /\ dying_cv' = dying_cv \cup {j}
    /\ UNCHANGED <<at, info, pending_count, running_count, finished_count, threads>>

JoinAllAgain(j) ==
    /\ j \in joining_all \ dying_cv
    /\ IF AllDone
         THEN joining_all' = joining_all \ {j} /\ UNCHANGED dying_cv
         ELSE dying_cv' = dying_cv \cup {j} /\ UNCHANGED joining_all
    /\ UNCHANGED <<at, info, pending_count, running_count, finished_count, threads, dying>>

\* POSIX allows a wait to return without a notification.
WakeJoiner(j) ==
    /\ Spurious
    /\ \/ /\ \E t \in Thread : <<j, t>> \in state_cv /\ state_cv' = state_cv \ {<<j, t>>}
          /\ UNCHANGED dying_cv
       \/ j \in dying_cv /\ dying_cv' = dying_cv \ {j} /\ UNCHANGED state_cv
    /\ UNCHANGED <<at, state, detached, sleep_cv, joining, pending_count,
                   running_count, finished_count, threads, dying, joining_all>>

-----------------------------------------------------------------------------

\* Everything a thread does from start() on, but sleep and end its run.
Advance(t) ==
    \/ \E detach \in BOOLEAN : Initialize(t, detach)
    \/ OnBeforeStart(t) \/ RegisterStarted(t) \/ RunBegins(t)
    \/ TimeOut(t) \/ SleepEnds(t)
    \/ RegisterFinished(t) \/ OnBeforeJoin(t)

Next ==
    \/ \E t \in Thread :
          RegisterPending(t) \/ Advance(t) \/ RunEnds(t) \/ Sleep(t) \/ Wake(t) \/ Detach(t)
    \/ \E j \in Joiner, t \in Thread : Join(j, t) \/ JoinAgain(j, t)
    \/ \E j \in Joiner : JoinAll(j) \/ JoinAllAgain(j) \/ WakeJoiner(j)

Spec == Init /\ [][Next]_vars

\* Threads run, timeouts come and every runnable returns in the end, however often
\* it sleeps; nobody has to start a thread or to wait for one.
FairSpec ==
    /\ Spec
    /\ \A t \in Thread : WF_vars(Advance(t)) /\ SF_vars(RunEnds(t))
    /\ \A j \in Joiner : WF_vars(JoinAllAgain(j))
    /\ \A j \in Joiner, t \in Thread : WF_vars(JoinAgain(j, t))

-----------------------------------------------------------------------------
(* Properties.                                                             *)

TypeOK ==
    /\ at \in [Thread -> Place]
    /\ state \in [Thread -> State]
    /\ detached \subseteq Thread
    /\ sleep_cv \subseteq {t \in Thread : at[t] = "sleeping"}
    /\ joining \subseteq Joiner \X Thread
    /\ state_cv \subseteq joining
    /\ pending_count \in Nat /\ running_count \in Nat /\ finished_count \in Nat
    /\ threads \subseteq Thread
    /\ dying \in BOOLEAN
    /\ joining_all \subseteq Joiner
    /\ dying_cv \subseteq joining_all

\* The three counts of the registry partition the threads ever started, at any
\* moment of their start and end; a thread is in threads_ while it counts as running.
AtAny(places) == {t \in Thread : at[t] \in places}
Alive == {"registered", "running", "sleeping", "ran"}
CountsExact ==
    /\ pending_count  = Cardinality(AtAny({"pending", "entry", "starting"}))
    /\ running_count  = Cardinality(AtAny(Alive))
    /\ finished_count = Cardinality(AtAny({"unregistered", "gone"}))
    /\ threads = AtAny(Alive)

\* state_ keeps step with the thread, whatever sleeps and wakes happen, so that no
\* step of ENTRY finds the wrong state and drops out before JOINED.
StateFollows ==
    \A t \in Thread :
        state[t] = CASE at[t] \in {"out", "pending"}       -> "CREATED"
                     [] at[t] = "entry"                    -> "INITIALIZED"
                     [] at[t] \in {"starting", "registered"} -> "STARTING"
                     [] at[t] = "running"                  -> "RUNNING"
                     [] at[t] = "sleeping"                 -> "SLEEPING"
                     [] at[t] \in {"ran", "unregistered"}  -> "JOINING"
                     [] at[t] = "gone"                     -> "JOINED"

\* Both: the registry counts every thread once, and every thread goes all the way.
RegistryExact == CountsExact /\ StateFollows

\* all_threads::join() returns only when no thread that was started is unfinished, one
\* whose pthread has not reached the registry yet included; join() only when the thread
\* has left the registry, or has been detached.
JoinsExact ==
    [][/\ \A j \in Joiner : j \in joining_all /\ j \notin joining_all' =>
             AtAny({"pending", "entry", "starting"} \cup Alive) = {}
       /\ \A p \in joining : p \notin joining' =>
             at[p[2]] = "gone" \/ p[2] \in detached]_vars

\* all_threads::join() returns, and join() if the thread is ever started.
JoinsReturn ==
    /\ \A j \in Joiner : (j \in joining_all) ~> (j \notin joining_all)
    /\ \A j \in Joiner, t \in Thread :
          (<<j, t>> \in joining /\ at[t] # "out") ~> (<<j, t>> \notin joining)
=============================================================================
