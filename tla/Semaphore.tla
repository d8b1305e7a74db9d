----------------------------- MODULE Semaphore -----------------------------
(***************************************************************************)
(* zi::semaphore (src/zi/concurrency/semaphore.hpp).  release wakes as     *)
(* many waiters as it adds credits, no more: waiters_, which also counts   *)
(* those already woken, tells it how many there can be.  mutex m_ is held  *)
(* except inside cv_.wait, so one action is a member function up to its    *)
(* return or its block, or a woken thread from there on.                   *)
(***************************************************************************)
EXTENDS Integers, FiniteSets

CONSTANTS
    Thread,
    Demand,      \* the arguments of acquire
    Grant,       \* the arguments of release
    Level,       \* the arguments of set
    InitCredit,  \* the argument of the constructor
    MaxCredit,   \* bound of the model: the users hold back releases above it
    Spurious     \* does cv_ wake threads unnotified

ASSUME ThreadAssumption == IsFiniteSet(Thread)
ASSUME DemandAssumption == Demand \subseteq Nat \ {0} /\ Grant \subseteq Nat \ {0}
ASSUME LevelAssumption == Level \subseteq Nat /\ InitCredit \in Nat /\ MaxCredit \in Nat
ASSUME SpuriousAssumption == Spurious \in BOOLEAN

VARIABLES
    credit,   \* credit_
    waiters,  \* waiters_
    cv,       \* threads blocked in cv_
    want,     \* what each thread inside the loop of an acquire asks for, or 0
    timed,    \* those of them in timed_acquire
    expired   \* those of them whose wait has timed out

vars == <<credit, waiters, cv, want, timed, expired>>

Init ==
    /\ credit = InitCredit
    /\ waiters = 0
    /\ cv = {}
    /\ want = [t \in Thread |-> 0]
    /\ timed = {} /\ expired = {}

-----------------------------------------------------------------------------
(* acquire, timed_acquire                                                  *)

Suffices(n) == credit >= n

Take(t, n) ==
    /\ credit' = credit - n
    /\ want' = [want EXCEPT ![t] = 0]
    /\ timed' = timed \ {t}
    /\ UNCHANGED <<cv, expired>>

Block(t, n) ==
    /\ want' = [want EXCEPT ![t] = n]
    /\ cv' = cv \cup {t}
    /\ UNCHANGED <<credit, expired>>

Acquire(t, n) ==
    /\ want[t] = 0
    /\ \/ Suffices(n) /\ Take(t, n) /\ UNCHANGED waiters
       \/ ~Suffices(n) /\ Block(t, n) /\ UNCHANGED timed /\ waiters' = waiters + 1

\* One that need not wait is Acquire(t, 1).
TimedAcquire(t) ==
    /\ want[t] = 0
    /\ ~Suffices(1)
    /\ Block(t, 1)
    /\ timed' = timed \cup {t}
    /\ waiters' = waiters + 1

Retry(t) ==
    /\ want[t] # 0 /\ t \notin cv \cup expired
    /\ \/ Suffices(want[t]) /\ Take(t, want[t]) /\ waiters' = waiters - 1
       \/ ~Suffices(want[t]) /\ Block(t, want[t]) /\ UNCHANGED <<timed, waiters>>

\* pthread_cond_timedwait gives up; the thread has still to reacquire m_.
Expire(t) ==
    /\ t \in timed \cap cv
    /\ cv' = cv \ {t}
    /\ expired' = expired \cup {t}
    /\ UNCHANGED <<credit, waiters, want, timed>>

\* Mutant: the early return after a time-out does not count the thread out.
Uncount_Not == UNCHANGED waiters
Uncount     == waiters' = waiters - 1

\* timed_acquire returns false: without a look at credit_ after a time-out, and
\* after a wake-up if there is no credit and no time left.
GiveUp(t) ==
    /\ \/ t \in expired
       \/ t \in timed \ cv /\ ~Suffices(1)
    /\ want' = [want EXCEPT ![t] = 0]
    /\ timed' = timed \ {t}
    /\ expired' = expired \ {t}
    /\ Uncount
    /\ UNCHANGED <<credit, cv>>

-----------------------------------------------------------------------------
(* release, set                                                            *)

\* notify_one, k times
Notify(k) == \E woken \in SUBSET cv :
    /\ Cardinality(woken) = IF k < Cardinality(cv) THEN k ELSE Cardinality(cv)
    /\ cv' = cv \ woken

\* The branch of release that calls notify_all is never taken: n >> 1 is less than
\* waiters_ once n is at most waiters_.  Mutant: one notification
\* for any n.
Wakes_One(n) == IF waiters = 0 THEN 0 ELSE 1
Wakes(n)     == IF n < waiters THEN n ELSE waiters

Release(n) ==
    /\ credit + n <= MaxCredit
    /\ credit' = credit + n
    /\ Notify(Wakes(n))
    /\ UNCHANGED <<waiters, want, timed, expired>>

\* set wakes one thread, whatever n is.
Set(n) ==
    /\ credit' = n
    /\ Notify(IF n = 0 THEN 0 ELSE 1)
    /\ UNCHANGED <<waiters, want, timed, expired>>

\* POSIX allows a wait to return without a notification.
Wake(t) ==
    /\ Spurious
    /\ t \in cv
    /\ cv' = cv \ {t}
    /\ UNCHANGED <<credit, waiters, want, timed, expired>>

-----------------------------------------------------------------------------

Resume(t) == Retry(t) \/ GiveUp(t)

Next ==
    \/ \E t \in Thread :
          \/ \E n \in Demand : Acquire(t, n)
          \/ TimedAcquire(t) \/ Resume(t) \/ Expire(t) \/ Wake(t)
    \/ \E n \in Grant : Release(n)
    \/ \E n \in Level : Set(n)

Spec == Init /\ [][Next]_vars

\* Threads that are not blocked run; nobody has to release.
FairSpec == Spec /\ \A t \in Thread : WF_vars(Resume(t))

-----------------------------------------------------------------------------
(* Properties.                                                             *)

TypeOK ==
    /\ credit \in Nat
    /\ waiters \in Nat
    /\ want \in [Thread -> Demand \cup {0, 1}]
    /\ cv \subseteq {t \in Thread : want[t] # 0}
    /\ timed \subseteq {t \in Thread : want[t] = 1}
    /\ expired \subseteq timed \ cv

\* waiters_ counts the threads between the two updates around the wait, woken or
\* not: release relies on it to reach every thread that sleeps.
WaitersExact == waiters = Cardinality({t \in Thread : want[t] # 0})

Woken == {t \in Thread : want[t] # 0} \ (cv \cup expired)

\* While a thread sleeps, each credit there is has a woken thread on its way to take
\* it, though time-outs and newcomers interfere.  Holds when all demands are 1 and
\* set leaves at most one credit, since both wake one thread at a time.
NoIdleCredit == cv # {} => credit <= Cardinality(Woken)

\* Both: release knows of every sleeper, and leaves none with a credit to take.
SleepersKnown == WaitersExact /\ NoIdleCredit

\* Credits do not lie about while threads wait, unless more and more come.
CreditIsTaken ==
    (credit > 0 /\ \E t \in Thread : want[t] # 0)
        ~> (credit = 0 \/ \A t \in Thread : want[t] = 0)
=============================================================================
