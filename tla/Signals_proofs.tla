--------------------------- MODULE Signals_proofs ---------------------------
(***************************************************************************)
(* What holds of Semaphore for any number of threads: waiters_ is exact    *)
(* whatever is asked for and released, and, when threads ask for one       *)
(* credit at a time, no credit lies idle while a thread sleeps.            *)
(*                                                                         *)
(* What holds of PeriodicFunction with one runner and any number of        *)
(* stoppers: state_ tells where the runner is, and a stop is kept once it  *)
(* has reached a sleeping runner.  With two runners both are false: both   *)
(* may pass the test of run() before either sets RUNNING.                  *)
(***************************************************************************)
EXTENDS Signals, FiniteSetTheorems, TLAPS

Inside == {t \in Thread : want[t] # 0}

SInv == TypeOK /\ WaitersExact

LEMMA CountNat == \A S \in SUBSET Thread : IsFiniteSet(S) /\ Cardinality(S) \in Nat
BY ThreadAssumption, FS_Subset, FS_CardinalityType

LEMMA WokenTyped == Woken \subseteq Inside /\ Inside \subseteq Thread
BY DEF Woken, Inside

LEMMA WantTyped ==
    ASSUME TypeOK, NEW t \in Thread
    PROVE  want[t] \in Nat /\ (want[t] # 0 => want[t] \in Demand \cup {1})
<1>1. want[t] \in Demand \cup {0, 1}
  BY DEF TypeOK
<1>2. \A n \in Demand : n \in Nat
  BY DemandAssumption
<1>3. QED BY <1>1, <1>2

\* A thread that begins to wait, or ends, changes the count by one.
LEMMA OneIn ==
    ASSUME WaitersExact, NEW t \in Thread, want[t] = 0,
           \A u \in Thread : u # t => want'[u] = want[u], want'[t] # 0, waiters' = waiters + 1
    PROVE  WaitersExact'
<1>1. Inside' = Inside \cup {t} /\ t \notin Inside
  BY DEF Inside
<1>2. Cardinality(Inside \cup {t}) = Cardinality(Inside) + 1
  BY <1>1, CountNat, WokenTyped, FS_AddElement
<1>3. QED BY <1>1, <1>2 DEF WaitersExact, Inside

LEMMA OneOut ==
    ASSUME WaitersExact, NEW t \in Thread, want[t] # 0,
           \A u \in Thread : u # t => want'[u] = want[u], want'[t] = 0, waiters' = waiters - 1
    PROVE  WaitersExact'
<1>1. Inside' = Inside \ {t} /\ t \in Inside
  BY DEF Inside
<1>2. Cardinality(Inside \ {t}) = Cardinality(Inside) - 1
  BY <1>1, CountNat, WokenTyped, FS_RemoveElement
<1>3. QED BY <1>1, <1>2 DEF WaitersExact, Inside

LEMMA NobodyMoves ==
    ASSUME WaitersExact, \A t \in Thread : want'[t] = want[t], waiters' = waiters
    PROVE  WaitersExact'
<1>1. Inside' = Inside
  BY DEF Inside
<1>2. QED BY <1>1 DEF WaitersExact, Inside

\* Who waits is counted.
LEMMA AnyoneCounted == ASSUME SInv, NEW t \in Thread, want[t] # 0 PROVE waiters \in Nat \ {0}
<1>1. IsFiniteSet(Inside) /\ Cardinality(Inside) \in Nat /\ t \in Inside
  BY CountNat, WokenTyped DEF Inside
<1>2. Cardinality(Inside) # 0
  BY <1>1, FS_EmptySet
<1>3. QED BY <1>1, <1>2 DEF SInv, WaitersExact, Inside

LEMMA SInit == Init => SInv
<1> SUFFICES ASSUME Init PROVE SInv
  OBVIOUS
<1>1. Inside = {}
  BY DEF Init, Inside
<1>2. TypeOK
  BY LevelAssumption DEF Init, TypeOK
<1>3. QED BY <1>1, <1>2, FS_EmptySet DEF Init, SInv, WaitersExact, Inside

LEMMA SAcquire ==
    ASSUME SInv, NEW t \in Thread, NEW n \in Demand, Acquire(t, n)
    PROVE  SInv'
<1>1. n \in Nat \ {0} /\ TypeOK /\ WaitersExact
  BY DemandAssumption DEF SInv
<1>2. CASE Suffices(n) /\ Take(t, n) /\ UNCHANGED waiters
  <2>1. credit' \in Nat /\ want' = want
    BY <1>1, <1>2 DEF Suffices, Take, Acquire, TypeOK
  <2>2. TypeOK'
    BY <1>1, <1>2, <2>1 DEF TypeOK, Take
  <2>3. QED BY <1>1, <1>2, <2>1, <2>2, NobodyMoves DEF SInv
<1>3. CASE Block(t, n) /\ UNCHANGED timed /\ waiters' = waiters + 1
  <2>1. /\ want'[t] = n /\ \A u \in Thread : u # t => want'[u] = want[u]
        /\ want' \in [Thread -> Demand \cup {0, 1}]
    BY <1>1, <1>3 DEF Block, TypeOK
  <2>2. TypeOK'
    BY <1>1, <1>3, <2>1 DEF TypeOK, Block, Acquire
  <2>3. QED BY <1>1, <1>3, <2>1, <2>2, OneIn DEF SInv, Acquire
<1>4. QED BY <1>2, <1>3 DEF Acquire

LEMMA STimedAcquire ==
    ASSUME SInv, NEW t \in Thread, TimedAcquire(t)
    PROVE  SInv'
<1>1. /\ TypeOK /\ WaitersExact
      /\ want'[t] = 1 /\ \A u \in Thread : u # t => want'[u] = want[u]
      /\ want' \in [Thread -> Demand \cup {0, 1}]
  BY DEF SInv, TimedAcquire, Block, TypeOK
<1>2. TypeOK'
  BY <1>1 DEF TypeOK, TimedAcquire, Block
<1>3. QED BY <1>1, <1>2, OneIn DEF SInv, TimedAcquire

LEMMA SRetry ==
    ASSUME SInv, NEW t \in Thread, Retry(t)
    PROVE  SInv'
<1>1. want[t] \in Nat \ {0} /\ want[t] \in Demand \cup {0, 1} /\ TypeOK /\ WaitersExact
  BY WantTyped DEF SInv, Retry
<1>2. CASE Suffices(want[t]) /\ Take(t, want[t]) /\ waiters' = waiters - 1
  <2>1. /\ want'[t] = 0 /\ \A u \in Thread : u # t => want'[u] = want[u]
        /\ want' \in [Thread -> Demand \cup {0, 1}]
    BY <1>1, <1>2 DEF Take, TypeOK
  <2>2. TypeOK'
    <3>1. waiters' \in Nat
      BY <1>1, <1>2, AnyoneCounted
    <3>2. credit' \in Nat
      BY <1>1, <1>2 DEF Suffices, Take, TypeOK
    <3>3. QED BY <1>1, <1>2, <2>1, <3>1, <3>2 DEF TypeOK, Take, Retry
  <2>3. QED BY <1>1, <1>2, <2>1, <2>2, OneOut DEF SInv
<1>3. CASE Block(t, want[t]) /\ UNCHANGED <<timed, waiters>>
  <2>1. want' = want
    BY <1>1, <1>3 DEF Block, TypeOK
  <2>2. TypeOK'
    BY <1>1, <1>3, <2>1 DEF TypeOK, Block, Retry
  <2>3. QED BY <1>1, <1>3, <2>1, <2>2, NobodyMoves DEF SInv
<1>4. QED BY <1>2, <1>3 DEF Retry

LEMMA SGiveUp ==
    ASSUME SInv, NEW t \in Thread, GiveUp(t)
    PROVE  SInv'
<1>1. /\ want[t] = 1 /\ t \notin cv /\ TypeOK /\ WaitersExact
      /\ want'[t] = 0 /\ \A u \in Thread : u # t => want'[u] = want[u]
      /\ want' \in [Thread -> Demand \cup {0, 1}]
  BY DEF SInv, GiveUp, TypeOK
<1>2. TypeOK'
  BY <1>1, AnyoneCounted DEF TypeOK, GiveUp, Uncount
<1>3. QED BY <1>1, <1>2, OneOut DEF SInv, GiveUp, Uncount

\* A step that wakes sleepers, and lets nobody in or out.
LEMMA SWakes ==
    ASSUME SInv, credit' \in Nat, cv' \subseteq cv, UNCHANGED <<waiters, want, timed>>,
           expired' \subseteq timed \ cv'
    PROVE  SInv'
<1>1. TypeOK'
  BY DEF SInv, TypeOK
<1>2. QED BY <1>1, NobodyMoves DEF SInv

LEMMA SNext == SInv /\ [Next]_vars => SInv'
<1> SUFFICES ASSUME SInv, [Next]_vars PROVE SInv'
  OBVIOUS
<1> USE DEF SInv
<1>1. ASSUME NEW t \in Thread, Expire(t) PROVE SInv'
  BY <1>1, SWakes DEF Expire, TypeOK
<1>2. ASSUME NEW t \in Thread, Wake(t) PROVE SInv'
  BY <1>2, SWakes DEF Wake, TypeOK
<1>3. ASSUME NEW n \in Grant, Release(n) PROVE SInv'
  <2>1. credit' \in Nat
    BY <1>3, DemandAssumption DEF Release, TypeOK
  <2>2. QED BY <1>3, <2>1, SWakes DEF Release, Notify, TypeOK
<1>4. ASSUME NEW n \in Level, Set(n) PROVE SInv'
  BY <1>4, SWakes, LevelAssumption DEF Set, Notify, TypeOK
<1>5. CASE UNCHANGED vars
  BY <1>5, SWakes DEF vars, TypeOK
<1>6. QED BY <1>1, <1>2, <1>3, <1>4, <1>5, SAcquire, STimedAcquire, SRetry, SGiveUp
          DEF Next, Resume

LEMMA SInductive == Spec => []SInv
<1>1. QED BY SInit, SNext, PTL DEF Spec

\* waiters_ is the number of threads inside acquire and timed_acquire that have not taken
\* their credits or given up, for any demands and releases.
THEOREM WaitersCorrect == Spec => []WaitersExact
<1>1. QED BY SInductive, PTL DEF SInv

-----------------------------------------------------------------------------
(* Demands of one                                                          *)

\* Those woken before stay woken, and k sleepers have joined them.
LEMMA Joining ==
    ASSUME TypeOK, UNCHANGED <<want, expired>>, NEW woken \in SUBSET cv, cv' = cv \ woken
    PROVE  /\ Cardinality(Woken') = Cardinality(Woken) + Cardinality(woken)
           /\ Cardinality(Woken) \in Nat /\ Cardinality(woken) \in Nat
<1>1. Woken' = Woken \cup woken /\ Woken \cap woken = {}
  BY DEF Woken, TypeOK
<1>2. woken \in SUBSET Thread /\ Woken \in SUBSET Thread
  BY DEF TypeOK, Woken
<1>3. /\ IsFiniteSet(woken) /\ IsFiniteSet(Woken)
      /\ Cardinality(Woken) \in Nat /\ Cardinality(woken) \in Nat
  BY <1>2, CountNat
<1>4. Cardinality(Woken \cap woken) = 0
  BY <1>1, FS_EmptySet
<1>5. Cardinality(Woken \cup woken)
        = Cardinality(Woken) + Cardinality(woken) - Cardinality(Woken \cap woken)
  BY <1>3, FS_Union
<1>6. QED BY <1>1, <1>3, <1>4, <1>5

LEMMA NotifiedAll ==
    ASSUME TypeOK, NEW woken \in SUBSET cv, Cardinality(woken) = Cardinality(cv)
    PROVE  cv \ woken = {}
<1>1. IsFiniteSet(cv) /\ IsFiniteSet(woken)
  BY CountNat DEF TypeOK
<1>2. woken = cv
  BY <1>1, FS_Subset
<1>3. QED BY <1>2

LEMMA SleepersCounted ==
    ASSUME SInv
    PROVE  Cardinality(cv) \in Nat /\ Cardinality(cv) <= waiters /\ waiters \in Nat
<1>1. cv \subseteq Inside /\ IsFiniteSet(Inside) /\ cv \in SUBSET Thread
  BY CountNat, WokenTyped DEF SInv, TypeOK, Inside
<1>2. Cardinality(cv) <= Cardinality(Inside)
  BY <1>1, FS_Subset
<1>3. QED BY <1>1, <1>2, CountNat, WokenTyped DEF SInv, WaitersExact, Inside

LEMMA NotIdleBroke ==
    ASSUME credit' = 0
    PROVE  NoIdleCredit'
<1>1. Cardinality(Woken') \in Nat
  <2>1. Woken' \in SUBSET Thread
    BY DEF Woken
  <2>2. QED BY <2>1, CountNat
<1>2. QED BY <1>1 DEF NoIdleCredit

LEMMA NotIdleTake ==
    ASSUME SInv, NoIdleCredit, NEW t \in Thread, Retry(t), want[t] = 1, Suffices(1),
           Take(t, 1)
    PROVE  NoIdleCredit'
<1>1. Woken' = Woken \ {t} /\ t \in Woken
  BY DEF SInv, TypeOK, Retry, Take, Woken
<1>2. IsFiniteSet(Woken)
  BY CountNat, WokenTyped
<1>3. Cardinality(Woken') = Cardinality(Woken) - 1
  BY <1>1, <1>2, FS_RemoveElement
<1>4. Cardinality(Woken) \in Nat
  BY CountNat, WokenTyped
<1>5. QED BY <1>3, <1>4 DEF NoIdleCredit, Take, SInv, TypeOK

LEMMA NotIdleRelease ==
    ASSUME SInv, NoIdleCredit, NEW n \in Grant, Release(n)
    PROVE  NoIdleCredit'
<1>1. PICK woken \in SUBSET cv :
          /\ Cardinality(woken) = IF Wakes(n) < Cardinality(cv) THEN Wakes(n) ELSE Cardinality(cv)
          /\ cv' = cv \ woken
  BY DEF Release, Notify
<1>2. n \in Nat /\ credit \in Nat /\ credit' = credit + n
  BY DemandAssumption DEF Release, SInv, TypeOK
<1>3. SUFFICES ASSUME cv' # {} PROVE credit' <= Cardinality(Woken')
  BY DEF NoIdleCredit
<1>4. Cardinality(woken) = n
  <2>1. Cardinality(woken) # Cardinality(cv)
    BY <1>1, <1>3, NotifiedAll DEF SInv
  <2>2. QED BY <1>1, <1>2, <2>1, SleepersCounted DEF Wakes
<1>5. /\ Cardinality(Woken') = Cardinality(Woken) + Cardinality(woken)
      /\ Cardinality(Woken) \in Nat
  BY <1>1, Joining DEF Release, SInv
<1>6. credit <= Cardinality(Woken)
  BY <1>1, <1>3 DEF NoIdleCredit
<1>7. QED BY <1>2, <1>4, <1>5, <1>6

LEMMA NotIdleSet ==
    ASSUME SInv, NEW n \in Level, Level \subseteq {0, 1}, Set(n)
    PROVE  NoIdleCredit'
<1>1. CASE n = 0
  BY <1>1, NotIdleBroke DEF Set
<1>2. CASE n = 1
  <2>1. PICK woken \in SUBSET cv :
            /\ Cardinality(woken) = IF 1 < Cardinality(cv) THEN 1 ELSE Cardinality(cv)
            /\ cv' = cv \ woken
    BY <1>2 DEF Set, Notify
  <2>2. SUFFICES ASSUME cv' # {} PROVE credit' <= Cardinality(Woken')
    BY DEF NoIdleCredit
  <2>3. Cardinality(woken) = 1
    <3>1. Cardinality(woken) # Cardinality(cv)
      BY <2>1, <2>2, NotifiedAll DEF SInv
    <3>2. QED BY <2>1, <3>1
  <2>4. /\ Cardinality(Woken') = Cardinality(Woken) + Cardinality(woken)
        /\ Cardinality(Woken) \in Nat
    BY <2>1, Joining DEF Set, SInv
  <2>5. QED BY <1>2, <2>3, <2>4 DEF Set
<1>3. QED BY <1>1, <1>2

\* Newcomers and threads that give up take no credit from those on their way.
LEMMA NotIdleElse ==
    ASSUME SInv, NoIdleCredit, credit' \in Nat, credit' <= credit, Woken' = Woken, cv = {} => cv' = {}
    PROVE  NoIdleCredit'
<1>1. Cardinality(Woken) \in Nat
  BY CountNat, WokenTyped
<1>2. QED BY <1>1 DEF NoIdleCredit, SInv, TypeOK

LEMMA NotIdleThread ==
    ASSUME SInv, NoIdleCredit, Demand \subseteq {1}, NEW t \in Thread,
           \/ \E n \in Demand : Acquire(t, n)
           \/ TimedAcquire(t) \/ Resume(t) \/ Expire(t) \/ Wake(t)
    PROVE  NoIdleCredit'
<1> USE DEF SInv
<1>1. credit \in Nat /\ (~Suffices(1) => credit = 0)
  BY DEF TypeOK, Suffices
<1>2. CASE \E n \in Demand : Acquire(t, n)
  <2>1. Acquire(t, 1)
    BY <1>2
  <2>2. CASE Suffices(1) /\ Take(t, 1) /\ UNCHANGED waiters
    <3>1. Woken' = Woken
      BY <2>1, <2>2 DEF TypeOK, Acquire, Take, Woken
    <3>2. QED BY <2>2, <1>1, <3>1, NotIdleElse DEF Take, Suffices
  <2>3. CASE ~Suffices(1) /\ Block(t, 1)
    BY <2>3, <1>1, NotIdleBroke DEF Block
  <2>4. QED BY <2>1, <2>2, <2>3 DEF Acquire
<1>3. CASE TimedAcquire(t)
  BY <1>3, <1>1, NotIdleBroke DEF TimedAcquire, Block
<1>4. CASE Retry(t)
  <2>1. want[t] = 1
    BY <1>4, WantTyped DEF Retry
  <2>2. CASE Suffices(1) /\ Take(t, 1)
    BY <1>4, <2>1, <2>2, NotIdleTake
  <2>3. CASE ~Suffices(1) /\ Block(t, 1)
    BY <2>3, <1>1, NotIdleBroke DEF Block
  <2>4. QED BY <1>4, <2>1, <2>2, <2>3 DEF Retry
<1>5. CASE GiveUp(t)
  <2>1. CASE ~Suffices(1)
    BY <1>5, <2>1, <1>1, NotIdleBroke DEF GiveUp
  <2>2. CASE t \in expired
    <3>1. Woken' = Woken
      BY <1>5, <2>2 DEF TypeOK, GiveUp, Woken
    <3>2. QED BY <1>5, <1>1, <3>1, NotIdleElse DEF GiveUp
  <2>3. QED BY <1>5, <2>1, <2>2 DEF GiveUp
<1>6. CASE Expire(t)
  <2>1. Woken' = Woken
    BY <1>6 DEF TypeOK, Expire, Woken
  <2>2. QED BY <1>6, <1>1, <2>1, NotIdleElse DEF Expire
<1>7. CASE Wake(t)
  <2>1. {t} \in SUBSET cv /\ cv' = cv \ {t} /\ UNCHANGED <<want, expired, credit>>
    BY <1>7 DEF Wake
  <2>2. Cardinality(Woken') = Cardinality(Woken) + Cardinality({t}) /\ Cardinality(Woken) \in Nat
        /\ Cardinality({t}) \in Nat
    BY <2>1, Joining
  <2>3. QED BY <1>1, <2>1, <2>2 DEF NoIdleCredit
<1>8. QED BY <1>2, <1>3, <1>4, <1>5, <1>6, <1>7 DEF Resume

\* When threads ask for one credit at a time and set leaves at most one, release and set
\* reach as many sleepers as there are credits to take, for any number of threads, any
\* releases and time-outs: no credit lies idle while a thread sleeps.
THEOREM SleepersCorrect ==
    ASSUME Demand \subseteq {1}, Level \subseteq {0, 1}
    PROVE  Spec => []SleepersKnown
<1>1. Init => NoIdleCredit
  BY DEF Init, NoIdleCredit
<1>2. SInv /\ NoIdleCredit /\ [Next]_vars => NoIdleCredit'
  <2> SUFFICES ASSUME SInv, NoIdleCredit, [Next]_vars PROVE NoIdleCredit'
    OBVIOUS
  <2>1. CASE UNCHANGED vars
    <3>1. Woken' = Woken /\ credit' = credit /\ cv' = cv
      BY <2>1 DEF vars, Woken
    <3>2. QED BY <3>1 DEF NoIdleCredit
  <2>2. QED BY <2>1, NotIdleThread, NotIdleRelease, NotIdleSet DEF Next
<1>3. SInv /\ NoIdleCredit => SleepersKnown
  BY DEF SInv, SleepersKnown
<1>4. QED BY <1>1, <1>2, <1>3, SInductive, PTL DEF Spec

-----------------------------------------------------------------------------
(* PeriodicFunction.                                                       *)

OneRunner == \A q, r \in Runner : q = r

\* The notification of a stop that finds the runner asleep cannot miss it, so that its
\* timed_wait can no longer time out.
Reached ==
    \A r \in Runner : runner[r] = "sleeping" /\ state = "STOPPING" => r \notin running_cv

PInv == Periodic!TypeOK /\ Periodic!StateTells /\ Reached

-----------------------------------------------------------------------------

\* The invariant holds before the first call.
LEMMA InitPInv == Periodic!Init => PInv
BY DEF Periodic!Init, PInv, Periodic!TypeOK, Periodic!State, Periodic!Phase,
       Periodic!StateTells, Reached

\* The blocks of run().
LEMMA RunPInv ==
    ASSUME OneRunner, PInv, NEW r \in Runner, Periodic!Enter(r) \/ Periodic!Resume(r)
    PROVE  PInv'
<1> USE DEF OneRunner, PInv, Periodic!TypeOK, Periodic!State, Periodic!Phase,
        Periodic!StateTells, Reached, Periodic!Move
<1>1. CASE Periodic!Enter(r) BY <1>1 DEF Periodic!Enter
<1>2. CASE Periodic!Begin(r) BY <1>2 DEF Periodic!Begin
<1>3. ASSUME NEW ok \in BOOLEAN, Periodic!Called(r, ok) PROVE PInv'
  <2>1. CASE ok /\ state = "RUNNING" BY <1>3, <2>1 DEF Periodic!Called
  <2>2. CASE ~(ok /\ state = "RUNNING") BY <1>3, <2>2 DEF Periodic!Called
  <2>3. QED BY <2>1, <2>2
<1>4. CASE Periodic!TimeOut(r) BY <1>4 DEF Periodic!TimeOut
<1>5. CASE Periodic!End(r)
  <2>1. state_cv' \subseteq state_cv BY <1>5 DEF Periodic!End, Periodic!NotifyAllStoppers
  <2>2. QED BY <1>5, <2>1 DEF Periodic!End, Periodic!Finished, Periodic!EndState
<1>6. QED BY <1>1, <1>2, <1>3, <1>4, <1>5 DEF Periodic!Resume

\* stop(), and wake-ups without notification.
LEMMA StopPInv ==
    ASSUME OneRunner, PInv,
           \/ \E s \in Stopper : Periodic!Stop(s) \/ Periodic!Stopped(s)
           \/ Periodic!Wake \/ UNCHANGED Periodic!vars
    PROVE  PInv'
<1> USE DEF OneRunner, PInv, Periodic!TypeOK, Periodic!State, Periodic!Phase,
        Periodic!StateTells, Reached
<1>1. ASSUME NEW s \in Stopper, Periodic!Stop(s) PROVE PInv'
  <2>1. running_cv' \subseteq running_cv BY <1>1 DEF Periodic!Stop, Periodic!NotifyOneRunner
  <2>2. ASSUME NEW r \in Runner, runner[r] = "sleeping" PROVE r \notin running_cv'
    <3>1. CASE state = "SLEEPING" BY <1>1, <2>2, <3>1 DEF Periodic!Stop, Periodic!NotifyOneRunner
    <3>2. CASE state = "STOPPING" BY <2>1, <2>2, <3>2
    <3>3. QED BY <2>2, <3>1, <3>2
  <2>3. ASSUME NEW r \in Runner PROVE runner[r] # "out"
    BY <1>1 DEF Periodic!Stop
  <2>4. QED BY <1>1, <2>1, <2>2, <2>3 DEF Periodic!Stop
<1>2. ASSUME NEW s \in Stopper, Periodic!Stopped(s) PROVE PInv'
  BY <1>2 DEF Periodic!Stopped, Periodic!IsIdle
<1>3. CASE Periodic!Wake BY <1>3 DEF Periodic!Wake
<1>4. CASE UNCHANGED Periodic!vars BY <1>4 DEF Periodic!vars
<1>5. QED BY <1>1, <1>2, <1>3, <1>4

\* Every step keeps the invariant.
LEMMA PInductive == ASSUME OneRunner PROVE Periodic!Spec => []PInv
<1>1. PInv /\ [Periodic!Next]_(Periodic!vars) => PInv'
  BY RunPInv, StopPInv DEF Periodic!Next
<1>2. QED BY InitPInv, <1>1, PTL DEF Periodic!Spec

-----------------------------------------------------------------------------

\* state_, by which stop() decides whom to notify and run() whether to sleep, tells where
\* the one runner is, however many stoppers there are.
THEOREM StateCorrect == ASSUME OneRunner PROVE Periodic!Spec => []StateTells
<1>1. PInv => StateTells BY DEF PInv, StateTells
<1>2. QED BY PInductive, <1>1, PTL

\* What a step does to a runner that has been reached: nothing, or its run() ends.
LEMMA KeptStopped ==
    ASSUME OneRunner, PInv, [Periodic!Next]_(Periodic!vars), NEW r \in Runner,
           runner[r] = "sleeping", state = "STOPPING"
    PROVE  \/ runner'[r] = "sleeping" /\ state' = "STOPPING"
           \/ runner'[r] = "out" /\ state' = "IDLE"
<1> USE DEF OneRunner, PInv, Periodic!TypeOK, Reached
<1>1. ASSUME NEW q \in Runner, Periodic!Enter(q) \/ Periodic!Resume(q)
      PROVE  runner'[r] = "out" /\ state' = "IDLE"
  <2>1. q = r OBVIOUS
  <2>2. Periodic!End(r)
    BY <1>1, <2>1 DEF Periodic!Enter, Periodic!Resume, Periodic!Begin, Periodic!Called, Periodic!TimeOut
  <2>3. QED BY <2>2 DEF Periodic!End, Periodic!EndState, Periodic!Move
<1>2. ASSUME NEW s \in Stopper, Periodic!Stop(s) \/ Periodic!Stopped(s)
      PROVE  runner'[r] = "sleeping" /\ state' = "STOPPING"
  BY <1>2 DEF Periodic!Stop, Periodic!Stopped
<1>3. ASSUME Periodic!Wake \/ UNCHANGED Periodic!vars
      PROVE  runner'[r] = "sleeping" /\ state' = "STOPPING"
  BY <1>3 DEF Periodic!Wake, Periodic!vars
<1>4. QED BY <1>1, <1>2, <1>3 DEF Periodic!Next

\* A stop() that returns from its loop finds the runner outside f_.
LEMMA ReturnsQuiet ==
    ASSUME PInv, [Periodic!Next]_(Periodic!vars), NEW s \in Stopper,
           stopper[s] = "stopping", stopper'[s] = "out", NEW r \in Runner
    PROVE  runner[r] \in {"out", "due"}
<1> USE DEF PInv, Periodic!TypeOK
<1>1. ASSUME NEW q \in Runner, Periodic!Enter(q) \/ Periodic!Resume(q) PROVE stopper' = stopper
  BY <1>1 DEF Periodic!Enter, Periodic!Resume, Periodic!Begin, Periodic!Called,
               Periodic!TimeOut, Periodic!End
<1>2. ASSUME NEW q \in Stopper, Periodic!Stop(q) PROVE stopper'[s] # "out"
  BY <1>2 DEF Periodic!Stop
<1>3. ASSUME NEW q \in Stopper, Periodic!Stopped(q) PROVE state = "IDLE"
  BY <1>3 DEF Periodic!Stopped, Periodic!IsIdle
<1>4. ASSUME Periodic!Wake \/ UNCHANGED Periodic!vars PROVE stopper' = stopper
  BY <1>4 DEF Periodic!Wake, Periodic!vars
<1>5. state = "IDLE" BY <1>1, <1>2, <1>3, <1>4 DEF Periodic!Next
<1>6. QED BY <1>5 DEF Periodic!StateTells, Periodic!Phase

\* f_ is quiet when a stop() that had to wait returns, and a stop that finds the runner
\* asleep is never undone, for any number of stoppers, time-outs and spurious wake-ups.
THEOREM QuietCorrect == ASSUME OneRunner PROVE Periodic!Spec => QuietAfterStop
<1> DEFINE Quiet ==
    /\ \A s \in Stopper : stopper[s] = "stopping" /\ stopper'[s] = "out" =>
          \A r \in Runner : runner[r] \in {"out", "due"}
    /\ \A r \in Runner : runner[r] = "sleeping" /\ state = "STOPPING" =>
          \/ runner'[r] = "sleeping" /\ state' = "STOPPING"
          \/ runner'[r] = "out" /\ state' = "IDLE"
<1>1. PInv /\ [Periodic!Next]_(Periodic!vars) => Quiet
  BY KeptStopped, ReturnsQuiet
<1>2. QED BY PInductive, <1>1, PTL DEF Periodic!Spec, Periodic!QuietAfterStop, QuietAfterStop
=============================================================================
