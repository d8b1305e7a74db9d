------------------------- MODULE TaskManager_proofs -------------------------
(***************************************************************************)
(* What holds of TaskManager for any number of workers, managing threads   *)
(* and tasks, whatever they call and whatever wakes them.                  *)
(***************************************************************************)
EXTENDS TaskManager, FiniteSetTheorems, SequenceTheorems, TLAPS

-----------------------------------------------------------------------------
(* Sequences and finite sets.                                              *)

Elems(s) == {s[i] : i \in DOMAIN s}
Distinct(s) == \A i, j \in DOMAIN s : s[i] = s[j] => i = j

\* Queued is the set of elements of tasks: popping removes the head from it, and
\* nothing else when no element occurs twice.
LEMMA ElemsOfTail ==
    ASSUME NEW S, NEW s \in Seq(S), s # << >>
    PROVE  /\ Head(s) \in Elems(s) /\ Head(s) \in S /\ Tail(s) \in Seq(S)
           /\ Elems(Tail(s)) \subseteq Elems(s)
           /\ Elems(s) \ {Head(s)} \subseteq Elems(Tail(s))
           /\ Distinct(s) => Distinct(Tail(s)) /\ Head(s) \notin Elems(Tail(s))
<1> DEFINE t == Tail(s)
<1>1. /\ Len(s) \in Nat /\ DOMAIN s = 1 .. Len(s)
      /\ Len(t) \in Nat /\ DOMAIN t = 1 .. Len(t)
      /\ Head(s) \in S /\ t \in Seq(S) /\ Len(t) = Len(s) - 1
      /\ \A i \in 1 .. Len(t) : t[i] = s[i + 1]
  BY HeadTailProperties, LenProperties
<1>2. Head(s) = s[1]
  OBVIOUS
<1> HIDE DEF t
<1>3. Head(s) \in Elems(s) /\ Elems(t) \subseteq Elems(s)
  BY <1>1, <1>2 DEF Elems
<1>4. ASSUME NEW i \in DOMAIN s, s[i] # Head(s)
      PROVE  s[i] \in Elems(t)
  <2>1. i - 1 \in 1 .. Len(t) /\ t[i - 1] = s[i]
    BY <1>1, <1>2, <1>4
  <2>2. QED BY <2>1, <1>1 DEF Elems
<1>5. ASSUME Distinct(s)
      PROVE  Distinct(t) /\ Head(s) \notin Elems(t)
  <2>1. \A i \in DOMAIN t : i \in Nat /\ i > 0 /\ i + 1 \in DOMAIN s /\ t[i] = s[i + 1]
    BY <1>1
  <2>2. Distinct(t)
    <3> SUFFICES ASSUME NEW i \in DOMAIN t, NEW j \in DOMAIN t, t[i] = t[j]
                 PROVE  i = j
      BY DEF Distinct
    <3>1. i + 1 = j + 1
      BY <1>5, <2>1 DEF Distinct
    <3>2. QED BY <2>1, <3>1
  <2>3. ASSUME NEW i \in DOMAIN t
        PROVE  t[i] # Head(s)
    <3>1. 1 \in DOMAIN s /\ i + 1 # 1
      BY <1>1, <2>1
    <3>2. QED BY <1>2, <1>5, <2>1, <3>1 DEF Distinct
  <2>4. QED BY <2>2, <2>3 DEF Elems
<1>6. QED BY <1>1, <1>3, <1>4, <1>5 DEF t, Elems

\* Pushing at either end adds the task, and keeps the elements apart when it is
\* a new one.
LEMMA ElemsOfPush ==
    ASSUME NEW S, NEW s \in Seq(S), NEW e \in S, NEW t, t = Append(s, e) \/ t = <<e>> \o s
    PROVE  /\ t \in Seq(S) /\ Elems(t) = Elems(s) \cup {e}
           /\ Distinct(s) /\ e \notin Elems(s) => Distinct(t)
<1>1. Len(s) \in Nat /\ DOMAIN s = 1 .. Len(s)
  BY LenProperties
<1>2. CASE t = Append(s, e)
  <2>1. /\ t \in Seq(S) /\ DOMAIN t = 1 .. Len(s) + 1
        /\ \A i \in 1 .. Len(s) : t[i] = s[i]
        /\ t[Len(s) + 1] = e
    BY <1>2, <1>1, AppendProperties, LenProperties
  <2>2. \A i \in DOMAIN t : i \in DOMAIN s \/ i = Len(s) + 1
    BY <2>1, <1>1
  <2>3. QED BY <1>1, <2>1, <2>2 DEF Elems, Distinct
<1>3. CASE t = <<e>> \o s
  <2>1. <<e>> \in Seq(S) /\ Len(<<e>>) = 1 /\ <<e>>[1] = e
    OBVIOUS
  <2>2. /\ t \in Seq(S) /\ Len(t) = 1 + Len(s)
        /\ \A i \in 1 .. 1 + Len(s) : t[i] = IF i <= 1 THEN <<e>>[i] ELSE s[i - 1]
    BY <1>3, <2>1, ConcatProperties
  <2>3. /\ DOMAIN t = 1 .. Len(s) + 1
        /\ t[1] = e
        /\ \A i \in 1 .. Len(s) : t[i + 1] = s[i]
    <3>1. Len(s) + 1 = 1 + Len(s) /\ 1 \in 1 .. 1 + Len(s)
      BY <1>1
    <3>2. DOMAIN t = 1 .. Len(s) + 1 /\ t[1] = e
      BY <2>1, <2>2, <3>1, LenProperties
    <3>3. ASSUME NEW i \in 1 .. Len(s)
          PROVE  t[i + 1] = s[i]
      <4>1. i + 1 \in 1 .. 1 + Len(s) /\ ~(i + 1 <= 1) /\ (i + 1) - 1 = i
        BY <1>1
      <4>2. QED BY <2>1, <2>2, <4>1
    <3>4. QED BY <3>2, <3>3
  <2>4. ASSUME NEW i \in DOMAIN t, i # 1
        PROVE  i - 1 \in DOMAIN s /\ t[i] = s[i - 1]
    BY <1>1, <2>2, <2>3, <2>4
  <2>5. Elems(t) = Elems(s) \cup {e}
    <3>1. ASSUME NEW i \in DOMAIN s
          PROVE  s[i] \in Elems(t)
      <4>1. i + 1 \in DOMAIN t /\ t[i + 1] = s[i]
        BY <1>1, <2>3
      <4>2. QED BY <4>1 DEF Elems
    <3>2. e \in Elems(t)
      BY <1>1, <2>3 DEF Elems
    <3>3. Elems(t) \subseteq Elems(s) \cup {e}
      BY <2>3, <2>4 DEF Elems
    <3>4. QED BY <3>1, <3>2, <3>3 DEF Elems
  <2>6. Distinct(s) /\ e \notin Elems(s) => Distinct(t)
    <3> SUFFICES ASSUME Distinct(s), e \notin Elems(s),
                        NEW i \in DOMAIN t, NEW j \in DOMAIN t, t[i] = t[j]
                 PROVE  i = j
      BY DEF Distinct
    <3>1. \A k \in DOMAIN t : k # 1 => t[k] # e
      BY <2>4 DEF Elems
    <3>2. CASE i = 1 \/ j = 1
      BY <2>3, <3>1, <3>2
    <3>3. CASE i # 1 /\ j # 1
      <4>1. i - 1 = j - 1
        BY <2>4, <3>3 DEF Distinct
      <4>2. i \in Int /\ j \in Int
        BY <1>1, <2>3
      <4>3. QED BY <4>1, <4>2
    <3>4. QED BY <3>2, <3>3
  <2>7. QED BY <2>2, <2>5, <2>6
<1>4. QED BY <1>2, <1>3

LEMMA CountNat == \A S \in SUBSET Worker : Cardinality(S) \in Nat
BY WorkerAssumption, FS_Subset, FS_CardinalityType

\* The workers are finitely many, so their subsets can be counted.
LEMMA CountOne ==
    ASSUME NEW S \in SUBSET Worker, NEW w \in Worker
    PROVE  /\ Cardinality(S) \in Nat
           /\ w \in S => Cardinality(S \ {w}) = Cardinality(S) - 1 /\ Cardinality(S) > 0
           /\ w \notin S => Cardinality(S \cup {w}) = Cardinality(S) + 1
<1>1. IsFiniteSet(S)
  BY WorkerAssumption, FS_Subset
<1>2. Cardinality(S) \in Nat /\ (Cardinality(S) = 0 <=> S = {})
  BY <1>1, FS_CardinalityType, FS_EmptySet
<1>3. Cardinality(S \ {w}) = IF w \in S THEN Cardinality(S) - 1 ELSE Cardinality(S)
  BY <1>1, FS_RemoveElement
<1>4. Cardinality(S \cup {w}) = IF w \in S THEN Cardinality(S) ELSE Cardinality(S) + 1
  BY <1>1, FS_AddElement
<1>5. QED BY <1>2, <1>3, <1>4

-----------------------------------------------------------------------------
(* Type correctness and the counters.  The counters are natural numbers    *)
(* only because they count threads, so the two go together.                *)

USE DEF Registered, Waiting

\* Every variable keeps its type and worker_count_ and idle_workers_ count
\* exactly the registered and the waiting threads, in every interleaving.
Typed == TypeOK /\ CountersExact

\* One step of a worker that moves it between ThreadStates.
LEMMA CountersMove ==
    ASSUME Typed, NEW w \in Worker, NEW to \in ThreadState,
           thread' = [thread EXCEPT ![w] = to]
    PROVE  /\ thread' \in [Worker -> ThreadState]
           /\ Cardinality(Registered') =
                 worker_count
                 - (IF w \in Registered THEN 1 ELSE 0)
                 + (IF to \in {"loop", "waiting", "executing"} THEN 1 ELSE 0)
           /\ Cardinality(Waiting') =
                 idle_workers
                 - (IF w \in Waiting THEN 1 ELSE 0)
                 + (IF to = "waiting" THEN 1 ELSE 0)
<1> USE DEF Typed, TypeOK, CountersExact
<1>1. /\ Registered' = IF to \in {"loop", "waiting", "executing"}
                         THEN Registered \cup {w} ELSE Registered \ {w}
      /\ Waiting' = IF to = "waiting" THEN Waiting \cup {w} ELSE Waiting \ {w}
  OBVIOUS
<1>0. worker_count = Cardinality(Registered) /\ idle_workers = Cardinality(Waiting)
      /\ worker_count \in Nat /\ idle_workers \in Nat
  OBVIOUS
<1>2. Registered \in SUBSET Worker /\ Waiting \in SUBSET Worker
  OBVIOUS
<1> HIDE DEF Registered, Waiting, Typed, TypeOK, CountersExact
<1>3. /\ w \in Registered => Cardinality(Registered \ {w}) = worker_count - 1
                              /\ Registered \cup {w} = Registered
      /\ w \notin Registered => Cardinality(Registered \cup {w}) = worker_count + 1
                              /\ Registered \ {w} = Registered
  BY <1>0, <1>2, CountOne
<1>4. /\ w \in Waiting => Cardinality(Waiting \ {w}) = idle_workers - 1
                              /\ Waiting \cup {w} = Waiting
      /\ w \notin Waiting => Cardinality(Waiting \cup {w}) = idle_workers + 1
                              /\ Waiting \ {w} = Waiting
  BY <1>0, <1>2, CountOne
<1>5. thread' \in [Worker -> ThreadState]
  BY DEF Typed, TypeOK
<1>6. Cardinality(Registered') =
                 worker_count
                 - (IF w \in Registered THEN 1 ELSE 0)
                 + (IF to \in {"loop", "waiting", "executing"} THEN 1 ELSE 0)
  <2>1. CASE to \in {"loop", "waiting", "executing"}
    <3>1. Registered' = Registered \cup {w}
      BY <1>1, <2>1
    <3>2. QED BY <1>0, <1>3, <2>1, <3>1
  <2>2. CASE to \notin {"loop", "waiting", "executing"}
    <3>1. Registered' = Registered \ {w}
      BY <1>1, <2>2
    <3>2. QED BY <1>0, <1>3, <2>2, <3>1
  <2>3. QED BY <2>1, <2>2
<1>7. Cardinality(Waiting') =
                 idle_workers
                 - (IF w \in Waiting THEN 1 ELSE 0)
                 + (IF to = "waiting" THEN 1 ELSE 0)
  <2>1. CASE to = "waiting"
    <3>1. Waiting' = Waiting \cup {w}
      BY <1>1, <2>1
    <3>2. QED BY <1>0, <1>4, <2>1, <3>1
  <2>2. CASE to # "waiting"
    <3>1. Waiting' = Waiting \ {w}
      BY <1>1, <2>2
    <3>2. w \in Waiting => Cardinality(Waiting') = idle_workers - 1
      BY <1>4, <3>1
    <3>3. w \notin Waiting => Cardinality(Waiting') = idle_workers
      BY <1>0, <1>4, <3>1
    <3>4. QED BY <1>0, <2>2, <3>2, <3>3
  <2>3. QED BY <2>1, <2>2
<1>8. QED BY <1>5, <1>6, <1>7

\* Starting threads changes neither counter.
LEMMA CreateKeepsCounters ==
    ASSUME Typed, NEW n \in Nat, Create(n)
    PROVE  /\ thread' \in [Worker -> ThreadState]
           /\ active_workers' \in Nat
           /\ Registered' = Registered /\ Waiting' = Waiting
<1>1. PICK new \in SUBSET Free :
          thread' = [w \in Worker |-> IF w \in new THEN "created" ELSE thread[w]]
  BY DEF Create
<1>2. \A w \in Worker : /\ w \in new => thread[w] = "none" /\ thread'[w] = "created"
                        /\ w \notin new => thread'[w] = thread[w]
  BY <1>1 DEF Free
<1>3. thread' \in [Worker -> ThreadState]
  BY <1>1 DEF Typed, TypeOK, ThreadState
<1>4. Registered' = Registered /\ Waiting' = Waiting
  BY <1>2
<1>5. active_workers' \in Nat
  BY DEF Create, Typed, TypeOK
<1>6. QED BY <1>3, <1>4, <1>5

\* Queued and the two history sets stay sets of tasks.
LEMMA QueuedTyped == TypeOK => Queued \subseteq Task
<1> SUFFICES ASSUME TypeOK, NEW i \in DOMAIN tasks PROVE tasks[i] \in Task
  BY DEF Queued
<1>1. QED BY LenProperties DEF TypeOK

LEMMA NewWorkersTyped ==
    ASSUME active_workers \in Nat, NEW count \in Nat, NEW limit \in Nat
    PROVE  NewWorkers(count, limit) \in Nat
BY DEF NewWorkers, Least

LEMMA KillTyped ==
    ASSUME TypeOK, NEW count \in Nat, Kill(count)
    PROVE  active_workers' \in Nat /\ workers_cv' \subseteq workers_cv
BY DEF TypeOK, Kill, Least, NotifyAllWorkers

LEMMA TypedInit == Init => Typed
<1> SUFFICES ASSUME Init PROVE Typed
  OBVIOUS
<1>0. hasty \in BOOLEAN
  BY DEF Init
<1>1. TypeOK
  BY <1>0, LimitAssumption, NoTaskAssumption
  DEF Init, TypeOK, State, ThreadState, ManagerState
<1>2. Registered = {} /\ Waiting = {}
  BY DEF Init
<1>3. QED BY <1>1, <1>2, FS_EmptySet DEF Init, Typed, CountersExact

LEMMA TypedRun ==
    ASSUME Typed, NEW w \in Worker, Run(w)
    PROVE  Typed'
<1>0. TypeOK /\ CountersExact
  BY DEF Typed
<1>1. CASE Register(w)
  <2>1. w \notin Registered /\ w \notin Waiting /\ "loop" \in ThreadState
    BY <1>1 DEF Register, ThreadState
  <2>2. /\ thread' \in [Worker -> ThreadState]
        /\ Cardinality(Registered') = worker_count + 1
        /\ Cardinality(Waiting') = idle_workers
    <3>1. /\ thread' \in [Worker -> ThreadState]
          /\ Cardinality(Registered') = worker_count - 0 + 1
          /\ Cardinality(Waiting') = idle_workers - 0 + 0
      BY <1>1, <2>1, CountersMove DEF Register
    <3>2. QED BY <1>0, <3>1 DEF TypeOK
  <2>3. manager_cv' \subseteq manager_cv
    BY <1>1 DEF Register, Report, NotifyOneManager
  <2>4. workers_cv' \subseteq {v \in Worker : thread'[v] = "waiting"}
    BY <1>0, <1>1 DEF Register, TypeOK
  <2>5. QED BY <1>0, <1>1, <2>2, <2>3, <2>4 DEF Register, Typed, TypeOK, CountersExact
<1>2. CASE WaitForTask(w)
  <2>1. w \in Registered /\ "waiting" \in ThreadState
        /\ (w \in Waiting <=> thread[w] = "waiting")
    BY <1>2 DEF WaitForTask, AtTest, ThreadState
  <2>2. /\ thread' \in [Worker -> ThreadState]
        /\ Cardinality(Registered') = worker_count
        /\ Cardinality(Waiting') = idle_workers'
        /\ idle_workers' \in Nat
    <3>1. /\ thread' \in [Worker -> ThreadState]
          /\ Cardinality(Registered') = worker_count - 1 + 1
          /\ Cardinality(Waiting') = idle_workers - (IF w \in Waiting THEN 1 ELSE 0) + 1
      BY <1>2, <2>1, CountersMove DEF WaitForTask
    <3>2. idle_workers' = Cardinality(Waiting')
      BY <1>0, <1>2, <2>1, <3>1 DEF WaitForTask, IdleWithout, TypeOK
    <3>3. Waiting' \in SUBSET Worker
      OBVIOUS
    <3>4. QED BY <1>0, <3>1, <3>2, <3>3, CountNat DEF TypeOK
  <2>3. workers_cv' \subseteq {v \in Worker : thread'[v] = "waiting"}
    BY <1>0, <1>2 DEF WaitForTask, TypeOK
  <2>4. QED BY <1>0, <1>2, <2>2, <2>3 DEF WaitForTask, Typed, TypeOK, CountersExact
<1>3. CASE TakeTask(w)
  <2>1. w \in Registered /\ "executing" \in ThreadState
        /\ (w \in Waiting <=> thread[w] = "waiting")
    BY <1>3 DEF TakeTask, AtTest, ThreadState
  <2>2. /\ thread' \in [Worker -> ThreadState]
        /\ Cardinality(Registered') = worker_count
        /\ Cardinality(Waiting') = idle_workers'
        /\ idle_workers' \in Nat
    <3>1. /\ thread' \in [Worker -> ThreadState]
          /\ Cardinality(Registered') = worker_count - 1 + 1
          /\ Cardinality(Waiting') = idle_workers - (IF w \in Waiting THEN 1 ELSE 0) + 0
      BY <1>3, <2>1, CountersMove DEF TakeTask
    <3>2. idle_workers' = Cardinality(Waiting')
      BY <1>0, <1>3, <2>1, <3>1 DEF TakeTask, IdleWithout, TypeOK
    <3>3. Waiting' \in SUBSET Worker
      OBVIOUS
    <3>4. QED BY <1>0, <3>1, <3>2, <3>3, CountNat DEF TypeOK
  <2>3. workers_cv' \subseteq {v \in Worker : thread'[v] = "waiting"}
    BY <1>0, <1>3 DEF TakeTask, AtTest, TypeOK
  <2>4. Head(tasks) \in Task /\ Tail(tasks) \in Seq(Task)
    BY <1>0, <1>3, HeadTailProperties DEF TakeTask, TypeOK
  <2>5. QED BY <1>0, <1>3, <2>2, <2>3, <2>4
            DEF TakeTask, Rest, Typed, TypeOK, CountersExact
<1>4. CASE FinishTask(w)
  <2>1. w \in Registered /\ w \notin Waiting /\ "loop" \in ThreadState
    BY <1>4 DEF FinishTask, ThreadState
  <2>2. /\ thread' \in [Worker -> ThreadState]
        /\ Cardinality(Registered') = worker_count - 1 + 1
        /\ Cardinality(Waiting') = idle_workers - 0 + 0
    BY <1>4, <2>1, CountersMove DEF FinishTask
  <2>3. workers_cv' \subseteq {v \in Worker : thread'[v] = "waiting"}
    BY <1>0, <1>4 DEF FinishTask, TypeOK
  <2>4. QED BY <1>0, <1>4, <2>2, <2>3 DEF FinishTask, pool, Typed, TypeOK, CountersExact
<1>5. CASE Exit(w)
  <2>1. w \in Registered /\ "none" \in ThreadState
        /\ (w \in Waiting <=> thread[w] = "waiting")
    BY <1>5 DEF Exit, AtTest, ThreadState
  <2>2. /\ thread' \in [Worker -> ThreadState]
        /\ Cardinality(Registered') = worker_count'
        /\ worker_count' \in Nat
        /\ Cardinality(Waiting') = idle_workers'
        /\ idle_workers' \in Nat
    <3>1. /\ thread' \in [Worker -> ThreadState]
          /\ Cardinality(Registered') = worker_count - 1 + 0
          /\ Cardinality(Waiting') = idle_workers - (IF w \in Waiting THEN 1 ELSE 0) + 0
      BY <1>5, <2>1, CountersMove DEF Exit
    <3>2. idle_workers' = Cardinality(Waiting') /\ worker_count' = Cardinality(Registered')
      BY <1>0, <1>5, <2>1, <3>1 DEF Exit, IdleWithout, TypeOK
    <3>3. Waiting' \in SUBSET Worker /\ Registered' \in SUBSET Worker
      OBVIOUS
    <3>4. QED BY <1>0, <3>1, <3>2, <3>3, CountNat DEF TypeOK
  <2>3. workers_cv' \subseteq {v \in Worker : thread'[v] = "waiting"}
    BY <1>0, <1>5 DEF Exit, AtTest, TypeOK
  <2>4. manager_cv' \subseteq manager_cv
    BY <1>5 DEF Exit, Report, NotifyOneManager
  <2>5. QED BY <1>0, <1>5, <2>2, <2>3, <2>4 DEF Exit, Typed, TypeOK, CountersExact
<1>6. QED BY <1>1, <1>2, <1>3, <1>4, <1>5 DEF Run

\* The steps of the managing threads, of the pushers and of spurious wake-ups
\* leave the set of registered and the set of waiting threads alone.
LEMMA TypedUncounted ==
    ASSUME Typed,
           UNCHANGED <<worker_count, idle_workers>>,
           Registered' = Registered, Waiting' = Waiting,
           thread' \in [Worker -> ThreadState],
           workers_cv' \subseteq workers_cv,
           worker_limit' \in Nat, active_workers' \in Nat, state' \in State,
           tasks' \in Seq(Task), holding' \in [Worker -> Task \cup {NoTask}],
           manager' \in [Manager -> ManagerState],
           manager_cv' \subseteq {m \in Manager : manager'[m] # "out"},
           owed' \subseteq Task, heard' \subseteq Task, hasty' \in BOOLEAN
    PROVE  Typed'
<1>1. workers_cv' \subseteq {v \in Worker : thread'[v] = "waiting"}
  BY DEF Typed, TypeOK
<1>2. QED BY <1>1 DEF Typed, TypeOK, CountersExact

LEMMA BlockTyped ==
    ASSUME TypeOK, NEW m \in Manager, Idle(m), NEW call \in ManagerState \ {"out"},
           \/ UNCHANGED <<manager, manager_cv>>
           \/ Block(m, call)
    PROVE  /\ manager' \in [Manager -> ManagerState]
           /\ manager_cv' \subseteq {k \in Manager : manager'[k] # "out"}
BY DEF TypeOK, Idle, Block

LEMMA TypedManage ==
    ASSUME Typed, NEW m \in Manager, Manage(m)
    PROVE  Typed'
<1>0. TypeOK /\ Queued \subseteq Task
  BY QueuedTyped DEF Typed
<1>1. CASE Start(m)
  <2>1. NewWorkers(worker_limit, worker_limit) \in Nat
    BY <1>0, NewWorkersTyped DEF TypeOK
  <2>2. /\ thread' \in [Worker -> ThreadState]
        /\ active_workers' \in Nat
        /\ Registered' = Registered /\ Waiting' = Waiting
    BY <1>1, <2>1, CreateKeepsCounters DEF Start
  <2>3. /\ manager' \in [Manager -> ManagerState]
        /\ manager_cv' \subseteq {k \in Manager : manager'[k] # "out"}
    BY <1>0, <1>1, BlockTyped DEF Start, ManagerState
  <2>4. QED BY <1>0, <1>1, <2>2, <2>3, TypedUncounted DEF Start, State, TypeOK
<1>2. ASSUME NEW count \in 1 .. MaxLimit, AddWorkers(m, count)
      PROVE  Typed'
  <2> DEFINE n == IF Dormant THEN 0 ELSE NewWorkers(count, worker_limit + count)
  <2>1. n \in Nat /\ worker_limit' \in Nat
    BY <1>0, <1>2, LimitAssumption, NewWorkersTyped DEF TypeOK, AddWorkers
  <2>2. /\ thread' \in [Worker -> ThreadState]
        /\ active_workers' \in Nat
        /\ Registered' = Registered /\ Waiting' = Waiting
    BY <1>2, <2>1, CreateKeepsCounters DEF AddWorkers
  <2>3. /\ manager' \in [Manager -> ManagerState]
        /\ manager_cv' \subseteq {k \in Manager : manager'[k] # "out"}
    BY <1>0, <1>2, BlockTyped DEF AddWorkers, ManagerState
  <2>4. QED BY <1>0, <1>2, <2>1, <2>2, <2>3, TypedUncounted DEF AddWorkers, TypeOK
<1>3. ASSUME NEW count \in 1 .. MaxLimit, RemoveWorkers(m, count)
      PROVE  Typed'
  <2> DEFINE c == Least(count, worker_limit)
             n == IF Dormant THEN 0 ELSE c
  <2>1. c \in Nat /\ n \in Nat /\ worker_limit' \in Nat
    BY <1>0, <1>3, LimitAssumption DEF TypeOK, RemoveWorkers, Least
  <2>2. active_workers' \in Nat /\ workers_cv' \subseteq workers_cv
    BY <1>0, <1>3, <2>1, KillTyped DEF RemoveWorkers
  <2>3. /\ manager' \in [Manager -> ManagerState]
        /\ manager_cv' \subseteq {k \in Manager : manager'[k] # "out"}
    BY <1>0, <1>3, BlockTyped DEF RemoveWorkers, ManagerState
  <2>4. Registered' = Registered /\ Waiting' = Waiting
    BY <1>3 DEF RemoveWorkers
  <2>5. QED BY <1>0, <1>3, <2>1, <2>2, <2>3, <2>4, TypedUncounted
            DEF RemoveWorkers, TypeOK
<1>4. ASSUME NEW and_join \in BOOLEAN, Stop(m, and_join)
      PROVE  Typed'
  <2>1. active_workers' \in Nat /\ workers_cv' \subseteq workers_cv
    BY <1>0, <1>4, KillTyped DEF Stop, TypeOK
  <2>2. /\ manager' \in [Manager -> ManagerState]
        /\ manager_cv' \subseteq {k \in Manager : manager'[k] # "out"}
    BY <1>0, <1>4, BlockTyped DEF Stop, ManagerState
  <2>3. Registered' = Registered /\ Waiting' = Waiting
    BY <1>4 DEF Stop
  <2>4. state' \in State /\ owed' \subseteq Task /\ heard' \subseteq Task
        /\ tasks' \in Seq(Task)
    BY <1>0, <1>4 DEF Stop, State, TypeOK
  <2>5. QED BY <1>0, <1>4, <2>1, <2>2, <2>3, <2>4, TypedUncounted
            DEF Stop, TypeOK
<1>5. QED BY <1>1, <1>2, <1>3, <1>4 DEF Manage

LEMMA TypedResume ==
    ASSUME Typed, NEW m \in Manager, Resume(m) \/ WakeManager(m)
    PROVE  Typed'
<1>0. TypeOK
  BY DEF Typed
<1>1. CASE CreateReturn(m)
  BY <1>0, <1>1, TypedUncounted
  DEF CreateReturn, Woken, TypeOK, State, ManagerState
<1>2. CASE KillWaitAgain(m)
  BY <1>0, <1>2, TypedUncounted DEF KillWaitAgain, Woken, pool, TypeOK, ManagerState
<1>3. CASE KillReturn(m)
  BY <1>0, <1>3, TypedUncounted DEF KillReturn, Woken, TypeOK, State, ManagerState
<1>4. CASE WakeManager(m)
  BY <1>0, <1>4, TypedUncounted DEF WakeManager, pool, TypeOK
<1>5. QED BY <1>1, <1>2, <1>3, <1>4 DEF Resume

LEMMA TypedSubmit ==
    ASSUME Typed, Submit \/ Clear
    PROVE  Typed'
<1>0. TypeOK
  BY DEF Typed
<1>1. ASSUME NEW t \in Task, NEW call \in {"push_front", "push_back"}, Push(t, call)
      PROVE  Typed'
  <2>1. tasks' \in Seq(Task)
    BY <1>0, <1>1, ElemsOfPush DEF Push, TypeOK
  <2>2. QED BY <1>0, <1>1, <2>1, TypedUncounted
            DEF Push, NotifyAllWorkers, pool, TypeOK
<1>2. CASE Clear
  BY <1>0, <1>2, TypedUncounted DEF Clear, pool, TypeOK
<1>3. QED BY <1>1, <1>2 DEF Submit

LEMMA TypedNext == Typed /\ [Next]_vars => Typed'
<1> SUFFICES ASSUME Typed, [Next]_vars PROVE Typed'
  OBVIOUS
<1>1. ASSUME NEW w \in Worker, WakeWorker(w) PROVE Typed'
  BY <1>1, TypedUncounted DEF WakeWorker, pool, Typed, TypeOK
<1>2. CASE UNCHANGED vars
  BY <1>2 DEF vars, pool, Typed, TypeOK, CountersExact
<1>3. QED BY <1>1, <1>2, TypedRun, TypedManage, TypedResume, TypedSubmit DEF Next

\* Every reachable state is well typed, and worker_count_ and idle_workers_ are
\* exact, for any number of threads, callers and tasks.
THEOREM TypeCorrect == Spec => []TypeOK
<1>1. Typed => TypeOK
  BY DEF Typed
<1>2. QED BY <1>1, TypedInit, TypedNext, PTL DEF Spec

THEOREM CountersCorrect == Spec => []CountersExact
<1>1. Typed => CountersExact
  BY DEF Typed
<1>2. QED BY <1>1, TypedInit, TypedNext, PTL DEF Spec

-----------------------------------------------------------------------------
(* The state machine.  LimitRespected alone is not inductive: that         *)
(* start() finds STARTING when it goes on, and stop() STOPPING, is what    *)
(* StateOwned says.                                                        *)

Governed == LimitRespected /\ StateOwned

LEMMA GovernedInit == Init => Governed
BY DEF Init, Governed, LimitRespected, StateOwned

LEMMA GovernedManage ==
    ASSUME TypeOK, Governed, NEW m \in Manager, Manage(m)
    PROVE  Governed'
<1> USE DEF Governed
<1>0. /\ active_workers \in Nat /\ worker_limit \in Nat
      /\ manager \in [Manager -> ManagerState] /\ state \in State
  BY DEF TypeOK
<1>1. CASE Start(m)
  <2> DEFINE n == NewWorkers(worker_limit, worker_limit)
  <2>1. active_workers = 0 /\ n = worker_limit
    BY <1>0, <1>1 DEF Start, LimitRespected, NewWorkers, Least
  <2>2. active_workers' = worker_limit /\ worker_limit' = worker_limit
    BY <1>0, <1>1, <2>1 DEF Start, Create
  <2>3. LimitRespected'
    BY <1>1, <2>2 DEF Start, LimitRespected
  <2>4. StateOwned'
    BY <1>0, <1>1 DEF Start, StateOwned, Block, Idle
  <2>5. QED BY <2>3, <2>4
<1>2. ASSUME NEW count \in 1 .. MaxLimit, AddWorkers(m, count)
      PROVE  Governed'
  <2>0. count \in Nat /\ count > 0
    BY LimitAssumption
  <2>1. /\ worker_limit' = worker_limit + count
        /\ active_workers' = active_workers
              + (IF Dormant THEN 0 ELSE NewWorkers(count, worker_limit + count))
        /\ state' = state
    BY <1>2 DEF AddWorkers, Create
  <2>2. LimitRespected'
    BY <1>0, <2>0, <2>1 DEF LimitRespected, Dormant, NewWorkers, Least, State
  <2>3. manager' = manager \/ manager' = [manager EXCEPT ![m] = "add_workers"]
    BY <1>2 DEF AddWorkers, Block
  <2>4. StateOwned'
    BY <1>0, <1>2, <2>1, <2>3 DEF StateOwned, AddWorkers, Idle
  <2>5. QED BY <2>2, <2>4
<1>3. ASSUME NEW count \in 1 .. MaxLimit, RemoveWorkers(m, count)
      PROVE  Governed'
  <2> DEFINE c == Least(count, worker_limit)
  <2>0. count \in Nat /\ count > 0
    BY LimitAssumption
  <2>1. worker_limit' = worker_limit - c /\ state' = state
        /\ Kill(IF Dormant THEN 0 ELSE c)
    BY <1>3 DEF RemoveWorkers
  <2>3. LimitRespected'
    <3>1. CASE Dormant
      BY <1>0, <2>1, <3>1 DEF LimitRespected, Dormant, Kill
    <3>2. CASE ~Dormant
      <4>1. active_workers = worker_limit /\ state \in {"STARTING", "RUNNING"}
        BY <1>0, <3>2 DEF Dormant, State, LimitRespected
      <4>2. active_workers' = worker_limit - c
        BY <1>0, <2>0, <2>1, <3>2, <4>1 DEF Kill, Least
      <4>3. QED BY <2>1, <4>1, <4>2 DEF LimitRespected
    <3>3. QED BY <3>1, <3>2
  <2>4. manager' = manager \/ manager' = [manager EXCEPT ![m] = "remove_workers"]
    BY <1>3 DEF RemoveWorkers, Block
  <2>5. StateOwned'
    BY <1>0, <1>3, <2>1, <2>4 DEF StateOwned, RemoveWorkers, Idle
  <2>6. QED BY <2>3, <2>5
<1>4. ASSUME NEW and_join \in BOOLEAN, Stop(m, and_join)
      PROVE  Governed'
  <2>1. active_workers' = 0
    BY <1>0, <1>4 DEF Stop, Kill, Least
  <2>2. LimitRespected'
    BY <1>4, <2>1 DEF Stop, LimitRespected
  <2>3. StateOwned'
    BY <1>0, <1>4 DEF Stop, MayStop, StateOwned, Block, Idle
  <2>4. QED BY <2>2, <2>3
<1>5. QED BY <1>1, <1>2, <1>3, <1>4 DEF Manage

LEMMA GovernedResume ==
    ASSUME TypeOK, Governed, NEW m \in Manager, Resume(m)
    PROVE  Governed'
<1> USE DEF Governed
<1>0. manager \in [Manager -> ManagerState] /\ state \in State
  BY DEF TypeOK
<1>1. CASE CreateReturn(m)
  <2>1. manager[m] = "start" => state = "STARTING"
    BY DEF StateOwned
  <2>2. LimitRespected'
    BY <1>1, <2>1 DEF CreateReturn, LimitRespected
  <2>3. StateOwned'
    BY <1>0, <1>1, <2>1 DEF CreateReturn, Woken, StateOwned
  <2>4. QED BY <2>2, <2>3
<1>2. CASE KillWaitAgain(m)
  BY <1>2 DEF KillWaitAgain, pool, LimitRespected, StateOwned
<1>3. CASE KillReturn(m)
  <2>1. manager[m] = "stop" => state = "STOPPING"
    BY DEF StateOwned
  <2>2. LimitRespected'
    BY <1>3, <2>1 DEF KillReturn, LimitRespected
  <2>3. StateOwned'
    BY <1>0, <1>3, <2>1 DEF KillReturn, Woken, StateOwned
  <2>4. QED BY <2>2, <2>3
<1>4. QED BY <1>1, <1>2, <1>3 DEF Resume

LEMMA GovernedNext == TypeOK /\ Governed /\ [Next]_vars => Governed'
<1> SUFFICES ASSUME TypeOK, Governed, [Next]_vars PROVE Governed'
  OBVIOUS
<1>1. ASSUME UNCHANGED <<active_workers, worker_limit, state, manager>>
      PROVE  Governed'
  BY <1>1 DEF Governed, LimitRespected, StateOwned
<1>2. ASSUME NEW w \in Worker, Run(w) \/ WakeWorker(w) PROVE Governed'
  BY <1>1, <1>2 DEF Run, Register, WaitForTask, TakeTask, FinishTask, Exit,
                    WakeWorker, pool
<1>3. ASSUME NEW m \in Manager, WakeManager(m) PROVE Governed'
  BY <1>1, <1>3 DEF WakeManager, pool
<1>4. CASE Submit \/ Clear
  BY <1>1, <1>4 DEF Submit, Push, Clear, pool
<1>5. CASE UNCHANGED vars
  BY <1>1, <1>5 DEF vars, pool
<1>6. QED BY <1>2, <1>3, <1>4, <1>5, GovernedManage, GovernedResume DEF Next

\* active_workers_ is worker_limit_ while the manager is up and 0 otherwise, and
\* STARTING and STOPPING each belong to exactly one call.
THEOREM LimitCorrect == Spec => []LimitRespected
<1>1. Governed => LimitRespected
  BY DEF Governed
<1>2. QED BY <1>1, TypeCorrect, GovernedInit, GovernedNext, PTL DEF Spec

THEOREM StateCorrect == Spec => []StateOwned
<1>1. Governed => StateOwned
  BY DEF Governed
<1>2. QED BY <1>1, TypeCorrect, GovernedInit, GovernedNext, PTL DEF Spec

-----------------------------------------------------------------------------
(* The tasks.                                                              *)

LEMMA QueuedIsElems == Queued = Elems(tasks) /\ Queued' = Elems(tasks')
BY DEF Queued, Elems

\* The history sets name queued tasks only, and a task is held by a worker only
\* while that worker executes it.
Custody ==
    /\ owed \subseteq Queued
    /\ heard \subseteq Queued
    /\ \A w \in Worker : holding[w] # NoTask => thread[w] = "executing"

\* The inductive invariant behind NoSleepOverTask, TaskInOnePlace and JoinDrains:
\* the last registered worker leaves a stopping manager only with an empty queue.
Drained == state = "STOPPING" /\ worker_count = 0 => owed = {}
Served == Custody /\ NoSleepOverTask /\ TaskInOnePlace /\ Drained

LEMMA ServedInit == Init => Served
BY DEF Init, Served, Custody, NoSleepOverTask, TaskInOnePlace, Drained, Queued

LEMMA ServedTake ==
    ASSUME Typed, Served, NEW w \in Worker, TakeTask(w)
    PROVE  Served'
<1> USE DEF Served
<1>0. TypeOK /\ tasks \in Seq(Task) /\ tasks # << >>
  BY DEF Typed, TypeOK, TakeTask
<1>1. /\ Head(tasks) \in Queued /\ Head(tasks) \in Task
      /\ Queued' \subseteq Queued /\ Queued \ {Head(tasks)} \subseteq Queued'
      /\ Distinct(tasks) => Distinct(tasks') /\ Head(tasks) \notin Queued'
  BY <1>0, QueuedIsElems, ElemsOfTail DEF TakeTask, Rest
<1>2. Distinct(tasks') /\ Head(tasks) \notin Queued'
  BY <1>1 DEF TaskInOnePlace, Distinct
<1>3. \A v \in Worker : v # w => holding'[v] = holding[v] /\ thread'[v] = thread[v]
  BY <1>0 DEF TakeTask, TypeOK
<1>4. holding'[w] = Head(tasks) /\ thread'[w] = "executing"
  BY <1>0 DEF TakeTask, TypeOK
<1>5. Custody'
  <2>1. owed' \subseteq Queued' /\ heard' \subseteq Queued'
    BY <1>1 DEF TakeTask, Custody
  <2>2. QED BY <1>3, <1>4, <2>1 DEF Custody
<1>6. NoSleepOverTask'
  BY <1>1 DEF TakeTask, NoSleepOverTask
<1>7. TaskInOnePlace'
  <2>1. ASSUME NEW v \in Worker, holding'[v] # NoTask
        PROVE  holding'[v] \notin Queued'
    BY <1>1, <1>2, <1>3, <1>4, <2>1 DEF TaskInOnePlace
  <2>2. ASSUME NEW v \in Worker, NEW u \in Worker, holding'[v] # NoTask,
               holding'[u] = holding'[v]
        PROVE  u = v
    BY <1>1, <1>3, <1>4, <2>2 DEF TaskInOnePlace
  <2>3. QED BY <1>2, <2>1, <2>2 DEF TaskInOnePlace, Distinct
<1>8. Drained'
  BY DEF TakeTask, Drained
<1>9. QED BY <1>5, <1>6, <1>7, <1>8

LEMMA ServedRun ==
    ASSUME Typed, Governed, Served, NEW w \in Worker, Run(w)
    PROVE  Served'
<1> USE DEF Served
<1>0. TypeOK
  BY DEF Typed
<1>1. CASE Register(w)
  <2>1. UNCHANGED <<tasks, holding, workers_cv, owed, heard, state>> /\ Queued' = Queued
    BY <1>1 DEF Register, Queued
  <2>2. worker_count' # 0
    BY <1>0, <1>1 DEF Register, TypeOK
  <2>3. Custody'
    BY <1>0, <1>1, <2>1 DEF Custody, Register, TypeOK
  <2>4. QED BY <2>1, <2>2, <2>3 DEF NoSleepOverTask, TaskInOnePlace, Drained
<1>2. CASE WaitForTask(w)
  <2>1. /\ UNCHANGED <<tasks, holding, owed, heard, state, worker_count>>
        /\ Queued' = Queued /\ Queued = {}
    BY <1>2 DEF WaitForTask, Queued
  <2>2. Custody'
    BY <1>0, <1>2, <2>1 DEF Custody, WaitForTask, AtTest, TypeOK
  <2>3. QED BY <2>1, <2>2 DEF NoSleepOverTask, TaskInOnePlace, Drained
<1>3. CASE FinishTask(w)
  <2>1. /\ UNCHANGED <<tasks, workers_cv, owed, heard, state, worker_count>>
        /\ Queued' = Queued
    BY <1>3 DEF FinishTask, pool, Queued
  <2>2. \A v \in Worker : /\ v # w => holding'[v] = holding[v] /\ thread'[v] = thread[v]
                          /\ v = w => holding'[v] = NoTask
    BY <1>0, <1>3 DEF FinishTask, TypeOK
  <2>3. Custody' /\ TaskInOnePlace'
    BY <2>1, <2>2 DEF Custody, TaskInOnePlace
  <2>4. QED BY <2>1, <2>3 DEF NoSleepOverTask, Drained
<1>4. CASE Exit(w)
  <2>1. /\ UNCHANGED <<tasks, holding, owed, heard, state, workers_cv>>
        /\ Queued' = Queued
    BY <1>4 DEF Exit, Queued
  <2>2. Custody'
    BY <1>0, <1>4, <2>1 DEF Custody, Exit, AtTest, TypeOK
  <2>3. Drained'
    <3>1. state = "STOPPING" => Queued = {}
      BY <1>4 DEF Exit, MustExit, Queued
    <3>2. QED BY <2>1, <3>1 DEF Drained, Custody
  <2>4. QED BY <2>1, <2>2, <2>3 DEF NoSleepOverTask, TaskInOnePlace
<1>5. QED BY <1>1, <1>2, <1>3, <1>4, ServedTake DEF Run

LEMMA ServedSubmit ==
    ASSUME Typed, Served, NEW t \in Task, NEW call \in {"push_front", "push_back"},
           Push(t, call)
    PROVE  Served'
<1> USE DEF Served
<1>0. TypeOK /\ CountersExact
  BY DEF Typed
<1>1. /\ Queued' = Queued \cup {t} /\ t \notin Queued
      /\ Distinct(tasks) => Distinct(tasks')
  <2>1. t \notin Elems(tasks) /\ (tasks' = Append(tasks, t) \/ tasks' = <<t>> \o tasks)
    BY QueuedIsElems DEF Push, Pushable
  <2>2. QED BY <1>0, <2>1, ElemsOfPush, QueuedIsElems DEF TypeOK
<1>2. Custody'
  BY <1>1 DEF Push, Custody
<1>3. NoSleepOverTask'
  <2>1. CASE state = "RUNNING" /\ idle_workers > 0
    BY <2>1 DEF Push, Notifies, NotifyAllWorkers, NoSleepOverTask
  <2>2. CASE state = "RUNNING" /\ ~(idle_workers > 0)
    <3>1. IsFiniteSet(Waiting) /\ Cardinality(Waiting) = 0
      BY <1>0, <2>2, WorkerAssumption, FS_Subset DEF TypeOK, CountersExact
    <3>2. workers_cv = {}
      BY <1>0, <3>1, FS_EmptySet DEF TypeOK
    <3>3. QED BY <2>2, <3>2 DEF Push, Notifies, NoSleepOverTask
  <2>3. CASE state # "RUNNING"
    BY <1>1, <2>3 DEF Push, Notifies, NoSleepOverTask, Custody
  <2>4. QED BY <2>1, <2>2, <2>3
<1>4. TaskInOnePlace'
  <2>1. Distinct(tasks')
    BY <1>1 DEF TaskInOnePlace, Distinct
  <2>2. QED BY <1>1, <2>1 DEF TaskInOnePlace, Distinct, Push, Pushable
<1>5. Drained'
  BY DEF Drained, Push, pool
<1>6. QED BY <1>2, <1>3, <1>4, <1>5

\* Steps that keep the queue, or empty it, and move no worker.
LEMMA ServedElse ==
    ASSUME Served, Drained',
           holding' = holding, workers_cv' \subseteq workers_cv,
           \A w \in Worker : thread[w] = "executing" => thread'[w] = "executing"
    PROVE  /\ tasks' = tasks /\ heard' = heard /\ owed' \subseteq Queued => Served'
           /\ tasks' = << >> /\ heard' = {} /\ owed' = {} => Served'
<1> USE DEF Served
<1>1. ASSUME tasks' = tasks, heard' = heard, owed' \subseteq Queued
      PROVE  Served'
  <2>1. Queued' = Queued
    BY <1>1 DEF Queued
  <2>2. Custody' /\ NoSleepOverTask' /\ TaskInOnePlace'
    BY <1>1, <2>1 DEF Custody, NoSleepOverTask, TaskInOnePlace
  <2>3. QED BY <2>2
<1>2. ASSUME tasks' = << >>, heard' = {}, owed' = {}
      PROVE  Served'
  <2>1. Queued' = {}
    BY <1>2 DEF Queued
  <2>2. Custody' /\ NoSleepOverTask' /\ TaskInOnePlace'
    BY <1>2, <2>1 DEF Custody, NoSleepOverTask, TaskInOnePlace
  <2>3. QED BY <2>2
<1>3. QED BY <1>1, <1>2

LEMMA ServedManage ==
    ASSUME Typed, Governed, Served, NEW m \in Manager, Manage(m)
    PROVE  Served'
<1>0. TypeOK /\ Custody /\ Drained
  BY DEF Typed, Served
<1>1. ASSUME NEW n, Create(n)
      PROVE  \A w \in Worker : thread[w] = "executing" => thread'[w] = "executing"
  BY <1>1 DEF Create, Free
<1>2. CASE Start(m)
  <2>1. Drained'
    BY <1>2 DEF Start, Drained
  <2>2. \A w \in Worker : thread[w] = "executing" => thread'[w] = "executing"
    BY <1>1, <1>2 DEF Start
  <2>3. QED BY <1>0, <1>2, <2>1, <2>2, ServedElse DEF Start, Custody, Served
<1>3. ASSUME NEW count \in 1 .. MaxLimit, AddWorkers(m, count)
      PROVE  Served'
  <2>1. Drained'
    BY <1>0, <1>3 DEF AddWorkers, Drained
  <2>2. \A w \in Worker : thread[w] = "executing" => thread'[w] = "executing"
    BY <1>1, <1>3 DEF AddWorkers
  <2>3. QED BY <1>0, <1>3, <2>1, <2>2, ServedElse DEF AddWorkers, Custody
<1>4. ASSUME NEW count \in 1 .. MaxLimit, RemoveWorkers(m, count)
      PROVE  Served'
  <2>1. Drained'
    BY <1>0, <1>4 DEF RemoveWorkers, Drained
  <2>2. workers_cv' \subseteq workers_cv
    BY <1>4 DEF RemoveWorkers, Kill, NotifyAllWorkers
  <2>3. QED BY <1>0, <1>4, <2>1, <2>2, ServedElse DEF RemoveWorkers, Custody
<1>5. ASSUME NEW and_join \in BOOLEAN, Stop(m, and_join)
      PROVE  Served'
  <2>1. Drained'
    <3>1. CASE KillDone(active_workers)
      BY <1>5, <3>1 DEF Stop, Drained
    <3>2. CASE ~KillDone(active_workers)
      BY <1>0, <1>5, <3>2 DEF Stop, KillDone, Least, Drained, TypeOK
    <3>3. QED BY <3>1, <3>2
  <2>2. workers_cv' \subseteq workers_cv
    BY <1>5 DEF Stop, Kill, NotifyAllWorkers
  <2>3. CASE and_join
    BY <1>5, <2>1, <2>2, <2>3, ServedElse DEF Stop
  <2>4. CASE ~and_join
    BY <1>5, <2>1, <2>2, <2>4, ServedElse DEF Stop
  <2>5. QED BY <2>3, <2>4
<1>6. QED BY <1>2, <1>3, <1>4, <1>5 DEF Manage

LEMMA ServedNext == Typed /\ Governed /\ Served /\ [Next]_vars => Served'
<1> SUFFICES ASSUME Typed, Governed, Served, [Next]_vars PROVE Served'
  OBVIOUS
<1>0. Custody /\ Drained
  BY DEF Served
<1>1. ASSUME NEW m \in Manager, Resume(m) \/ WakeManager(m) PROVE Served'
  <2>1. Drained'
    BY <1>0, <1>1 DEF Resume, CreateReturn, KillWaitAgain, KillReturn, WakeManager,
                      pool, Drained
  <2>2. QED BY <1>0, <1>1, <2>1, ServedElse
            DEF Resume, CreateReturn, KillWaitAgain, KillReturn, WakeManager,
                pool, Custody
<1>2. ASSUME NEW w \in Worker, WakeWorker(w) PROVE Served'
  BY <1>0, <1>2, ServedElse DEF WakeWorker, pool, Drained, Custody
<1>3. CASE Clear
  BY <1>3, ServedElse DEF Clear, pool, Drained
<1>4. CASE UNCHANGED vars
  BY <1>0, <1>4, ServedElse DEF vars, pool, Drained, Custody
<1>5. CASE Submit
  BY <1>5, ServedSubmit DEF Submit
<1>6. QED BY <1>1, <1>2, <1>3, <1>4, <1>5, ServedRun, ServedManage DEF Next

\* Everything together.
IInv == Typed /\ Governed /\ Served

LEMMA Inductive == Spec => []IInv
<1>1. Init => IInv
  BY TypedInit, GovernedInit, ServedInit DEF IInv
<1>2. IInv /\ [Next]_vars => IInv'
  BY TypedNext, GovernedNext, ServedNext DEF IInv, Typed
<1>3. QED BY <1>1, <1>2, PTL DEF Spec

\* No worker stays asleep in workers_cv_ while a task that was pushed to a running
\* manager waits in the queue, whoever pushes, stops, adds or removes meanwhile.
THEOREM NoSleepCorrect == Spec => []NoSleepOverTask
<1>1. IInv => NoSleepOverTask
  BY DEF IInv, Served
<1>2. QED BY <1>1, Inductive, PTL

\* A task is in the queue once, or with one worker: one push, one execution.
THEOREM OnePlaceCorrect == Spec => []TaskInOnePlace
<1>1. IInv => TaskInOnePlace
  BY DEF IInv, Served
<1>2. QED BY <1>1, Inductive, PTL

\* The counters, the limit and the state machine at once.
THEOREM PoolCorrect == Spec => []PoolExact
<1>1. QED BY CountersCorrect, LimitCorrect, StateCorrect, PTL DEF PoolExact

\* One push, one execution, and no worker asleep over it.
THEOREM TasksCorrect == Spec => []TasksKept
<1>1. QED BY OnePlaceCorrect, NoSleepCorrect, PTL DEF TasksKept

\* stop() and join() that waited leave STOPPING with every task they found queued
\* taken, and no worker executing.
THEOREM JoinCorrect == Spec => JoinDrains
<1> DEFINE Drains == state = "STOPPING" /\ state' = "IDLE" =>
                       /\ owed \cap Queued = {}
                       /\ \A w \in Worker : holding[w] = NoTask
<1>1. IInv /\ [Next]_vars => [Drains]_vars
  <2> SUFFICES ASSUME IInv, [Next]_vars, state = "STOPPING", state' = "IDLE"
               PROVE  /\ owed = {}
                      /\ \A w \in Worker : holding[w] = NoTask
    OBVIOUS
  <2> USE DEF IInv, Served, Governed, Typed
  <2>1. PICK m \in Manager : KillReturn(m)
    BY DEF Next, Run, Register, WaitForTask, TakeTask, FinishTask, Exit, WakeWorker,
           Manage, Start, AddWorkers, RemoveWorkers, Stop, MayStop,
           Resume, CreateReturn, KillWaitAgain, WakeManager,
           Submit, Push, Clear, vars, pool
  <2>2. worker_count = 0
    BY <2>1 DEF KillReturn, LimitRespected
  <2>3. owed = {}
    BY <2>2 DEF Drained
  <2>4. Registered = {}
    <3>1. IsFiniteSet(Registered) /\ Cardinality(Registered) = 0
      BY <2>2, WorkerAssumption, FS_Subset DEF CountersExact
    <3>2. QED BY <3>1, FS_EmptySet
  <2>5. \A w \in Worker : holding[w] = NoTask
    BY <2>4 DEF Custody
  <2>6. QED BY <2>3, <2>5
<1>2. QED BY <1>1, Inductive, PTL DEF Spec, JoinDrains

-----------------------------------------------------------------------------
(* One managing thread.  What follows is false for two: notify_one may     *)
(* wake the one whose count has not been reached.                          *)

OneManager == \E m : Manager = {m}

Created == {w \in Worker : thread[w] = "created"}

\* Settled for every point of a call: while threads are being created the registered ones
\* and they make up the number wanted, and the managing thread sleeps until the last of them
\* has come; while they are being dismissed none is created.  A pool that is stopping has no
\* more workers than it ran with.
Balanced ==
    \A m \in Manager :
        /\ manager[m] = "out" => worker_count = active_workers /\ Created = {}
        /\ manager[m] \in {"start", "add_workers"} =>
              /\ worker_count + Cardinality(Created) = active_workers
              /\ m \in manager_cv <=> Created # {}
        /\ manager[m] \in {"remove_workers", "stop"} =>
              Created = {} /\ worker_count >= active_workers
        /\ manager[m] = "stop" => worker_count <= worker_limit

\* What holds also after a hasty return.  Outside the calls, a pool that should have no
\* workers runs no task; workers are created for a pool that should have some; and
\* nothing is owed unless the pool is stopping.
Quiet ==
    /\ \A m \in Manager : manager[m] = "out" /\ active_workers = 0 =>
          \A w \in Worker : holding[w] = NoTask
    /\ \A m \in Manager : manager[m] \in {"start", "add_workers"} => active_workers > 0
    /\ state # "STOPPING" => owed = {}

Steady == (hasty \/ Balanced) /\ Quiet

\* A thread that is being created is known by its count.
LEMMA CreatedCount ==
    ASSUME NEW S \in SUBSET Worker
    PROVE  Cardinality(S) \in Nat /\ (S = {} <=> Cardinality(S) = 0)
BY WorkerAssumption, FS_Subset, FS_CardinalityType, FS_EmptySet

LEMMA CreateBalance ==
    ASSUME Typed, NEW n \in Nat, Create(n), Created = {}
    PROVE  /\ Cardinality(Created') = n /\ (Created' = {} <=> n = 0)
           /\ active_workers' = active_workers + n
<1>1. PICK new \in SUBSET Free :
          /\ Cardinality(new) = n
          /\ thread' = [w \in Worker |-> IF w \in new THEN "created" ELSE thread[w]]
  BY DEF Create
<1>2. Created' = new /\ new \in SUBSET Worker
  BY <1>1 DEF Created, Free
<1>3. QED BY <1>1, <1>2, CreatedCount DEF Create

LEMMA SteadyInit == Init => Steady
BY DEF Init, Steady, Balanced, Quiet, Created

\* Who reports wakes the managing thread.
LEMMA ReportOne ==
    ASSUME OneManager, TypeOK, NEW m \in Manager, NEW count, Report(count)
    PROVE  /\ count = active_workers => manager_cv' = {}
           /\ count # active_workers => manager_cv' = manager_cv
<1>1. manager_cv \subseteq {m} /\ Manager = {m}
  BY DEF OneManager, TypeOK
<1>2. QED BY <1>1 DEF Report, NotifyOneManager

\* A hasty pool that comes to rest is as if it had never been hasty.
LEMMA RestBalances ==
    ASSUME OneManager, Typed, Governed, NEW count, count = worker_count', Report(count), AtRest',
           UNCHANGED <<worker_limit, active_workers, state, manager>>
    PROVE  Balanced'
<1>1. PICK m \in Manager : Manager = {m}
  BY DEF OneManager
<1>2. manager_cv' = {} /\ worker_count' = active_workers'
  BY <1>1, ReportOne DEF AtRest, Typed
<1>3. Created' = {} /\ Cardinality(Created') = 0
  BY FS_EmptySet DEF AtRest, Created
<1>4. manager[m] = "stop" => active_workers = 0
  BY <1>1 DEF Governed, LimitRespected, StateOwned
<1>5. active_workers \in Nat /\ worker_limit \in Nat
  BY DEF Typed, TypeOK
<1>6. QED BY <1>1, <1>2, <1>3, <1>4, <1>5 DEF Balanced

LEMMA BalancedRun ==
    ASSUME OneManager, Typed, Governed, hasty \/ Balanced, NEW w \in Worker, Run(w)
    PROVE  hasty' \/ Balanced'
<1>0. /\ TypeOK /\ manager \in [Manager -> ManagerState]
      /\ worker_count \in Nat /\ active_workers \in Nat /\ worker_limit \in Nat
  BY DEF Typed, TypeOK
<1>1. PICK m \in Manager : Manager = {m}
  BY DEF OneManager
<1>2. CASE Register(w) /\ ~hasty
  <2>1. /\ w \in Created /\ Created' = Created \ {w}
        /\ worker_count' = worker_count + 1 /\ Report(worker_count')
        /\ UNCHANGED <<worker_limit, active_workers, state, manager, owed>>
    BY <1>0, <1>2 DEF Register, Created, TypeOK
  <2>2. /\ Cardinality(Created) \in Nat
        /\ Cardinality(Created') = Cardinality(Created) - 1
        /\ Created' = {} <=> Cardinality(Created') = 0
    BY <2>1, CountOne, CreatedCount DEF Created
  <2>3. /\ manager[m] \in {"start", "add_workers"}
        /\ worker_count + Cardinality(Created) = active_workers
        /\ m \in manager_cv
    BY <1>0, <1>2, <2>1 DEF Balanced, ManagerState
  <2>4. worker_count' + Cardinality(Created') = active_workers'
    BY <1>0, <2>1, <2>2, <2>3
  <2>5. Created' = {} <=> worker_count' = active_workers
    BY <1>0, <2>1, <2>2, <2>3
  <2>6. m \in manager_cv' <=> Created' # {}
    BY <1>0, <2>1, <2>3, <2>5, ReportOne
  <2>7. QED BY <1>1, <2>1, <2>3, <2>4, <2>6 DEF Balanced
<1>3. CASE Exit(w) /\ ~hasty
  <2>1. /\ Created' = Created /\ worker_count > active_workers
        /\ worker_count' = worker_count - 1 /\ Report(worker_count')
        /\ UNCHANGED <<worker_limit, active_workers, state, manager, owed>>
    BY <1>0, <1>3 DEF Exit, MustExit, Surplus, AtTest, Created, TypeOK
  <2>2. Cardinality(Created) \in Nat
    BY CreatedCount DEF Created
  <2>3. manager[m] \in {"remove_workers", "stop"} /\ Created = {}
    BY <1>0, <1>3, <2>1, <2>2 DEF Balanced, ManagerState
  <2>5. worker_count' >= active_workers'
    BY <1>0, <2>1
  <2>6. manager[m] = "stop" => worker_count' <= worker_limit'
    BY <1>0, <1>3, <2>1 DEF Balanced
  <2>7. QED BY <1>1, <2>1, <2>3, <2>5, <2>6 DEF Balanced
<1>4. CASE WaitForTask(w) \/ TakeTask(w) \/ FinishTask(w)
  <2>1. Created' = Created
    BY <1>0, <1>4 DEF WaitForTask, TakeTask, FinishTask, AtTest, Created, TypeOK
  <2>2. UNCHANGED <<worker_count, worker_limit, active_workers, manager, manager_cv, hasty>>
    BY <1>4 DEF WaitForTask, TakeTask, FinishTask, pool
  <2>3. QED BY <2>1, <2>2 DEF Balanced
<1>5. CASE hasty /\ (Register(w) \/ Exit(w))
  <2>1. /\ Report(worker_count') /\ hasty' = (hasty /\ ~AtRest')
        /\ UNCHANGED <<worker_limit, active_workers, state, manager>>
    BY <1>5 DEF Register, Exit
  <2>2. CASE AtRest'
    BY <2>1, <2>2, RestBalances
  <2>3. CASE ~AtRest'
    BY <1>5, <2>1, <2>3
  <2>4. QED BY <2>2, <2>3
<1>6. QED BY <1>2, <1>3, <1>4, <1>5 DEF Run

\* A call of the managing thread begins with the count right, and blocks if it makes
\* the count wrong.
LEMMA BalancedManage ==
    ASSUME OneManager, Typed, Governed, Balanced, NEW m \in Manager, Manage(m)
    PROVE  Balanced'
<1>0. /\ TypeOK /\ manager \in [Manager -> ManagerState] /\ state \in State
      /\ worker_count \in Nat /\ active_workers \in Nat /\ worker_limit \in Nat
      /\ Manager = {m} /\ LimitRespected /\ StateOwned
  BY DEF Typed, TypeOK, OneManager, Governed
<1>1. manager[m] = "out" /\ worker_count = active_workers /\ Created = {}
  BY DEF Manage, Start, AddWorkers, RemoveWorkers, Stop, Idle, Balanced
<1>2. CASE Start(m)
  <2> DEFINE n == NewWorkers(worker_limit, worker_limit)
  <2>1. n \in Nat /\ Create(n)
    BY <1>0, <1>2, NewWorkersTyped DEF Start
  <2>2. /\ Cardinality(Created') = n /\ (Created' = {} <=> n = 0)
        /\ active_workers' = active_workers + n
    BY <1>1, <2>1, CreateBalance
  <2>3. UNCHANGED <<worker_count, worker_limit>>
    BY <1>2 DEF Start
  <2>4. CASE n = 0
    <3>1. UNCHANGED manager /\ worker_count' = active_workers' /\ Created' = {}
      BY <1>0, <1>1, <1>2, <2>2, <2>3, <2>4 DEF Start
    <3>2. QED BY <1>0, <1>1, <2>3, <3>1 DEF Balanced
  <2>5. CASE n # 0
    <3>1. manager'[m] = "start" /\ m \in manager_cv'
      BY <1>0, <1>2, <2>5 DEF Start, Block
    <3>2. worker_count' + Cardinality(Created') = active_workers' /\ Created' # {}
      BY <1>0, <1>1, <2>1, <2>2, <2>3, <2>5
    <3>3. QED BY <1>0, <2>3, <3>1, <3>2 DEF Balanced
  <2> HIDE DEF n
  <2>6. QED BY <2>4, <2>5
<1>3. ASSUME NEW count \in 1 .. MaxLimit, AddWorkers(m, count)
      PROVE  Balanced'
  <2> DEFINE n == IF Dormant THEN 0 ELSE NewWorkers(count, worker_limit + count)
  <2>1. n \in Nat /\ Create(n)
    <3>1. count \in Nat /\ worker_limit + count \in Nat
      BY <1>0, LimitAssumption
    <3>2. QED BY <1>0, <1>3, <3>1, NewWorkersTyped DEF AddWorkers
  <2>2. /\ Cardinality(Created') = n /\ (Created' = {} <=> n = 0)
        /\ active_workers' = active_workers + n
    BY <1>1, <2>1, CreateBalance
  <2>3. UNCHANGED worker_count
    BY <1>3 DEF AddWorkers
  <2>4. CASE n = 0
    <3>1. UNCHANGED manager /\ worker_count' = active_workers' /\ Created' = {}
      BY <1>0, <1>1, <1>3, <2>2, <2>3, <2>4 DEF AddWorkers
    <3>2. QED BY <1>0, <1>1, <2>3, <3>1 DEF Balanced
  <2>5. CASE n # 0
    <3>1. manager'[m] = "add_workers" /\ m \in manager_cv'
      BY <1>0, <1>3, <2>5 DEF AddWorkers, Block
    <3>2. worker_count' + Cardinality(Created') = active_workers' /\ Created' # {}
      BY <1>0, <1>1, <2>1, <2>2, <2>3, <2>5
    <3>3. QED BY <1>0, <2>3, <3>1, <3>2 DEF Balanced
  <2> HIDE DEF n
  <2>6. QED BY <2>4, <2>5
<1>4. ASSUME NEW count \in Nat, Kill(count), UNCHANGED <<worker_count, thread>>,
             NEW call \in {"remove_workers", "stop"},
             IF KillDone(count) THEN UNCHANGED <<manager, manager_cv>> ELSE Block(m, call),
             call = "stop" => UNCHANGED worker_limit
      PROVE  Balanced'
  <2>1. Created' = {}
    BY <1>1, <1>4 DEF Created
  <2>2. CASE KillDone(count)
    <3>1. worker_count' = active_workers' /\ manager' = manager
      BY <1>0, <1>1, <1>4, <2>2 DEF Kill, KillDone, Least
    <3>2. QED BY <1>0, <1>1, <1>4, <2>1, <3>1 DEF Balanced
  <2>3. CASE ~KillDone(count)
    <3>1. manager'[m] = call /\ m \in manager_cv'
      BY <1>0, <1>4, <2>3 DEF Block
    <3>2. worker_count' >= active_workers' /\ worker_count' # active_workers'
      BY <1>0, <1>1, <1>4, <2>3 DEF Kill, KillDone, Least
    <3>3. call = "stop" => worker_count' <= worker_limit'
      BY <1>0, <1>1, <1>4 DEF LimitRespected
    <3>4. QED BY <1>0, <1>4, <2>1, <3>1, <3>2, <3>3 DEF Balanced
  <2>4. QED BY <2>2, <2>3
<1>5. ASSUME NEW count \in 1 .. MaxLimit, RemoveWorkers(m, count)
      PROVE  Balanced'
  <2> DEFINE n == IF Dormant THEN 0 ELSE Least(count, worker_limit)
  <2>1. n \in Nat
    BY <1>0, LimitAssumption DEF Least
  <2>2. /\ Kill(n) /\ UNCHANGED <<worker_count, thread>>
        /\ IF KillDone(n) THEN UNCHANGED <<manager, manager_cv>>
                          ELSE Block(m, "remove_workers")
    BY <1>5 DEF RemoveWorkers
  <2> HIDE DEF n
  <2>3. QED BY <1>4, <2>1, <2>2
<1>6. ASSUME NEW and_join \in BOOLEAN, Stop(m, and_join)
      PROVE  Balanced'
  <2>1. /\ Kill(active_workers) /\ UNCHANGED <<worker_count, thread, worker_limit>>
        /\ IF KillDone(active_workers) THEN UNCHANGED <<manager, manager_cv>>
                                       ELSE Block(m, "stop")
    BY <1>6 DEF Stop
  <2>2. QED BY <1>0, <1>4, <2>1
<1>7. QED BY <1>2, <1>3, <1>5, <1>6 DEF Manage

LEMMA BalancedNext ==
    ASSUME OneManager, Typed, Governed, hasty \/ Balanced, [Next]_vars
    PROVE  hasty' \/ Balanced'
<1>0. /\ TypeOK /\ manager \in [Manager -> ManagerState]
      /\ worker_count \in Nat /\ active_workers \in Nat /\ worker_limit \in Nat
  BY DEF Typed, TypeOK
<1>1. ASSUME NEW m \in Manager, Resume(m)
      PROVE  hasty' \/ Balanced'
  <2>0. /\ Manager = {m} /\ hasty' = hasty
        /\ UNCHANGED <<worker_count, worker_limit, active_workers>> /\ Created' = Created
    BY <1>1 DEF OneManager, Resume, CreateReturn, KillWaitAgain, KillReturn, pool, Created
  <2>1. CASE CreateReturn(m) /\ Balanced
    <3>1. manager'[m] = "out" /\ m \notin manager_cv /\ manager[m] \in {"start", "add_workers"}
      BY <1>0, <2>1 DEF CreateReturn, Woken
    <3>2. Created = {} /\ worker_count = active_workers
      <4>1. Created = {} /\ worker_count + Cardinality(Created) = active_workers
        BY <2>1, <3>1 DEF Balanced
      <4>2. Cardinality(Created) = 0
        BY <4>1, CreatedCount DEF Created
      <4>3. QED BY <1>0, <4>1, <4>2
    <3>3. QED BY <2>0, <3>1, <3>2 DEF Balanced
  <2>2. CASE KillWaitAgain(m) /\ Balanced
    BY <2>0, <2>2 DEF KillWaitAgain, Woken, Balanced
  <2>3. CASE KillReturn(m) /\ Balanced
    <3>1. manager'[m] = "out" /\ worker_count = active_workers /\ Created = {}
      BY <1>0, <2>3 DEF KillReturn, Woken, Balanced
    <3>2. QED BY <2>0, <3>1 DEF Balanced
  <2>4. QED BY <1>1, <2>0, <2>1, <2>2, <2>3 DEF Resume
<1>2. ASSUME NEW m \in Manager, Manage(m)
      PROVE  hasty' \/ Balanced'
  <2>1. hasty' = hasty
    BY <1>2 DEF Manage, Start, AddWorkers, RemoveWorkers, Stop
  <2>2. QED BY <1>2, <2>1, BalancedManage
<1>3. ASSUME NEW m \in Manager, WakeManager(m)
      PROVE  hasty' \/ Balanced'
  <2>1. CASE hasty \/ manager[m] \in {"start", "add_workers"}
    BY <1>3, <2>1 DEF WakeManager
  <2>2. CASE Balanced /\ manager[m] \notin {"start", "add_workers"}
    <3>1. UNCHANGED <<worker_count, worker_limit, active_workers, manager>> /\ Created' = Created
      BY <1>3 DEF WakeManager, pool, Created
    <3>2. \A k \in Manager : k = m
      BY DEF OneManager
    <3>3. QED BY <2>2, <3>1, <3>2 DEF Balanced
  <2>3. QED BY <2>1, <2>2
<1>4. ASSUME UNCHANGED <<worker_count, worker_limit, active_workers, thread, manager, manager_cv, hasty>>
      PROVE  hasty' \/ Balanced'
  BY <1>4 DEF Balanced, Created
<1>5. ASSUME NEW w \in Worker, WakeWorker(w)
      PROVE  hasty' \/ Balanced'
  BY <1>4, <1>5 DEF WakeWorker, pool
<1>6. CASE Submit \/ Clear \/ UNCHANGED vars
  BY <1>4, <1>6 DEF Submit, Push, Clear, vars, pool
<1>7. QED BY <1>1, <1>2, <1>3, <1>5, <1>6, BalancedRun DEF Next

\* Nobody runs a task in a pool without registered workers.
LEMMA NobodyRuns ==
    ASSUME Typed, Custody, worker_count = 0
    PROVE  \A w \in Worker : holding[w] = NoTask
<1>1. IsFiniteSet(Registered) /\ Cardinality(Registered) = 0
  BY WorkerAssumption, FS_Subset DEF Typed, CountersExact
<1>2. Registered = {}
  BY <1>1, FS_EmptySet
<1>3. QED BY <1>2 DEF Custody

LEMMA QuietRun ==
    ASSUME OneManager, IInv, Quiet, NEW w \in Worker, Run(w)
    PROVE  Quiet'
<1>0. /\ TypeOK /\ CountersExact /\ LimitRespected /\ StateOwned
      /\ UNCHANGED <<manager, active_workers, state>>
  BY DEF IInv, Typed, Governed, Run, Register, WaitForTask, TakeTask, FinishTask, Exit, pool
<1>1. owed' \subseteq owed
  BY DEF Run, Register, WaitForTask, TakeTask, FinishTask, Exit
<1>2. CASE TakeTask(w)
  <2>1. active_workers # 0 \/ state = "STOPPING"
    <3>1. w \in Registered /\ Registered \in SUBSET Worker
      BY <1>2 DEF TakeTask, AtTest
    <3> HIDE DEF Registered
    <3>2. Cardinality(Registered) \in Nat /\ Cardinality(Registered) > 0
      BY <3>1, CountOne
    <3>3. worker_count > 0
      BY <1>0, <3>2 DEF CountersExact
    <3>4. QED BY <1>0, <1>2, <3>3 DEF TakeTask, MayTake, Surplus, TypeOK
  <2>2. state = "STOPPING" => \A m \in Manager : manager[m] = "stop"
    BY <1>0 DEF OneManager, StateOwned
  <2>3. QED BY <1>0, <1>1, <2>1, <2>2 DEF Quiet
<1>3. CASE ~TakeTask(w)
  <2>1. \A v \in Worker : holding[v] = NoTask => holding'[v] = NoTask
    BY <1>0, <1>3 DEF Run, Register, WaitForTask, FinishTask, Exit, TypeOK
  <2>2. QED BY <1>0, <1>1, <2>1 DEF Quiet
<1>4. QED BY <1>2, <1>3

LEMMA QuietManage ==
    ASSUME OneManager, IInv, Quiet, NEW m \in Manager, Manage(m)
    PROVE  Quiet'
<1>0. /\ Typed /\ TypeOK /\ Custody /\ manager \in [Manager -> ManagerState] /\ Manager = {m}
      /\ worker_count \in Nat /\ active_workers \in Nat /\ worker_limit \in Nat
  BY DEF IInv, Typed, Served, TypeOK, OneManager
<1>1. /\ manager[m] = "out" /\ UNCHANGED <<worker_count, holding>>
      /\ active_workers = 0 => \A w \in Worker : holding[w] = NoTask
  BY DEF Manage, Start, AddWorkers, RemoveWorkers, Stop, Idle, Quiet
<1>2. ASSUME NEW n \in Nat, Create(n), NEW call \in {"start", "add_workers"},
             IF n = 0 THEN UNCHANGED <<manager, manager_cv>> ELSE Block(m, call),
             state' # "STOPPING" => owed' = {}
      PROVE  Quiet'
  <2>1. active_workers' = active_workers + n
    BY <1>2 DEF Create
  <2>2. CASE n = 0
    BY <1>0, <1>1, <1>2, <2>1, <2>2 DEF Quiet
  <2>3. CASE n # 0
    <3>1. manager'[m] = call /\ active_workers' > 0
      BY <1>0, <1>2, <2>1, <2>3 DEF Block
    <3>2. QED BY <1>0, <1>2, <3>1 DEF Quiet
  <2>4. QED BY <2>2, <2>3
<1>3. ASSUME NEW count \in Nat, Kill(count), NEW call \in {"remove_workers", "stop"},
             IF KillDone(count) THEN UNCHANGED <<manager, manager_cv>> ELSE Block(m, call),
             state' # "STOPPING" => owed' = {}
      PROVE  Quiet'
  <2>1. CASE KillDone(count)
    <3>1. active_workers' = 0 => active_workers = 0 \/ worker_count = 0
      BY <1>0, <1>3, <2>1 DEF Kill, KillDone
    <3>2. active_workers' = 0 => \A w \in Worker : holding'[w] = NoTask
      BY <1>0, <1>1, <3>1, NobodyRuns
    <3>3. QED BY <1>0, <1>1, <1>3, <2>1, <3>2 DEF Quiet
  <2>2. CASE ~KillDone(count)
    <3>1. manager'[m] = call
      BY <1>0, <1>3, <2>2 DEF Block
    <3>2. QED BY <1>0, <1>3, <3>1 DEF Quiet
  <2>3. QED BY <2>1, <2>2
<1>4. CASE Start(m)
  <2>1. NewWorkers(worker_limit, worker_limit) \in Nat
    BY <1>0, NewWorkersTyped
  <2>2. owed' = {}
    BY <1>4 DEF Start, Quiet
  <2>3. QED BY <1>2, <1>4, <2>1, <2>2 DEF Start
<1>5. ASSUME NEW count \in 1 .. MaxLimit, AddWorkers(m, count)
      PROVE  Quiet'
  <2> DEFINE n == IF Dormant THEN 0 ELSE NewWorkers(count, worker_limit + count)
  <2>1. n \in Nat
    <3>1. count \in Nat /\ worker_limit + count \in Nat
      BY <1>0, LimitAssumption
    <3>2. QED BY <1>0, <3>1, NewWorkersTyped
  <2>2. /\ Create(n) /\ (state' # "STOPPING" => owed' = {})
        /\ IF n = 0 THEN UNCHANGED <<manager, manager_cv>> ELSE Block(m, "add_workers")
    BY <1>5 DEF AddWorkers, Quiet
  <2> HIDE DEF n
  <2>3. QED BY <1>2, <2>1, <2>2
<1>6. ASSUME NEW count \in 1 .. MaxLimit, RemoveWorkers(m, count)
      PROVE  Quiet'
  <2> DEFINE n == IF Dormant THEN 0 ELSE Least(count, worker_limit)
  <2>1. n \in Nat
    BY <1>0, LimitAssumption DEF Least
  <2>2. /\ Kill(n) /\ (state' # "STOPPING" => owed' = {})
        /\ IF KillDone(n) THEN UNCHANGED <<manager, manager_cv>>
                          ELSE Block(m, "remove_workers")
    BY <1>6 DEF RemoveWorkers, Quiet
  <2> HIDE DEF n
  <2>3. QED BY <1>3, <2>1, <2>2
<1>7. ASSUME NEW and_join \in BOOLEAN, Stop(m, and_join)
      PROVE  Quiet'
  <2>1. /\ Kill(active_workers) /\ (state' # "STOPPING" => owed' = {})
        /\ IF KillDone(active_workers) THEN UNCHANGED <<manager, manager_cv>>
                                       ELSE Block(m, "stop")
    BY <1>7 DEF Stop
  <2>2. QED BY <1>0, <1>3, <2>1
<1>8. QED BY <1>4, <1>5, <1>6, <1>7 DEF Manage

LEMMA QuietNext ==
    ASSUME OneManager, IInv, Quiet, [Next]_vars
    PROVE  Quiet'
<1>0. Typed /\ TypeOK /\ Custody /\ StateOwned /\ manager \in [Manager -> ManagerState]
  BY DEF IInv, Typed, Served, Governed, TypeOK
<1>1. ASSUME UNCHANGED <<active_workers, state, holding, manager>>, owed' \in {owed, {}}
      PROVE  Quiet'
  BY <1>1 DEF Quiet
<1>2. ASSUME NEW m \in Manager, CreateReturn(m)
      PROVE  Quiet'
  <2>1. /\ Manager = {m} /\ manager'[m] = "out" /\ active_workers' > 0
        /\ UNCHANGED <<active_workers, holding, owed>>
    BY <1>0, <1>2 DEF OneManager, CreateReturn, Woken, Quiet
  <2>2. state # "STOPPING"
    BY <1>0, <1>2, <2>1 DEF StateOwned, CreateReturn, Woken
  <2>3. QED BY <2>1, <2>2 DEF Quiet
<1>3. ASSUME NEW m \in Manager, KillReturn(m)
      PROVE  Quiet'
  <2>1. /\ Manager = {m} /\ manager'[m] = "out" /\ worker_count = active_workers
        /\ UNCHANGED <<active_workers, holding>>
    BY <1>0, <1>3 DEF OneManager, KillReturn
  <2>2. active_workers = 0 => \A w \in Worker : holding[w] = NoTask
    BY <1>0, <2>1, NobodyRuns
  <2>3. state' # "STOPPING" => owed' = {}
    BY <1>3 DEF KillReturn, Quiet
  <2>4. QED BY <2>1, <2>2, <2>3 DEF Quiet
<1>4. ASSUME NEW m \in Manager, KillWaitAgain(m) \/ WakeManager(m)
      PROVE  Quiet'
  BY <1>1, <1>4 DEF KillWaitAgain, WakeManager, pool
<1>5. ASSUME NEW w \in Worker, WakeWorker(w)
      PROVE  Quiet'
  BY <1>1, <1>5 DEF WakeWorker, pool
<1>6. CASE Submit \/ Clear \/ UNCHANGED vars
  BY <1>1, <1>6 DEF Submit, Push, Clear, vars, pool
<1>7. QED BY <1>2, <1>3, <1>4, <1>5, <1>6, QuietRun, QuietManage DEF Next, Resume

LEMMA SteadyAlways ==
    ASSUME OneManager
    PROVE  Spec => []Steady
<1>1. IInv /\ Steady /\ [Next]_vars => Steady'
  BY BalancedNext, QuietNext DEF IInv, Steady
<1>2. QED BY <1>1, SteadyInit, Inductive, PTL DEF Spec

\* Whenever the one managing thread is outside all calls, the pool has exactly the workers
\* it should have: none is being created any more, none has still to exit; unless a spurious
\* wake-up ended the one wait of create_workers_nl, and the pool has not been at rest since.
THEOREM SettledCorrect ==
    ASSUME OneManager
    PROVE  Spec => []Settled
<1>1. Steady => Settled
  BY DEF OneManager, Steady, Balanced, Settled, AtRest, Idle, Created
<1>2. QED BY <1>1, SteadyAlways, PTL

-----------------------------------------------------------------------------
(* TaskManager with one managing thread implements TaskPool.               *)

Held == {holding[w] : w \in Worker}

\* The three cases of Status exclude one another as long as a task is in one place.
StatusSound ==
    \A t \in Task :
        /\ Status(t) = "queued"  <=> t \in Queued
        /\ Status(t) = "running" <=> t \in Held
        /\ Status(t) = "out"     <=> t \notin Queued /\ t \notin Held

LEMMA StatusIs == TaskInOnePlace => StatusSound
<1> SUFFICES ASSUME TaskInOnePlace, NEW t \in Task
             PROVE  /\ Status(t) = "queued"  <=> t \in Queued
                    /\ Status(t) = "running" <=> t \in Held
                    /\ Status(t) = "out"     <=> t \notin Queued /\ t \notin Held
  BY DEF StatusSound
<1>1. t \in Held => t \notin Queued
  BY NoTaskAssumption DEF TaskInOnePlace, Held
<1>2. t \in Held <=> \E w \in Worker : holding[w] = t
  BY DEF Held
<1>3. CASE t \in Queued
  <2>1. Status(t) = "queued"
    BY <1>1, <1>2, <1>3 DEF Status
  <2>2. QED BY <1>1, <1>3, <2>1
<1>4. CASE t \in Held
  <2>1. Status(t) = "running"
    BY <1>1, <1>2, <1>4 DEF Status
  <2>2. QED BY <1>1, <1>4, <2>1
<1>5. CASE t \notin Queued /\ t \notin Held
  <2>1. Status(t) = "out"
    BY <1>2, <1>5 DEF Status
  <2>2. QED BY <1>5, <2>1
<1>6. QED BY <1>3, <1>4, <1>5

\* STARTING and RUNNING are one phase.
PhaseSound ==
    /\ Phase = "idle"    <=> state = "IDLE"
    /\ Phase = "closing" <=> state = "STOPPING"
    /\ Phase = "open"    <=> state \notin {"IDLE", "STOPPING"}

LEMMA PhaseKept ==
    /\ PhaseSound /\ PhaseSound'
    /\ state' = state => Phase' = Phase
<1>1. PhaseSound
  BY DEF PhaseSound, Phase
<1>2. PhaseSound'
  BY <1>1, PTL
<1>3. ASSUME state' = state PROVE Phase' = Phase
  BY <1>3 DEF Phase
<1>4. QED BY <1>1, <1>2, <1>3

LEMMA StatusIsNext == TaskInOnePlace' => StatusSound'
BY StatusIs, PTL

\* A step that moves one task, and one that drops the queue, seen by the users.
TaskStatus == [t \in Task |-> Status(t)]

LEMMA StatusMove ==
    ASSUME TaskInOnePlace, TaskInOnePlace'
    PROVE  /\ Queued' = Queued /\ Held' \ {NoTask} = Held \ {NoTask} => TaskStatus' = TaskStatus
           /\ \A t \in Task :
                 (\A u \in Task \ {t} : /\ u \in Queued' <=> u \in Queued
                                        /\ u \in Held' <=> u \in Held)
                 => TaskStatus' = [TaskStatus EXCEPT ![t] = Status(t)']
           /\ Queued' = {} /\ Held' = Held => TaskStatus' = Promise!Discarded
<1>1. StatusSound /\ StatusSound'
  BY StatusIs, StatusIsNext
<1>2. \A u \in Task : u # NoTask
  BY NoTaskAssumption
<1>3. \A u \in Task : /\ u \in Queued' <=> u \in Queued
                      /\ u \in Held' <=> u \in Held
                      => Status(u)' = Status(u)
  BY <1>1 DEF StatusSound
<1>4. Queued' = Queued /\ Held' \ {NoTask} = Held \ {NoTask} => TaskStatus' = TaskStatus
  BY <1>2, <1>3 DEF TaskStatus
<1>5. ASSUME NEW t \in Task,
             \A u \in Task \ {t} : /\ u \in Queued' <=> u \in Queued
                                   /\ u \in Held' <=> u \in Held
      PROVE  TaskStatus' = [TaskStatus EXCEPT ![t] = Status(t)']
  BY <1>3, <1>5 DEF TaskStatus
<1>6. ASSUME Queued' = {}, Held' = Held
      PROVE  TaskStatus' = Promise!Discarded
  <2>1. \A u \in Task : Status(u)' = IF Status(u) = "queued" THEN "out" ELSE Status(u)
    BY <1>1, <1>3, <1>6 DEF StatusSound
  <2>2. QED BY <2>1 DEF TaskStatus, Promise!Discarded
<1>7. QED BY <1>4, <1>5, <1>6

\* TaskPool counts as this module does.
LEMMA SameCount == \A S : Promise!Cardinality(S) = Cardinality(S)
BY DEF Promise!Cardinality, Cardinality

\* At most one task is running for each registered worker that is not the one about to
\* take another.
LEMMA RunningFew ==
    ASSUME Typed, Served, NEW w \in Worker, AtTest(w)
    PROVE  /\ Cardinality(Promise!In("running")) \in Nat
           /\ Cardinality(Promise!In("running")) < worker_count
<1> DEFINE E == {v \in Worker : holding[v] # NoTask}
           f == [v \in E |-> holding[v]]
           T == {holding[v] : v \in E}
<1>1. f \in Surjection(E, T) /\ IsFiniteSet(E)
  BY WorkerAssumption, FS_Subset DEF Surjection
<1>2. IsFiniteSet(T) /\ Cardinality(T) <= Cardinality(E)
  BY <1>1, FS_Surjection
<1>3. \A t \in Promise!In("running") : t \in Task /\ t \in T
  <2>1. StatusSound
    BY StatusIs DEF Served
  <2>2. QED BY <2>1, NoTaskAssumption DEF Promise!In, StatusSound, Held
<1>4. E \subseteq Registered \ {w} /\ w \in Registered
  BY DEF Served, Custody, AtTest
<1>5. /\ Cardinality(Registered \ {w}) = worker_count - 1 /\ worker_count \in Nat
      /\ IsFiniteSet(Registered \ {w})
  <2>1. Registered \in SUBSET Worker /\ IsFiniteSet(Registered)
    BY WorkerAssumption, FS_Subset
  <2>2. QED BY <1>4, <2>1, CountOne, FS_RemoveElement DEF Typed, TypeOK, CountersExact
<1>6. Cardinality(E) <= worker_count - 1
  BY <1>4, <1>5, FS_Subset
<1>7. /\ IsFiniteSet(Promise!In("running"))
      /\ Cardinality(Promise!In("running")) <= Cardinality(T)
  BY <1>2, <1>3, FS_Subset
<1>8. /\ Cardinality(Promise!In("running")) \in Nat /\ Cardinality(T) \in Nat
      /\ Cardinality(E) \in Nat
  BY <1>1, <1>2, <1>7, FS_CardinalityType
<1> HIDE DEF E, T
<1>9. QED BY <1>2, <1>5, <1>6, <1>7, <1>8

\* What the users see of a step that takes no task, returns none and changes no limit.
LEMMA UnseenStep ==
    ASSUME TaskInOnePlace, TaskInOnePlace', state \in State,
           Queued' = Queued, Held' \ {NoTask} = Held \ {NoTask},
           owed' = owed, worker_limit' = worker_limit, hasty' = hasty,
           state' = state \/ (state = "STARTING" /\ state' = "RUNNING")
    PROVE  UNCHANGED Promise!vars
<1>1. TaskStatus' = TaskStatus
  BY StatusMove
<1>2. Phase' = Phase
  BY PhaseKept DEF PhaseSound
<1>3. QED BY <1>1, <1>2 DEF Promise!vars, TaskStatus

LEMMA PromiseTake ==
    ASSUME OneManager, IInv, IInv', hasty \/ Balanced, NEW w \in Worker, TakeTask(w)
    PROVE  Promise!Next
<1>a. PICK t : t = Head(tasks)
  OBVIOUS
<1>0. /\ Typed /\ TypeOK /\ TaskInOnePlace /\ TaskInOnePlace'
      /\ LimitRespected /\ StateOwned /\ Served
      /\ worker_count \in Nat /\ worker_limit \in Nat /\ state \in State
  BY DEF IInv, Typed, TypeOK, Governed, Served
<1>1. /\ t \in Task /\ t \in Queued /\ Queued' \subseteq Queued
      /\ Queued \ {t} \subseteq Queued' /\ t \notin Queued'
  <2>1. tasks \in Seq(Task) /\ tasks # << >> /\ tasks' = Tail(tasks)
    BY <1>0 DEF TypeOK, TakeTask, Rest
  <2>2. Distinct(tasks)
    BY <1>0 DEF TaskInOnePlace, Distinct
  <2>3. QED BY <1>a, <2>1, <2>2, ElemsOfTail, QueuedIsElems
<1>2. holding[w] = NoTask /\ holding' = [holding EXCEPT ![w] = t]
  BY <1>0, <1>a DEF TakeTask, AtTest, Served, Custody
<1>3. \A u \in Task \ {t} : u \in Held' <=> u \in Held
  <2>1. \A v \in Worker : holding'[v] = IF v = w THEN t ELSE holding[v]
    BY <1>0, <1>2 DEF TypeOK
  <2>2. QED BY <1>2, <2>1, NoTaskAssumption DEF Held
<1>4. t \in Held'
  BY <1>0, <1>2 DEF Held, TypeOK
<1>5. Status(t) = "queued" /\ Status(t)' = "running"
  BY <1>0, <1>1, <1>4, StatusIs, StatusIsNext DEF StatusSound
<1>6. TaskStatus' = [TaskStatus EXCEPT ![t] = "running"]
  BY <1>0, <1>1, <1>3, <1>5, StatusMove
<1>7. w \in Registered /\ worker_count # 0
  <2>1. w \in Registered
    BY DEF TakeTask, AtTest
  <2>2. Registered \in SUBSET Worker /\ worker_count = Cardinality(Registered)
    BY <1>0 DEF Typed, CountersExact
  <2> HIDE DEF Registered
  <2>3. Cardinality(Registered) \in Nat /\ Cardinality(Registered) > 0
    BY <2>1, <2>2, CountOne
  <2>4. QED BY <2>1, <2>2, <2>3
<1>8. state # "IDLE" /\ (worker_count <= worker_limit \/ (state = "STOPPING" /\ hasty))
  <2>1. CASE state = "STOPPING"
    BY <1>0, <2>1 DEF StateOwned, Balanced
  <2>2. CASE state # "STOPPING"
    <3>1. ~(worker_count > active_workers) /\ active_workers \in Nat
      BY <1>0, <2>2 DEF TakeTask, MayTake, Surplus, TypeOK
    <3>2. QED BY <1>0, <1>7, <3>1 DEF LimitRespected
  <2>3. QED BY <2>1, <2>2
<1>9. Cardinality(Promise!In("running")) < worker_limit \/ (state = "STOPPING" /\ hasty)
  <2>1. /\ Cardinality(Promise!In("running")) \in Nat
        /\ Cardinality(Promise!In("running")) < worker_count
    BY <1>0, RunningFew DEF TakeTask
  <2>2. QED BY <1>0, <1>8, <2>1
<1>10. Promise!Begin(t)
  <2>1. UNCHANGED <<state, worker_limit, hasty>> /\ owed' = owed \ {t}
    BY <1>a DEF TakeTask
  <2>2. Phase # "idle" /\ Phase' = Phase
    BY <1>0, <1>8, <2>1, PhaseKept DEF PhaseSound
  <2>3. TaskStatus[t] = "queued"
    BY <1>1, <1>5 DEF TaskStatus
  <2>4. \/ Promise!Cardinality(Promise!In("running")) < worker_limit
        \/ Phase = "closing" /\ hasty
    BY <1>9, SameCount, PhaseKept DEF PhaseSound
  <2>5. QED BY <1>6, <2>1, <2>2, <2>3, <2>4 DEF Promise!Begin, TaskStatus
<1>11. QED BY <1>1, <1>10 DEF Promise!Next

LEMMA PromiseFinish ==
    ASSUME IInv, IInv', NEW w \in Worker, FinishTask(w)
    PROVE  [Promise!Next]_(Promise!vars)
<1>a. PICK t : t = holding[w]
  OBVIOUS
<1>0. /\ TypeOK /\ TaskInOnePlace /\ TaskInOnePlace'
      /\ UNCHANGED <<state, worker_limit, owed, hasty>> /\ Queued' = Queued /\ state \in State
  BY DEF IInv, Typed, TypeOK, Served, FinishTask, pool, Queued
<1>1. \A v \in Worker : holding'[v] = IF v = w THEN NoTask ELSE holding[v]
  BY <1>0 DEF TypeOK, FinishTask
<1>2. CASE t = NoTask
  <2>1. Held' = Held
    BY <1>a, <1>1, <1>2 DEF Held
  <2>2. QED BY <1>0, <2>1, UnseenStep
<1>3. CASE t # NoTask
  <2>1. t \in Task /\ t \notin Queued /\ \A v \in Worker : holding[v] = t => v = w
    BY <1>a, <1>0, <1>3 DEF TypeOK, TaskInOnePlace
  <2>2. t \in Held /\ t \notin Held'
    BY <1>a, <1>1, <1>3, <2>1 DEF Held
  <2>3. \A u \in Task \ {t} : u \in Held' <=> u \in Held
    BY <1>a, <1>1, NoTaskAssumption DEF Held
  <2>4. Status(t) = "running" /\ Status(t)' = "out"
    BY <1>0, <2>1, <2>2, StatusIs, StatusIsNext DEF StatusSound
  <2>5. TaskStatus' = [TaskStatus EXCEPT ![t] = "out"]
    BY <1>0, <2>1, <2>3, <2>4, StatusMove
  <2>6. Promise!End(t)
    BY <1>0, <2>1, <2>4, <2>5, PhaseKept DEF Promise!End, TaskStatus
  <2>7. QED BY <2>1, <2>6 DEF Promise!Next
<1>4. QED BY <1>2, <1>3

LEMMA PromiseSubmit ==
    ASSUME IInv, IInv', Submit \/ Clear
    PROVE  Promise!Next
<1>0. /\ TypeOK /\ TaskInOnePlace /\ TaskInOnePlace'
      /\ UNCHANGED <<state, worker_limit, holding, hasty>>
  BY DEF IInv, Typed, Served, Submit, Push, Clear, pool
<1>1. ASSUME NEW t \in Task, NEW call \in {"push_front", "push_back"}, Push(t, call)
      PROVE  Promise!Next
  <2>1. t \notin Queued /\ t \notin Held /\ Held' = Held
    BY <1>0, <1>1 DEF Push, Pushable, Held
  <2>2. Queued' = Queued \cup {t}
    <3>1. tasks' = Append(tasks, t) \/ tasks' = <<t>> \o tasks
      BY <1>1 DEF Push
    <3>2. QED BY <1>0, <3>1, ElemsOfPush, QueuedIsElems DEF TypeOK
  <2>3. Status(t) = "out" /\ Status(t)' = "queued"
    BY <1>0, <2>1, <2>2, StatusIs, StatusIsNext DEF StatusSound
  <2>4. TaskStatus' = [TaskStatus EXCEPT ![t] = "queued"]
    BY <1>0, <2>1, <2>2, <2>3, StatusMove
  <2>5. Promise!Submit(t)
    BY <1>0, <1>1, <2>3, <2>4, PhaseKept DEF Promise!Submit, TaskStatus, Push
  <2>6. QED BY <2>5 DEF Promise!Next
<1>2. CASE Clear
  <2>1. Queued' = {} /\ Held' = Held /\ owed' = {}
    BY <1>0, <1>2 DEF Clear, Queued, Held
  <2>2. TaskStatus' = Promise!Discarded
    BY <1>0, <2>1, StatusMove
  <2>3. Promise!Discard
    BY <1>0, <2>1, <2>2, PhaseKept DEF Promise!Discard, TaskStatus
  <2>4. QED BY <2>3 DEF Promise!Next
<1>3. QED BY <1>1, <1>2 DEF Submit

\* The calls of the managing thread: opening, closing, and setting the limit.
LEMMA PromiseManage ==
    ASSUME OneManager, IInv, IInv', Steady, NEW m \in Manager, Manage(m)
    PROVE  [Promise!Next]_(Promise!vars)
<1>0. /\ TypeOK /\ TaskInOnePlace /\ TaskInOnePlace' /\ PhaseSound /\ PhaseSound'
      /\ Typed /\ LimitRespected /\ StateOwned /\ Served
      /\ worker_count \in Nat /\ worker_limit \in Nat /\ state \in State
      /\ Manager = {m} /\ worker_limit' \in Nat /\ Quiet /\ (hasty \/ Balanced)
  BY PhaseKept DEF Steady, IInv, Typed, TypeOK, Governed, Served, OneManager
<1>1. /\ manager[m] = "out" /\ (hasty \/ worker_count = active_workers)
      /\ state # "STARTING" /\ state # "STOPPING"
  BY <1>0 DEF Manage, Start, AddWorkers, RemoveWorkers, Stop, Idle, Balanced, StateOwned
<1>2. holding' = holding /\ Held' = Held /\ hasty' = hasty
  BY DEF Manage, Start, AddWorkers, RemoveWorkers, Stop, Held
<1>3. ASSUME tasks' = tasks
      PROVE  TaskStatus' = TaskStatus
  <2>1. Queued' = Queued
    BY <1>3 DEF Queued
  <2>2. QED BY <1>0, <1>2, <2>1, StatusMove
<1>4. CASE Start(m)
  <2>1. /\ UNCHANGED <<tasks, worker_limit, owed>>
        /\ state = "IDLE" /\ state' \in {"STARTING", "RUNNING"}
    BY <1>4 DEF Start
  <2>2. Promise!Open
    BY <1>0, <1>2, <1>3, <2>1 DEF Promise!Open, TaskStatus, PhaseSound
  <2>3. QED BY <2>2 DEF Promise!Next
<1>5. ASSUME NEW count \in 1 .. MaxLimit, AddWorkers(m, count) \/ RemoveWorkers(m, count)
      PROVE  Promise!Next
  <2>1. UNCHANGED <<tasks, owed, state>>
    BY <1>5 DEF AddWorkers, RemoveWorkers
  <2>2. Promise!SetLimit
    BY <1>0, <1>1, <1>2, <1>3, <2>1, PhaseKept DEF Promise!SetLimit, TaskStatus, PhaseSound
  <2>3. QED BY <2>2 DEF Promise!Next
<1>6. ASSUME NEW and_join \in BOOLEAN, Stop(m, and_join)
      PROVE  Promise!Next
  <2> DEFINE dropped == ~and_join
  <2>1. TaskStatus' = IF dropped THEN Promise!Discarded ELSE TaskStatus
    <3>1. CASE and_join
      BY <1>3, <1>6, <3>1 DEF Stop
    <3>2. CASE ~and_join
      <4>1. Queued' = {}
        BY <1>6, <3>2 DEF Stop, Queued
      <4>2. QED BY <1>0, <1>2, <3>2, <4>1, StatusMove
    <3>3. QED BY <3>1, <3>2
  <2>2. state = "RUNNING" /\ active_workers = worker_limit /\ owed = {}
        /\ UNCHANGED worker_limit
    BY <1>0, <1>6 DEF Stop, MayStop, LimitRespected, Quiet
  <2>3. CASE KillDone(active_workers)
    <3>1. /\ worker_limit = 0 \/ hasty
          /\ active_workers = 0 \/ worker_count = 0
      BY <1>0, <1>1, <2>2, <2>3 DEF KillDone, Least
    <3>2. Promise!In("running") = {}
      <4>1. \A w \in Worker : holding[w] = NoTask
        BY <1>0, <1>1, <3>1, NobodyRuns DEF Quiet, Served
      <4>2. \A t \in Task : Status(t) # "running"
        BY <1>0, <4>1, StatusIs, NoTaskAssumption DEF StatusSound, Held
      <4>3. QED BY <4>2 DEF Promise!In
    <3>3. state' = "IDLE" /\ owed' = {}
      BY <1>6, <2>3 DEF Stop
    <3>4. Promise!CloseUnstaffed(dropped)
      BY <1>0, <1>2, <2>1, <2>2, <3>1, <3>2, <3>3
      DEF Promise!CloseUnstaffed, TaskStatus, PhaseSound
    <3>5. QED BY <3>4 DEF Promise!Next
  <2>4. CASE ~KillDone(active_workers)
    <3>1. state' = "STOPPING" /\ owed' = IF dropped THEN {} ELSE Queued
      BY <1>6, <2>4 DEF Stop
    <3>2. Promise!In("queued") = Queued
      BY <1>0, StatusIs, QueuedTyped DEF StatusSound, Promise!In
    <3>3. Promise!Close(dropped)
      BY <1>0, <1>2, <2>1, <2>2, <3>1, <3>2 DEF Promise!Close, TaskStatus, PhaseSound
    <3>4. QED BY <3>3 DEF Promise!Next
  <2>5. QED BY <2>3, <2>4
<1>7. QED BY <1>4, <1>5, <1>6 DEF Manage

\* A call that returns: starting is over without being noticed, and a stop ends with
\* nothing running and nothing owed.
LEMMA PromiseResume ==
    ASSUME IInv, IInv', NEW m \in Manager, Resume(m)
    PROVE  [Promise!Next]_(Promise!vars)
<1>0. /\ TaskInOnePlace /\ TaskInOnePlace' /\ PhaseSound /\ PhaseSound'
      /\ Typed /\ StateOwned /\ LimitRespected /\ Served
      /\ worker_count \in Nat /\ state \in State
  BY PhaseKept DEF IInv, Typed, TypeOK, Governed, Served
<1>1. /\ Queued' = Queued /\ Held' = Held
      /\ UNCHANGED <<worker_limit, hasty>>
  BY DEF Resume, CreateReturn, KillWaitAgain, KillReturn, pool, Queued, Held
<1>2. CASE CreateReturn(m)
  <2>1. owed' = owed /\ (state' = state \/ (state = "STARTING" /\ state' = "RUNNING"))
    BY <1>0, <1>2 DEF CreateReturn, StateOwned
  <2>2. QED BY <1>0, <1>1, <2>1, UnseenStep
<1>3. CASE KillWaitAgain(m) \/ (KillReturn(m) /\ manager[m] # "stop")
  <2>1. owed' = owed /\ state' = state
    BY <1>3 DEF KillWaitAgain, KillReturn, pool
  <2>2. QED BY <1>0, <1>1, <2>1, UnseenStep
<1>4. CASE KillReturn(m) /\ manager[m] = "stop"
  <2>1. state = "STOPPING" /\ state' = "IDLE" /\ worker_count = 0
    BY <1>0, <1>4 DEF KillReturn, StateOwned, LimitRespected
  <2>2. owed = {} /\ owed' = {}
    BY <1>0, <1>4, <2>1 DEF KillReturn, Served, Drained
  <2>3. Promise!In("running") = {}
    <3>3. \A w \in Worker : holding[w] = NoTask
      BY <1>0, <2>1, NobodyRuns DEF Served
    <3>4. \A t \in Task : Status(t) # "running"
      BY <1>0, <3>3, StatusIs, NoTaskAssumption DEF StatusSound, Held
    <3>5. QED BY <3>4 DEF Promise!In
  <2>4. TaskStatus' = TaskStatus
    BY <1>0, <1>1, StatusMove
  <2>5. Promise!Closed
    BY <1>0, <1>1, <2>1, <2>2, <2>3, <2>4 DEF Promise!Closed, TaskStatus, PhaseSound
  <2>6. QED BY <2>5 DEF Promise!Next
<1>5. QED BY <1>2, <1>3, <1>4 DEF Resume

\* The users see of a wake-up by nobody, and of its end, that the pool is not ready, and
\* that it is.
LEMMA PromiseReady ==
    ASSUME IInv, IInv', Steady,
           (\E w \in Worker : Register(w) \/ Exit(w)) \/ (\E m \in Manager : WakeManager(m))
    PROVE  [Promise!Next]_(Promise!vars)
<1>0. /\ TaskInOnePlace /\ TaskInOnePlace' /\ PhaseSound /\ state \in State
      /\ hasty \in BOOLEAN /\ hasty' \in BOOLEAN
  BY PhaseKept DEF IInv, Typed, TypeOK, Served
<1>1. UNCHANGED <<tasks, holding, owed, worker_limit, active_workers, state>>
  BY DEF Register, Exit, WakeManager, pool
<1>2. Queued' = Queued /\ Held' = Held
  BY <1>1 DEF Queued, Held
<1>3. TaskStatus' = TaskStatus /\ Phase' = Phase
  BY <1>0, <1>1, <1>2, StatusMove, PhaseKept
<1>4. CASE hasty' = hasty
  BY <1>0, <1>1, <1>2, <1>4, UnseenStep
<1>5. CASE hasty /\ ~hasty'
  <2>1. Promise!GetReady
    BY <1>0, <1>1, <1>3, <1>5 DEF Promise!GetReady, TaskStatus
  <2>2. QED BY <2>1 DEF Promise!Next
<1>6. CASE ~hasty /\ hasty'
  <2>1. PICK m \in Manager : WakeManager(m) /\ manager[m] \in {"start", "add_workers"}
    BY <1>6 DEF Register, Exit, WakeManager
  <2>2. active_workers > 0
    BY <2>1 DEF Steady, Quiet
  <2>3. Phase = "open"
    BY <1>0, <2>2 DEF IInv, Governed, LimitRespected, PhaseSound
  <2>4. Promise!Hurry
    BY <1>0, <1>1, <1>3, <1>6, <2>1, <2>3 DEF Promise!Hurry, TaskStatus, WakeManager
  <2>5. QED BY <2>4 DEF Promise!Next
<1>7. QED BY <1>0, <1>4, <1>5, <1>6

LEMMA PromiseNext ==
    OneManager /\ IInv /\ IInv' /\ Steady /\ [Next]_vars => [Promise!Next]_(Promise!vars)
<1> SUFFICES ASSUME OneManager, IInv, IInv', Steady, [Next]_vars
             PROVE  [Promise!Next]_(Promise!vars)
  OBVIOUS
<1>0. TaskInOnePlace /\ TaskInOnePlace' /\ state \in State
  BY DEF IInv, Typed, TypeOK, Served
<1>1. ASSUME UNCHANGED <<tasks, holding, owed, worker_limit, state, hasty>>
      PROVE  UNCHANGED Promise!vars
  <2>1. Queued' = Queued /\ Held' = Held
    BY <1>1 DEF Queued, Held
  <2>2. QED BY <1>0, <1>1, <2>1, UnseenStep
<1>2. ASSUME NEW w \in Worker, Run(w)
      PROVE  [Promise!Next]_(Promise!vars)
  <2>1. CASE TakeTask(w) \/ FinishTask(w)
    BY <2>1, PromiseTake, PromiseFinish DEF Steady
  <2>2. CASE WaitForTask(w)
    BY <1>1, <2>2 DEF WaitForTask
  <2>3. CASE Register(w) \/ Exit(w)
    BY <2>3, PromiseReady
  <2>4. QED BY <1>2, <2>1, <2>2, <2>3 DEF Run
<1>3. ASSUME NEW w \in Worker, WakeWorker(w)
      PROVE  [Promise!Next]_(Promise!vars)
  BY <1>1, <1>3 DEF WakeWorker, pool
<1>4. ASSUME NEW m \in Manager, WakeManager(m)
      PROVE  [Promise!Next]_(Promise!vars)
  BY <1>4, PromiseReady
<1>5. CASE UNCHANGED vars
  BY <1>1, <1>5 DEF vars, pool
<1>6. QED BY <1>2, <1>3, <1>4, <1>5, PromiseManage, PromiseResume, PromiseSubmit DEF Next

\* One managing thread gets from the threads of the manager what TaskPool promises, even
\* where waits are woken by nobody: at most worker_limit_ tasks run at a time, none after
\* stop() or join() has returned, and join() leaves nothing that was queued when it was
\* called, unless no worker was left.  A wake-up by nobody of the one wait of
\* create_workers_nl takes from that, until the pool is at rest, only what TaskPool says.
THEOREM PromiseKept ==
    ASSUME OneManager
    PROVE  Spec => KeepsPromise
<1>1. Init => Promise!Init
  <2> SUFFICES ASSUME Init PROVE Promise!Init
    OBVIOUS
  <2>1. Queued = {} /\ \A t \in Task : t \notin Held
    BY NoTaskAssumption DEF Init, Queued, Held
  <2>2. \A t \in Task : Status(t) = "out"
    BY <2>1, ServedInit, StatusIs DEF StatusSound, Served
  <2>3. Phase = "idle"
    BY DEF Init, Phase
  <2>4. QED BY <2>2, <2>3, LimitAssumption DEF Init, Promise!Init
<1>2. OneManager
  OBVIOUS
<1>3. QED BY <1>1, <1>2, PromiseNext, Inductive, SteadyAlways, PTL
          DEF Spec, Promise!Spec, KeepsPromise
=============================================================================
