--------------------------- MODULE Threads_proofs ---------------------------
(***************************************************************************)
(* What holds of Threads for any number of threads and of those who wait   *)
(* for them: the registry's counts are exact, state_ keeps step with the   *)
(* thread, and neither join() nor all_threads::join() returns early.       *)
(***************************************************************************)
EXTENDS Threads, FiniteSetTheorems, TLAPS

TInv == TypeOK /\ CountsExact /\ StateFollows

Pending  == {"pending", "entry", "starting"}
Finished == {"unregistered", "gone"}

LEMMA CountNat == \A S \in SUBSET Thread : IsFiniteSet(S) /\ Cardinality(S) \in Nat
BY ThreadAssumption, FS_Subset, FS_CardinalityType

\* A thread goes from one place to another and nobody else moves.
Moves(t, from, to) ==
    /\ at[t] = from /\ at'[t] = to
    /\ \A u \in Thread : u # t => at'[u] = at[u]

LEMMA GoMoves ==
    ASSUME TypeOK, NEW t \in Thread, NEW from, NEW to \in Place, Go(t, from, to)
    PROVE  Moves(t, from, to) /\ at' \in [Thread -> Place]
BY DEF TypeOK, Go, Moves

\* What that does to the number of threads at some places.
LEMMA CountMoves ==
    ASSUME NEW t \in Thread, NEW from, NEW to, Moves(t, from, to), NEW P
    PROVE  Cardinality(AtAny(P)') = Cardinality(AtAny(P)) +
             (IF to \in P /\ from \notin P THEN 1 ELSE IF from \in P /\ to \notin P THEN -1 ELSE 0)
<1>1. IsFiniteSet(AtAny(P)) /\ Cardinality(AtAny(P)) \in Nat
  BY CountNat DEF AtAny
<1>2. CASE to \in P /\ from \notin P
  <2>1. AtAny(P)' = AtAny(P) \cup {t} /\ t \notin AtAny(P)
    BY <1>2 DEF AtAny, Moves
  <2>2. QED BY <1>1, <1>2, <2>1, FS_AddElement
<1>3. CASE from \in P /\ to \notin P
  <2>1. AtAny(P)' = AtAny(P) \ {t} /\ t \in AtAny(P)
    BY <1>3 DEF AtAny, Moves
  <2>2. QED BY <1>1, <1>3, <2>1, FS_RemoveElement
<1>4. CASE to \in P <=> from \in P
  <2>1. AtAny(P)' = AtAny(P)
    BY <1>4 DEF AtAny, Moves
  <2>2. QED BY <1>1, <1>4, <2>1
<1>5. QED BY <1>2, <1>3, <1>4

LEMMA AliveMoves ==
    ASSUME NEW t \in Thread, NEW from, NEW to, Moves(t, from, to)
    PROVE  /\ (to \in Alive <=> from \in Alive) => AtAny(Alive)' = AtAny(Alive)
           /\ to \in Alive => AtAny(Alive)' = AtAny(Alive) \cup {t}
           /\ to \notin Alive => AtAny(Alive)' = AtAny(Alive) \ {t}
BY DEF AtAny, Moves

\* Moves inside one of the three classes leave the counts as they are.
LEMMA SameClass ==
    ASSUME CountsExact, NEW t \in Thread, NEW from, NEW to, Moves(t, from, to),
           from \in Pending <=> to \in Pending, from \in Alive <=> to \in Alive,
           from \in Finished <=> to \in Finished,
           UNCHANGED <<pending_count, running_count, finished_count, threads>>
    PROVE  CountsExact'
<1>1. /\ Cardinality(AtAny(Pending)') = Cardinality(AtAny(Pending)) + 0
      /\ Cardinality(AtAny(Alive)') = Cardinality(AtAny(Alive)) + 0
      /\ Cardinality(AtAny(Finished)') = Cardinality(AtAny(Finished)) + 0
  BY CountMoves
<1>2. \A P : Cardinality(AtAny(P)) \in Nat
  BY CountNat DEF AtAny
<1>3. AtAny(Alive)' = AtAny(Alive)
  BY AliveMoves
<1>4. QED BY <1>1, <1>2, <1>3 DEF CountsExact, Pending, Finished

\* Nobody moves.
LEMMA Standing ==
    ASSUME TInv, UNCHANGED <<at, state, pending_count, running_count, finished_count, threads>>
    PROVE  CountsExact' /\ StateFollows'
<1>1. \A P : AtAny(P)' = AtAny(P)
  BY DEF AtAny
<1>2. CountsExact'
  BY <1>1 DEF TInv, CountsExact, Alive
<1>3. QED BY <1>2 DEF TInv, StateFollows

LEMMA TInit == Init => TInv
<1> SUFFICES ASSUME Init PROVE TInv
  OBVIOUS
<1>1. TypeOK
  BY DEF Init, TypeOK, Place, State
<1>2. AtAny(Pending) = {} /\ AtAny(Alive) = {} /\ AtAny(Finished) = {}
  BY DEF Init, AtAny, Pending, Alive, Finished
<1>3. CountsExact
  BY <1>2, FS_EmptySet DEF Init, CountsExact, Pending, Finished
<1>4. StateFollows
  BY DEF Init, StateFollows
<1>5. QED BY <1>1, <1>3, <1>4 DEF TInv

-----------------------------------------------------------------------------
(* The three steps that change the counts                                  *)

LEMMA TRegisterPending ==
    ASSUME TInv, NEW t \in Thread, RegisterPending(t)
    PROVE  TInv'
<1>1. TypeOK /\ CountsExact /\ StateFollows
  BY DEF TInv
<1>2. Moves(t, "out", "pending") /\ at' \in [Thread -> Place]
  BY <1>1, GoMoves DEF RegisterPending, Place
<1>3. /\ pending_count' = pending_count + 1
      /\ UNCHANGED <<info, running_count, finished_count, threads, dying, joining_all, dying_cv>>
  BY DEF RegisterPending, Announce
<1>4. TypeOK'
  BY <1>1, <1>2, <1>3 DEF TypeOK, info, Moves
<1>5. CountsExact'
  <2>1. /\ Cardinality(AtAny(Pending)') = Cardinality(AtAny(Pending)) + 1
        /\ Cardinality(AtAny(Alive)') = Cardinality(AtAny(Alive)) + 0
        /\ Cardinality(AtAny(Finished)') = Cardinality(AtAny(Finished)) + 0
        /\ AtAny(Alive)' = AtAny(Alive)
    BY <1>2, CountMoves, AliveMoves DEF Pending, Alive, Finished
  <2>2. QED BY <1>1, <1>3, <2>1 DEF CountsExact, Pending, Finished, TypeOK
<1>6. StateFollows'
  BY <1>1, <1>2, <1>3 DEF StateFollows, Moves, info
<1>7. QED BY <1>4, <1>5, <1>6 DEF TInv

LEMMA TRegisterStarted ==
    ASSUME TInv, NEW t \in Thread, RegisterStarted(t)
    PROVE  TInv'
<1>1. TypeOK /\ CountsExact /\ StateFollows
  BY DEF TInv
<1>2. Moves(t, "starting", "registered") /\ at' \in [Thread -> Place]
  BY <1>1, GoMoves DEF RegisterStarted, Place
<1>3. /\ pending_count' = pending_count - 1 /\ running_count' = running_count + 1
      /\ threads' = threads \cup {t}
      /\ UNCHANGED <<info, finished_count, dying, joining_all, dying_cv>>
  BY DEF RegisterStarted
<1>4. CountsExact' /\ pending_count' \in Nat
  <2>1. /\ Cardinality(AtAny(Pending)') = Cardinality(AtAny(Pending)) + (-1)
        /\ Cardinality(AtAny(Alive)') = Cardinality(AtAny(Alive)) + 1
        /\ Cardinality(AtAny(Finished)') = Cardinality(AtAny(Finished)) + 0
        /\ AtAny(Alive)' = AtAny(Alive) \cup {t}
    BY <1>2, CountMoves, AliveMoves DEF Pending, Alive, Finished
  <2>2. Cardinality(AtAny(Pending)') \in Nat
    <3>1. AtAny(Pending)' \in SUBSET Thread
      BY DEF AtAny
    <3>2. QED BY <3>1, CountNat
  <2>3. QED BY <1>1, <1>3, <2>1, <2>2 DEF CountsExact, Pending, Finished, TypeOK
<1>5. TypeOK'
  BY <1>1, <1>2, <1>3, <1>4 DEF TypeOK, info, Moves
<1>6. StateFollows'
  BY <1>1, <1>2, <1>3 DEF StateFollows, Moves, info
<1>7. QED BY <1>4, <1>5, <1>6 DEF TInv

LEMMA TRegisterFinished ==
    ASSUME TInv, NEW t \in Thread, RegisterFinished(t)
    PROVE  TInv'
<1>1. TypeOK /\ CountsExact /\ StateFollows
  BY DEF TInv
<1>2. Moves(t, "ran", "unregistered") /\ at' \in [Thread -> Place]
  BY <1>1, GoMoves DEF RegisterFinished, Place
<1>3. /\ running_count' = running_count - 1 /\ finished_count' = finished_count + 1
      /\ threads' = threads \ {t} /\ dying_cv' \subseteq dying_cv
      /\ UNCHANGED <<info, pending_count, dying, joining_all>>
  BY DEF RegisterFinished
<1>4. CountsExact' /\ running_count' \in Nat
  <2>1. /\ Cardinality(AtAny(Pending)') = Cardinality(AtAny(Pending)) + 0
        /\ Cardinality(AtAny(Alive)') = Cardinality(AtAny(Alive)) + (-1)
        /\ Cardinality(AtAny(Finished)') = Cardinality(AtAny(Finished)) + 1
        /\ AtAny(Alive)' = AtAny(Alive) \ {t}
    BY <1>2, CountMoves, AliveMoves DEF Pending, Alive, Finished
  <2>2. Cardinality(AtAny(Alive)') \in Nat
    <3>1. AtAny(Alive)' \in SUBSET Thread
      BY DEF AtAny
    <3>2. QED BY <3>1, CountNat
  <2>3. QED BY <1>1, <1>3, <2>1, <2>2 DEF CountsExact, Pending, Finished, TypeOK
<1>5. TypeOK'
  BY <1>1, <1>2, <1>3, <1>4 DEF TypeOK, info, Moves
<1>6. StateFollows'
  BY <1>1, <1>2, <1>3 DEF StateFollows, Moves, info
<1>7. QED BY <1>4, <1>5, <1>6 DEF TInv

-----------------------------------------------------------------------------
(* The other steps of a thread                                             *)

\* A thread goes on within its class, and its state with it.
LEMMA Onward ==
    ASSUME TInv, NEW t \in Thread, NEW from, NEW to \in Place, Go(t, from, to),
           from \in Pending <=> to \in Pending, from \in Alive <=> to \in Alive,
           from \in Finished <=> to \in Finished,
           NEW old \in State, NEW new \in State, Turn(t, old, new),
           state[t] = old,
           \/ from = "pending" /\ to = "entry" /\ new = "INITIALIZED"
           \/ from = "entry" /\ to = "starting" /\ new = "STARTING"
           \/ to = "running" /\ new = "RUNNING"
           \/ to = "sleeping" /\ new = "SLEEPING"
           \/ to = "ran" /\ new = "JOINING"
           \/ to = "gone" /\ new = "JOINED",
           detached' \subseteq Thread, joining' = joining, state_cv' \subseteq state_cv,
           sleep_cv' \subseteq sleep_cv \cup {t}, to = "sleeping" \/ t \notin sleep_cv',
           UNCHANGED registry
    PROVE  TInv'
<1>1. TypeOK /\ CountsExact /\ StateFollows
  BY DEF TInv
<1>2. Moves(t, from, to) /\ at' \in [Thread -> Place]
  BY <1>1, GoMoves
<1>3. /\ state' \in [Thread -> State] /\ state'[t] = new
      /\ \A u \in Thread : u # t => state'[u] = state[u]
  BY <1>1 DEF Turn, TypeOK
<1>4. CountsExact'
  BY <1>1, <1>2, SameClass DEF registry
<1>5. StateFollows'
  BY <1>1, <1>2, <1>3 DEF StateFollows, Moves
<1>6. TypeOK'
  BY <1>1, <1>2, <1>3 DEF TypeOK, Moves, registry
<1>7. QED BY <1>4, <1>5, <1>6 DEF TInv

LEMMA TEntry ==
    ASSUME TInv, NEW t \in Thread,
           (\E detach \in BOOLEAN : Initialize(t, detach)) \/ OnBeforeStart(t) \/ RunBegins(t)
             \/ RunEnds(t) \/ OnBeforeJoin(t)
    PROVE  TInv'
<1>1. TypeOK /\ StateFollows /\ detached \subseteq Thread
  BY DEF TInv, TypeOK
<1> USE DEF Pending, Alive, Finished, Place, State
<1>2. ASSUME NEW detach \in BOOLEAN, Initialize(t, detach) PROVE TInv'
  <2>1. state[t] = "CREATED" /\ t \notin sleep_cv
    BY <1>1, <1>2 DEF Initialize, Go, StateFollows, TypeOK
  <2>2. QED BY <1>1, <1>2, <2>1, Onward DEF Initialize
<1>3. CASE OnBeforeStart(t)
  <2>1. state[t] = "INITIALIZED" /\ t \notin sleep_cv
    BY <1>1, <1>3 DEF OnBeforeStart, Go, StateFollows, TypeOK
  <2>2. QED BY <1>1, <1>3, <2>1, Onward DEF OnBeforeStart
<1>4. CASE RunBegins(t)
  <2>1. state[t] = "STARTING" /\ t \notin sleep_cv
    BY <1>1, <1>4 DEF RunBegins, Go, StateFollows, TypeOK
  <2>2. QED BY <1>1, <1>4, <2>1, Onward DEF RunBegins
<1>5. CASE RunEnds(t)
  <2>1. state[t] = "RUNNING" /\ t \notin sleep_cv
    BY <1>1, <1>5 DEF RunEnds, Go, StateFollows, TypeOK
  <2>2. QED BY <1>1, <1>5, <2>1, Onward DEF RunEnds
<1>6. CASE OnBeforeJoin(t)
  <2>1. state[t] = "JOINING" /\ t \notin sleep_cv
    BY <1>1, <1>6 DEF OnBeforeJoin, Go, StateFollows, TypeOK
  <2>2. QED BY <1>1, <1>6, <2>1, Onward DEF OnBeforeJoin, NotifyJoiners
<1>7. QED BY <1>2, <1>3, <1>4, <1>5, <1>6

LEMMA TSleep ==
    ASSUME TInv, NEW t \in Thread, Sleep(t) \/ SleepEnds(t)
    PROVE  TInv'
<1>1. TypeOK /\ StateFollows /\ detached \subseteq Thread
  BY DEF TInv, TypeOK
<1> USE DEF Pending, Alive, Finished, Place, State
<1>2. CASE Sleep(t)
  BY <1>1, <1>2, Onward DEF Sleep
<1>3. CASE SleepEnds(t)
  <2>1. state[t] = "SLEEPING"
    BY <1>1, <1>3 DEF SleepEnds, Go, StateFollows
  <2>2. QED BY <1>1, <1>3, <2>1, Onward DEF SleepEnds, Awake
<1>4. QED BY <1>2, <1>3

\* Whoever waits, wakes or is woken moves no thread.
LEMMA TWait ==
    ASSUME TInv, UNCHANGED <<at, state, pending_count, running_count, finished_count, threads>>,
           detached' \subseteq Thread, sleep_cv' \subseteq sleep_cv,
           joining' \subseteq Joiner \X Thread, state_cv' \subseteq joining', dying' \in BOOLEAN,
           joining_all' \subseteq Joiner, dying_cv' \subseteq joining_all'
    PROVE  TInv'
<1>1. TypeOK'
  BY DEF TInv, TypeOK
<1>2. QED BY <1>1, Standing DEF TInv

LEMMA TNext == TInv /\ [Next]_vars => TInv'
<1> SUFFICES ASSUME TInv, [Next]_vars PROVE TInv'
  OBVIOUS
<1>1. TypeOK
  BY DEF TInv
<1>2. ASSUME NEW t \in Thread, TimeOut(t) \/ Wake(t) \/ Detach(t) PROVE TInv'
  BY <1>1, <1>2, TWait DEF TimeOut, Wake, Detach, NotifyJoiners, TypeOK, registry
<1>3. ASSUME NEW j \in Joiner, NEW t \in Thread, Join(j, t) \/ JoinAgain(j, t) PROVE TInv'
  <2>1. <<j, t>> \in Joiner \X Thread
    OBVIOUS
  <2>2. CASE Join(j, t)
    BY <1>1, <2>1, <2>2, TWait DEF Join, TypeOK, registry
  <2>3. CASE JoinAgain(j, t)
    BY <1>1, <2>1, <2>3, TWait DEF JoinAgain, TypeOK, registry
  <2>4. QED BY <1>3, <2>2, <2>3
<1>4. ASSUME NEW j \in Joiner, JoinAll(j) \/ JoinAllAgain(j) PROVE TInv'
  <2>1. CASE JoinAll(j)
    <3>1. dying' \in BOOLEAN /\ joining_all' \subseteq Joiner /\ dying_cv' \subseteq joining_all'
      BY <1>1, <2>1 DEF JoinAll, TypeOK
    <3>2. QED BY <1>1, <2>1, <3>1, TWait DEF JoinAll, TypeOK, info
  <2>2. CASE JoinAllAgain(j)
    <3>1. dying' \in BOOLEAN /\ joining_all' \subseteq Joiner /\ dying_cv' \subseteq joining_all'
      BY <1>1, <2>2 DEF JoinAllAgain, TypeOK
    <3>2. QED BY <1>1, <2>2, <3>1, TWait DEF JoinAllAgain, TypeOK, info
  <2>3. QED BY <1>4, <2>1, <2>2
<1>5. ASSUME NEW j \in Joiner, WakeJoiner(j) PROVE TInv'
  BY <1>1, <1>5, TWait DEF WakeJoiner, TypeOK
<1>6. CASE UNCHANGED vars
  BY <1>1, <1>6, TWait DEF vars, info, registry, TypeOK
<1>7. QED BY <1>2, <1>3, <1>4, <1>5, <1>6, TEntry, TSleep, TRegisterPending,
             TRegisterStarted, TRegisterFinished DEF Next, Advance

LEMMA TInductive == Spec => []TInv
<1>1. QED BY TInit, TNext, PTL DEF Spec

\* The registry's counts partition the threads ever started, and every thread reaches the
\* states of ENTRY in order, for any number of threads and joiners.
THEOREM RegistryCorrect == Spec => []RegistryExact
<1>1. TInv => RegistryExact
  BY DEF TInv, RegistryExact
<1>2. QED BY <1>1, TInductive, PTL

\* Counts of zero mean that nobody is left.
LEMMA NobodyLeft == ASSUME TInv, AllDone PROVE AtAny(Pending \cup Alive) = {}
<1>1. Cardinality(AtAny(Pending)) = 0 /\ Cardinality(AtAny(Alive)) = 0
  BY DEF TInv, AllDone, CountsExact, Pending
<1>2. AtAny(Pending) = {} /\ AtAny(Alive) = {}
  <2>1. IsFiniteSet(AtAny(Pending)) /\ IsFiniteSet(AtAny(Alive))
    BY CountNat DEF AtAny
  <2>2. QED BY <1>1, <2>1, FS_EmptySet
<1>3. QED BY <1>2 DEF AtAny

\* No join() returns before its thread has left the registry or is detached, and no
\* all_threads::join() while a thread that was started is unfinished.
THEOREM JoinsCorrect == Spec => JoinsExact
<1> DEFINE Exact ==
      /\ \A j \in Joiner : j \in joining_all /\ j \notin joining_all' =>
            AtAny({"pending", "entry", "starting"} \cup Alive) = {}
      /\ \A p \in joining : p \notin joining' => at[p[2]] = "gone" \/ p[2] \in detached
<1>1. TInv /\ [Next]_vars => [Exact]_vars
  <2> SUFFICES ASSUME TInv, Next PROVE Exact
    OBVIOUS
  <2>1. TypeOK /\ StateFollows
    BY DEF TInv
  <2>2. ASSUME NEW j \in Joiner, j \in joining_all, j \notin joining_all'
        PROVE  AtAny(Pending \cup Alive) = {}
    <3>1. AllDone
      BY <2>2 DEF Next, Advance, RegisterPending, Initialize, OnBeforeStart, RegisterStarted,
                  RunBegins, RunEnds, RegisterFinished, OnBeforeJoin, Sleep, TimeOut, SleepEnds,
                  Wake, Join, JoinAgain, Detach, JoinAll, JoinAllAgain, WakeJoiner, registry
    <3>2. QED BY <3>1, NobodyLeft
  <2>3. ASSUME NEW p \in joining, p \notin joining'
        PROVE  at[p[2]] = "gone" \/ p[2] \in detached
    <3>1. PICK j \in Joiner, t \in Thread : JoinAgain(j, t)
      BY <2>3 DEF Next, Advance, RegisterPending, Initialize, OnBeforeStart, RegisterStarted,
                  RunBegins, RunEnds, RegisterFinished, OnBeforeJoin, Sleep, TimeOut, SleepEnds,
                  Wake, Join, Detach, JoinAll, JoinAllAgain, WakeJoiner, info
    <3>2. p = <<j, t>> /\ Joined(t)
      BY <2>3, <3>1 DEF JoinAgain
    <3>3. state[t] = "JOINED" => at[t] = "gone"
      BY <2>1 DEF StateFollows, TypeOK, Place
    <3>4. QED BY <3>2, <3>3 DEF Joined
  <2>4. QED BY <2>2, <2>3 DEF Pending
<1>2. QED BY <1>1, TInductive, PTL DEF Spec, JoinsExact
=============================================================================
