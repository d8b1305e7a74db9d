--------------------------- MODULE Barrier_proofs ---------------------------
(***************************************************************************)
(* What holds of Barrier for any number of threads, any threshold_ and any *)
(* width of round_: the count is exact, no released thread is left asleep, *)
(* and it implements Rendezvous.                                           *)
(***************************************************************************)
EXTENDS Barrier, FiniteSetTheorems, TLAPS

BInv == TypeOK /\ CountExact /\ NobodyStranded

\* What is inside is either filling the round or released from an earlier one.
LEMMA FillingFinite == IsFiniteSet(Filling) /\ Cardinality(Filling) \in Nat
<1>1. IsFiniteSet(Filling)
  BY ThreadAssumption, FS_Subset DEF Filling
<1>2. QED BY <1>1, FS_CardinalityType

LEMMA FollowingRound ==
    ASSUME NEW r \in 0 .. Rounds - 1
    PROVE  Following(r) \in 0 .. Rounds - 1
BY RoundsAssumption DEF Following

\* The operator as Rendezvous knows it.
LEMMA SameCardinality == \A S : Meeting!Cardinality(S) = Cardinality(S)
BY DEF Meeting!Cardinality, Cardinality, Meeting!IsFiniteSet, IsFiniteSet

LEMMA BInit == Init => BInv
<1> SUFFICES ASSUME Init PROVE BInv
  OBVIOUS
<1>1. TypeOK /\ NobodyStranded
  BY RoundsAssumption, ThresholdAssumption DEF Init, TypeOK, NobodyStranded, Outside
<1>2. Filling = {}
  BY DEF Init, Filling, Outside
<1>3. CountExact
  BY <1>2, FS_EmptySet DEF Init, CountExact
<1>4. QED BY <1>1, <1>3 DEF BInv

LEMMA BArrive ==
    ASSUME BInv, NEW t \in Thread, Arrive(t)
    PROVE  BInv' /\ Meeting!Arrive(t)
<1>1. /\ TypeOK /\ count = Cardinality(Filling) /\ t \notin Filling
      /\ Filling' = Filling \cup {t}
      /\ at'[t] = round /\ \A u \in Thread : u # t => at'[u] = at[u]
  BY DEF BInv, TypeOK, CountExact, Arrive, Filling, Outside
<1>2. Cardinality(Filling') = count + 1
  BY <1>1, FillingFinite, FS_AddElement
<1>3. count' \in 0 .. Threshold - 1 /\ Cardinality(Filling) + 1 < Threshold
  BY <1>1, ThresholdAssumption DEF Arrive, IsLast, TypeOK
<1>4. TypeOK'
  BY <1>1, <1>3 DEF Arrive, TypeOK, Outside
<1>5. CountExact' /\ NobodyStranded'
  BY <1>1, <1>2 DEF BInv, Arrive, CountExact, NobodyStranded
<1>6. t \notin Freed
  BY DEF Arrive, Freed
<1>7. Freed' = Freed
  BY <1>1 DEF Arrive, Freed
<1>8. Meeting!Arrive(t)
  BY <1>1, <1>3, <1>6, <1>7, SameCardinality DEF Meeting!Arrive
<1>9. QED BY <1>4, <1>5, <1>8 DEF BInv

LEMMA BComplete ==
    ASSUME BInv, NEW t \in Thread, Complete(t)
    PROVE  BInv' /\ Meeting!Complete(t)
<1>1. /\ TypeOK /\ count = Cardinality(Filling) /\ count + 1 = Threshold
      /\ at' = at /\ round' = Following(round) /\ count' = 0 /\ cv' = {}
      /\ at[t] = Outside /\ Outside \notin 0 .. Rounds - 1
      /\ \A u \in Thread : at[u] # Following(round)
  BY DEF BInv, TypeOK, CountExact, Complete, IsLast, Reset, Notify, NotLapped, Outside
<1>2. round' \in 0 .. Rounds - 1
  BY <1>1, FollowingRound DEF TypeOK
<1>3. Filling' = {}
  BY <1>1 DEF Filling
<1>4. TypeOK' /\ NobodyStranded'
  BY <1>1, <1>2, ThresholdAssumption DEF TypeOK, NobodyStranded
<1>5. CountExact'
  BY <1>1, <1>3, FS_EmptySet DEF CountExact
<1>6. t \notin Filling \cup Freed
  BY <1>1 DEF Filling, Freed, TypeOK
<1>7. Freed' = Freed \cup Filling
  BY <1>1 DEF Filling, Freed, TypeOK
<1>8. Meeting!Complete(t)
  BY <1>1, <1>3, <1>6, <1>7, SameCardinality DEF Meeting!Complete
<1>9. QED BY <1>4, <1>5, <1>8 DEF BInv

LEMMA BResume ==
    ASSUME BInv, NEW t \in Thread, Resume(t)
    PROVE  BInv' /\ [Meeting!Next]_(Meeting!vars)
<1>1. TypeOK /\ at[t] # Outside /\ UNCHANGED <<count, round>> /\ Outside \notin 0 .. Rounds - 1
  BY DEF BInv, Resume, TypeOK, Outside
<1>2. CASE at[t] = round
  <2>1. at' = at /\ cv' = cv \cup {t} /\ t \in Filling
    BY <1>2 DEF Resume, Released, Filling
  <2>2. Filling' = Filling
    BY <1>1, <2>1 DEF Filling
  <2>3. BInv'
    BY <1>1, <2>1, <2>2 DEF BInv, TypeOK, CountExact, NobodyStranded
  <2>4. UNCHANGED Meeting!vars
    BY <1>1, <2>1, <2>2 DEF Meeting!vars, Freed
  <2>5. QED BY <2>3, <2>4
<1>3. CASE at[t] # round
  <2>1. /\ cv' = cv /\ t \notin cv
        /\ at' = [at EXCEPT ![t] = Outside]
        /\ at'[t] = Outside /\ \A u \in Thread : u # t => at'[u] = at[u]
    BY <1>1, <1>3 DEF Resume, Released, TypeOK
  <2>2. Filling' = Filling
    BY <1>1, <1>3, <2>1 DEF Filling, TypeOK
  <2>3. BInv'
    BY <1>1, <2>1, <2>2 DEF BInv, TypeOK, CountExact, NobodyStranded
  <2>4. Freed' = Freed \ {t}
    BY <1>1, <2>1 DEF Freed
  <2>5. Meeting!Return(t)
    BY <1>1, <1>3, <2>2, <2>4 DEF Meeting!Return, Freed
  <2>6. QED BY <2>3, <2>5 DEF Meeting!Next
<1>4. QED BY <1>2, <1>3

LEMMA BStep == BInv /\ [Next]_vars => BInv' /\ [Meeting!Next]_(Meeting!vars)
<1> SUFFICES ASSUME BInv, [Next]_vars PROVE BInv' /\ [Meeting!Next]_(Meeting!vars)
  OBVIOUS
<1>1. ASSUME UNCHANGED <<count, round, at>>, cv' \subseteq cv
      PROVE  BInv' /\ UNCHANGED Meeting!vars
  BY <1>1 DEF BInv, TypeOK, CountExact, NobodyStranded, Filling, Freed, Meeting!vars
<1>2. CASE UNCHANGED vars
  BY <1>1, <1>2 DEF vars
<1>3. ASSUME NEW t \in Thread, Call(t) \/ Resume(t) \/ Wake(t)
      PROVE  BInv' /\ [Meeting!Next]_(Meeting!vars)
  <2>1. CASE Call(t)
    BY <2>1, BArrive, BComplete DEF Call, Meeting!Next
  <2>2. CASE Resume(t)
    BY <2>2, BResume
  <2>3. CASE Wake(t)
    BY <1>1, <2>3 DEF Wake
  <2>4. QED BY <1>3, <2>1, <2>2, <2>3
<1>4. QED BY <1>2, <1>3 DEF Next

LEMMA BAlways == Spec => []BInv
BY BInit, BStep, PTL DEF Spec

\* count_ is the number of threads of the current round, and below threshold_.
THEOREM TypeCorrect == Spec => []TypeOK
<1>1. BInv => TypeOK
  BY DEF BInv
<1>2. QED BY <1>1, BAlways, PTL

\* Slow threads of earlier rounds are not counted again.
THEOREM CountCorrect == Spec => []CountExact
<1>1. BInv => CountExact
  BY DEF BInv
<1>2. QED BY <1>1, BAlways, PTL

\* notify_all by the last thread leaves no thread of its round asleep.
THEOREM NobodyStrandedCorrect == Spec => []NobodyStranded
<1>1. BInv => NobodyStranded
  BY DEF BInv
<1>2. QED BY <1>1, BAlways, PTL

\* Rounds have exactly threshold_ threads and one of each gets true, for any number
\* of threads calling wait() in any order.
THEOREM RendezvousImplemented == Spec => ImplementsRendezvous
<1>1. Init => Meeting!Init
  BY DEF Init, Meeting!Init, Filling, Freed, Outside
<1>2. QED BY <1>1, BStep, BAlways, PTL DEF Spec, Meeting!Spec, ImplementsRendezvous
=============================================================================
