------------------------------ MODULE Barrier ------------------------------
(***************************************************************************)
(* zi::barrier (src/zi/concurrency/barrier.hpp): wait() blocks until       *)
(* threshold_ threads are inside it, and may be called again at once, so   *)
(* slow threads of one round meet fast ones of the next.  mutex m_ is held *)
(* except inside cv_.wait, so one action is wait() up to its return or its *)
(* block, or a woken thread from there on.                                 *)
(***************************************************************************)
EXTENDS Integers, FiniteSets

CONSTANTS
    Thread,
    Threshold,  \* threshold_
    Rounds,     \* the number of values of round_ (int32_t: 2^32)
    Spurious    \* does cv_ wake threads unnotified

ASSUME ThreadAssumption == IsFiniteSet(Thread)
ASSUME ThresholdAssumption == Threshold \in Nat \ {0}
ASSUME RoundsAssumption == Rounds \in Nat \ {0, 1}
ASSUME SpuriousAssumption == Spurious \in BOOLEAN

VARIABLES
    count,  \* count_
    round,  \* round_
    at,     \* the local variable round of each call of wait(), or Outside
    cv      \* threads blocked in cv_

vars == <<count, round, at, cv>>

Outside == -1

Init ==
    /\ count = 0
    /\ round = 0
    /\ at = [t \in Thread |-> Outside]
    /\ cv = {}

-----------------------------------------------------------------------------

IsLast(c) == c = Threshold
Following(r) == (r + 1) % Rounds

\* A thread that finds its place taken waits for ever, so no thread may sleep
\* while the others turn round_ all the way; 2^32 rounds are enough for that.
NotLapped == \A t \in Thread : at[t] # Following(round)

Arrive(t) ==
    /\ at[t] = Outside
    /\ ~IsLast(count + 1)
    /\ count' = count + 1
    /\ at' = [at EXCEPT ![t] = round]
    /\ cv' = cv \cup {t}
    /\ UNCHANGED round

\* What the last thread does to the others.  Mutant: it wakes one of them.
Reset == count' = 0

Notify_One == \/ cv = {} /\ cv' = {}
              \/ \E t \in cv : cv' = cv \ {t}
Notify     == cv' = {}

\* wait() returns true.
Complete(t) ==
    /\ at[t] = Outside
    /\ IsLast(count + 1)
    /\ NotLapped
    /\ round' = Following(round)
    /\ Reset
    /\ Notify
    /\ UNCHANGED at

\* Mutant: the test after cv_.wait is not repeated.
Released_Once(t) == TRUE
Released(t)      == at[t] # round

\* A woken thread looks at round_; wait() returns false.
Resume(t) ==
    /\ at[t] # Outside /\ t \notin cv
    /\ IF Released(t)
         THEN at' = [at EXCEPT ![t] = Outside] /\ UNCHANGED cv
         ELSE cv' = cv \cup {t} /\ UNCHANGED at
    /\ UNCHANGED <<count, round>>

\* POSIX allows a wait to return without a notification.
Wake(t) ==
    /\ Spurious
    /\ t \in cv
    /\ cv' = cv \ {t}
    /\ UNCHANGED <<count, round, at>>

Call(t) == Arrive(t) \/ Complete(t)

Next == \E t \in Thread : Call(t) \/ Resume(t) \/ Wake(t)

Spec == Init /\ [][Next]_vars

\* Threads that are not blocked run; nobody has to call wait().
FairSpec == Spec /\ \A t \in Thread : WF_vars(Resume(t))

-----------------------------------------------------------------------------
(* Properties.                                                             *)

TypeOK ==
    /\ count \in 0 .. Threshold - 1
    /\ round \in 0 .. Rounds - 1
    /\ at \in [Thread -> 0 .. Rounds - 1 \cup {Outside}]
    /\ cv \subseteq {t \in Thread : at[t] # Outside}

Filling == {t \in Thread : at[t] = round}
Freed   == {t \in Thread : at[t] \notin {Outside, round}}

\* count_ counts the threads of the current round only: those of the rounds before,
\* some of which may still be inside wait(), count no more.
CountExact == count = Cardinality(Filling)

\* No thread of a complete round is asleep, however many rounds ago it was.
NobodyStranded == cv \subseteq Filling

\* Rounds of exactly threshold_ threads, one of which gets true: a thread woken for
\* no reason, or late, neither passes early nor is taken for one of the next round.
Meeting == INSTANCE Rendezvous WITH
    arrived  <- Filling,
    released <- Freed
ImplementsRendezvous == Meeting!Spec

\* A thread of a complete round returns, whatever rounds follow in the meantime.
WaitEnds == \A t \in Thread : (t \in Freed) ~> (at[t] = Outside)
=============================================================================
