----------------------------- MODULE Rendezvous -----------------------------
(***************************************************************************)
(* What a barrier promises: threads pass in rounds of exactly Threshold,   *)
(* and of each round one thread, the last to arrive, is told so.           *)
(***************************************************************************)
EXTENDS Integers, FiniteSets

CONSTANTS Thread, Threshold

VARIABLES
    arrived,   \* the threads of the round that is filling
    released   \* the threads of complete rounds that have not returned yet

vars == <<arrived, released>>

Init == arrived = {} /\ released = {}

Arrive(t) ==
    /\ t \notin arrived \cup released
    /\ Cardinality(arrived) + 1 < Threshold
    /\ arrived' = arrived \cup {t}
    /\ UNCHANGED released

\* The last thread returns at once.
Complete(t) ==
    /\ t \notin arrived \cup released
    /\ Cardinality(arrived) + 1 = Threshold
    /\ arrived' = {}
    /\ released' = released \cup arrived

Return(t) ==
    /\ t \in released
    /\ released' = released \ {t}
    /\ UNCHANGED arrived

Next == \E t \in Thread : Arrive(t) \/ Complete(t) \/ Return(t)

Spec == Init /\ [][Next]_vars
=============================================================================
