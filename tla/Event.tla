------------------------------- MODULE Event -------------------------------
(***************************************************************************)
(* zi::event (concurrency/pthread/event.hpp) as its tests use it           *)
(* (concurrency/test/event_test.cpp): every thread locks a mutex, waits    *)
(* for an event, and passes it on by clear and signal before it unlocks.   *)
(*                                                                         *)
(* event has no mutex of its own: wait takes the caller's, signal and      *)
(* clear take none.  So the test of signalled_, the block, clear and the   *)
(* two halves of signal are separate steps, each of which other threads    *)
(* may separate unless they hold the same mutex.                           *)
(***************************************************************************)
EXTENDS Integers

CONSTANTS
    First,     \* threads of event_tester, or event1_tester
    Second,    \* threads of event2_tester, or none
    Spurious   \* do condition variables wake threads unnotified

Testers == First \cup Second
Main    == "main"   \* the test itself, that signals the first event
Event   == {1, 2}

\* m1, which guards e1, and m2, which guards e2; or m and e.
Group(t)   == IF t \in Second THEN 2 ELSE 1
Signals(t) == IF Second = {} \/ t \in Second THEN 1 ELSE 2

VARIABLES
    signalled,  \* signalled_ of each event
    cv,         \* threads blocked in its cv_
    owner,      \* the owner of each mutex, "free" if it has none
    at,         \* where each thread is
    fired       \* has the test signalled

vars == <<signalled, cv, owner, at, fired>>

Place == {"start", "testing", "blocking", "waiting", "clearing", "setting",
          "notifying", "unlocking", "done"}

Init ==
    /\ signalled = [e \in Event |-> FALSE]
    /\ cv = [e \in Event |-> {}]
    /\ owner = [e \in Event |-> "free"]
    /\ at = [t \in Testers |-> "start"]
    /\ fired = FALSE

Go(t, from, to) == at[t] = from /\ at' = [at EXCEPT ![t] = to]

-----------------------------------------------------------------------------
(* wait                                                                    *)

Asleep(t) == t \in cv[Group(t)]

\* The mutex is acquired at first, and again after every wait.
Lock(t) ==
    /\ at[t] \in {"start", "waiting"}
    /\ ~Asleep(t)
    /\ owner[Group(t)] = "free"
    /\ owner' = [owner EXCEPT ![Group(t)] = t]
    /\ at' = [at EXCEPT ![t] = "testing"]
    /\ UNCHANGED <<signalled, cv, fired>>

Test(t) ==
    /\ Go(t, "testing", IF signalled[Group(t)] THEN "clearing" ELSE "blocking")
    /\ UNCHANGED <<signalled, cv, owner, fired>>

\* pthread_cond_wait blocks and releases the mutex at once.
Block(t) ==
    /\ Go(t, "blocking", "waiting")
    /\ cv' = [cv EXCEPT ![Group(t)] = @ \cup {t}]
    /\ owner' = [owner EXCEPT ![Group(t)] = "free"]
    /\ UNCHANGED <<signalled, fired>>

-----------------------------------------------------------------------------
(* clear and signal, and the end of the critical section                   *)

Clear(t) ==
    /\ Go(t, "clearing", "setting")
    /\ signalled' = [signalled EXCEPT ![Signals(t)] = FALSE]
    /\ UNCHANGED <<cv, owner, fired>>

Set(t) ==
    /\ Go(t, "setting", "notifying")
    /\ signalled' = [signalled EXCEPT ![Signals(t)] = TRUE]
    /\ UNCHANGED <<cv, owner, fired>>

NotifyOne_None(e) == UNCHANGED cv
NotifyOne(e) ==
    \/ cv[e] = {} /\ UNCHANGED cv
    \/ \E t \in cv[e] : cv' = [cv EXCEPT ![e] = @ \ {t}]

Notify(t) ==
    /\ Go(t, "notifying", "unlocking")
    /\ NotifyOne(Signals(t))
    /\ UNCHANGED <<signalled, owner, fired>>

Unlock(t) ==
    /\ Go(t, "unlocking", "done")
    /\ owner' = [owner EXCEPT ![Group(t)] = "free"]
    /\ UNCHANGED <<signalled, cv, fired>>

\* The test signals under the mutex of the first event, whose threads are the only
\* ones to see it; under that mutex the two halves of signal are one step for them.
Fire ==
    /\ ~fired
    /\ owner[1] = "free"
    /\ fired' = TRUE
    /\ signalled' = [signalled EXCEPT ![1] = TRUE]
    /\ NotifyOne(1)
    /\ UNCHANGED <<owner, at>>

\* POSIX allows a wait to return without a notification.
Wake(t) ==
    /\ Spurious
    /\ Asleep(t)
    /\ cv' = [cv EXCEPT ![Group(t)] = @ \ {t}]
    /\ UNCHANGED <<signalled, owner, at, fired>>

Advance(t) ==
    Lock(t) \/ Test(t) \/ Block(t) \/ Clear(t) \/ Set(t) \/ Notify(t) \/ Unlock(t)

Next == Fire \/ \E t \in Testers : Advance(t) \/ Wake(t)

Spec == Init /\ [][Next]_vars

\* Threads run, and whoever waits for a mutex gets it.
FairSpec ==
    /\ Spec /\ SF_vars(Fire)
    /\ \A t \in Testers : WF_vars(Advance(t)) /\ SF_vars(Lock(t))

-----------------------------------------------------------------------------
(* Properties.                                                             *)

TypeOK ==
    /\ signalled \in [Event -> BOOLEAN]
    /\ at \in [Testers -> Place]
    /\ owner \in [Event -> Testers \cup {"free"}]
    /\ cv \in [Event -> SUBSET {t \in Testers : at[t] = "waiting"}]
    /\ fired \in BOOLEAN

\* EXPECT_EQ( x, 20 ), and EXPECT_EQ( x1, 10 ) and EXPECT_EQ( x2, 10 ): every thread
\* passes its event and ends.
AllPass == <>(\A t \in Testers : at[t] = "done")
=============================================================================
