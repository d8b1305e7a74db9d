------------------------------ MODULE MCSignals ------------------------------
(***************************************************************************)
(* Small instances for TLC of three ways to wait for a signal: Semaphore   *)
(* with four threads and releases of up to three credits, so that one      *)
(* release wakes some sleepers and not others; PeriodicFunction with one   *)
(* runner and three stoppers, whose calls of stop() overlap; and Event as  *)
(* Test_Event uses it, with four threads and one mutex.  They share no     *)
(* state: a behaviour is one of a single subject, and the others rest.     *)
(***************************************************************************)
EXTENDS Signals

CONSTANT Tester \* the threads of event_tester

VARIABLES subject, signalled, blocked, owner, at, fired

periodicVars == <<state, runner, stopper, running_cv, state_cv>>
eventVars == <<signalled, blocked, owner, at, fired>>

Events == INSTANCE Event WITH First <- Tester, Second <- {}, cv <- blocked

MCInit == subject \in {"semaphore", "periodic", "event"} /\ Init /\ Periodic!Init /\ Events!Init

\* A step of one subject.
OfSemaphore(A) == subject = "semaphore" /\ A /\ UNCHANGED <<subject, periodicVars, eventVars>>
OfPeriodic(A) == subject = "periodic" /\ A /\ UNCHANGED <<subject, vars, eventVars>>
OfEvent(A) == subject = "event" /\ A /\ UNCHANGED <<subject, vars, periodicVars>>

MCNext == OfSemaphore(Next) \/ OfPeriodic(Periodic!Next) \/ OfEvent(Events!Next)

\* As in FairSpec of Semaphore, of PeriodicFunction and of Event.
Fairness ==
    /\ \A t \in Thread : WF_vars(OfSemaphore(Resume(t)))
    /\ \A q \in Runner : WF_periodicVars(OfPeriodic(Periodic!Resume(q)))
    /\ \A s \in Stopper : WF_periodicVars(OfPeriodic(Periodic!Stopped(s)))
    /\ SF_eventVars(OfEvent(Events!Fire))
    /\ \A t \in Tester :
          /\ WF_eventVars(OfEvent(Events!Advance(t)))
          /\ SF_eventVars(OfEvent(Events!Lock(t)))

MCSpec == MCInit /\ [][MCNext]_<<subject, vars, periodicVars, eventVars>> /\ Fairness

\* PeriodicFunction: the stops of a runner that was reached return.
StopOfSleeperReturns == Periodic!StopOfSleeperReturns

\* Event: every thread of Test_Event passes its event and ends.
AllPass == subject = "event" => Events!AllPass
=============================================================================
