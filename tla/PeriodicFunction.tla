-------------------------- MODULE PeriodicFunction --------------------------
(***************************************************************************)
(* zi::periodic_function_adapter (concurrency/periodic_function.hpp): a    *)
(* runner thread in run() calls f_ over and over, sleeping between the     *)
(* calls, until f_ returns false or another thread calls stop().           *)
(*                                                                         *)
(* mutex_ is free while f_ runs and between the blocks of run(); one       *)
(* action is one of these blocks, or a part of stop() up to a wait.        *)
(***************************************************************************)
EXTENDS FiniteSets

CONSTANTS
    Runner,    \* threads that call run(); the same object may be run again
    Stopper,   \* threads that call stop()
    Spurious   \* do condition variables wake threads unnotified

VARIABLES
    state,       \* state_
    runner,      \* where each runner is in run()
    stopper,     \* "out" or "stopping", inside the loop of stop()
    running_cv,  \* runners blocked in running_cv_
    state_cv     \* stoppers blocked in state_cv_

vars == <<state, runner, stopper, running_cv, state_cv>>

State == {"IDLE", "RUNNING", "SLEEPING", "STOPPING"}

Phase == {"out",
          "due",       \* at the head of the loop
          "calling",   \* in f_
          "sleeping",  \* in running_cv_.timed_wait
          "ending"}    \* past the loop

Init ==
    /\ state = "IDLE"
    /\ runner = [r \in Runner |-> "out"]
    /\ stopper = [s \in Stopper |-> "out"]
    /\ running_cv = {} /\ state_cv = {}

-----------------------------------------------------------------------------
(* run()                                                                   *)

Move(r, phase) == runner' = [runner EXCEPT ![r] = phase]

\* run() on an object that is not idle returns at once.
Enter(r) ==
    /\ runner[r] = "out"
    /\ state = "IDLE"
    /\ Move(r, "due")
    /\ UNCHANGED <<state, stopper, running_cv, state_cv>>

Begin(r) ==
    /\ runner[r] = "due"
    /\ state' = "RUNNING"
    /\ Move(r, "calling")
    /\ UNCHANGED <<stopper, running_cv, state_cv>>

\* f_ returned ok.
Called(r, ok) ==
    /\ runner[r] = "calling"
    /\ IF ok /\ state = "RUNNING"
         THEN /\ state' = "SLEEPING"
              /\ running_cv' = running_cv \cup {r}
              /\ Move(r, "sleeping")
         ELSE /\ Move(r, IF ok THEN "due" ELSE "ending")
              /\ UNCHANGED <<state, running_cv>>
    /\ UNCHANGED <<stopper, state_cv>>

\* timed_wait returns false after msecs_timeout_, and the loop goes on.
TimeOut(r) ==
    /\ r \in running_cv
    /\ running_cv' = running_cv \ {r}
    /\ Move(r, "due")
    /\ UNCHANGED <<state, stopper, state_cv>>

\* timed_wait returned true, or f_ returned false.
Finished(r) ==
    \/ runner[r] = "ending"
    \/ runner[r] = "sleeping" /\ r \notin running_cv

NotifyAllStoppers_One == \/ state_cv = {} /\ UNCHANGED state_cv
                         \/ \E s \in state_cv : state_cv' = state_cv \ {s}
NotifyAllStoppers == state_cv' = {}

\* Mutant: only a stopped object becomes idle again.
EndState_Stopped == IF state = "STOPPING" THEN "IDLE" ELSE state
EndState == "IDLE"

End(r) ==
    /\ Finished(r)
    /\ state' = EndState
    /\ IF state = "STOPPING" THEN NotifyAllStoppers ELSE UNCHANGED state_cv
    /\ Move(r, "out")
    /\ UNCHANGED <<stopper, running_cv>>

-----------------------------------------------------------------------------
(* stop()                                                                  *)

NotifyOneRunner == \/ running_cv = {} /\ UNCHANGED running_cv
                   \/ \E r \in running_cv : running_cv' = running_cv \ {r}

\* stop() of an idle object returns at once.
Stop(s) ==
    /\ stopper[s] = "out"
    /\ state # "IDLE"
    /\ state' = "STOPPING"
    /\ IF state = "SLEEPING" THEN NotifyOneRunner ELSE UNCHANGED running_cv
    /\ stopper' = [stopper EXCEPT ![s] = "stopping"]
    /\ state_cv' = state_cv \cup {s}
    /\ UNCHANGED runner

\* A woken stopper looks at state_.  Mutant: it does not.
IsIdle_Assumed == TRUE
IsIdle         == state = "IDLE"

Stopped(s) ==
    /\ stopper[s] = "stopping" /\ s \notin state_cv
    /\ IF IsIdle
         THEN stopper' = [stopper EXCEPT ![s] = "out"] /\ UNCHANGED state_cv
         ELSE state_cv' = state_cv \cup {s} /\ UNCHANGED stopper
    /\ UNCHANGED <<state, runner, running_cv>>

\* POSIX allows a wait to return without a notification.
Wake ==
    /\ Spurious
    /\ \/ \E r \in running_cv : running_cv' = running_cv \ {r} /\ UNCHANGED state_cv
       \/ \E s \in state_cv : state_cv' = state_cv \ {s} /\ UNCHANGED running_cv
    /\ UNCHANGED <<state, runner, stopper>>

-----------------------------------------------------------------------------

Resume(r) ==
    \/ Begin(r)
    \/ \E ok \in BOOLEAN : Called(r, ok)
    \/ TimeOut(r)
    \/ End(r)

Next ==
    \/ \E r \in Runner : Enter(r) \/ Resume(r)
    \/ \E s \in Stopper : Stop(s) \/ Stopped(s)
    \/ Wake

Spec == Init /\ [][Next]_vars

\* Threads run, f_ returns and timeouts come; nobody has to call run() or stop().
FairSpec ==
    /\ Spec
    /\ \A r \in Runner : WF_vars(Resume(r))
    /\ \A s \in Stopper : WF_vars(Stopped(s))

-----------------------------------------------------------------------------
(* Properties, of one runner.                                              *)

TypeOK ==
    /\ state \in State
    /\ runner \in [Runner -> Phase]
    /\ stopper \in [Stopper -> {"out", "stopping"}]
    /\ running_cv \subseteq {r \in Runner : runner[r] = "sleeping"}
    /\ state_cv \subseteq {s \in Stopper : stopper[s] = "stopping"}

\* state_ is what stop() decides by: a runner past its first Begin is never taken
\* for an idle one, and one in f_ never for a sleeping one.  (A runner that has
\* passed the test of run() but not set RUNNING yet is: such a stop is lost.)
StateTells ==
    \A r \in Runner :
        /\ runner[r] = "calling" => state \in {"RUNNING", "STOPPING"}
        /\ runner[r] = "sleeping" => state \in {"SLEEPING", "STOPPING"}
        /\ runner[r] = "ending" => state # "IDLE"
        /\ runner[r] = "out" => state = "IDLE"

\* When a stop() that had to wait returns, f_ is not running and the runner has left its
\* loop, spurious wake-ups notwithstanding; and a stop that finds the runner asleep is
\* never undone: the runner ends its run() without calling f_ again.
QuietAfterStop ==
    [][/\ \A s \in Stopper : stopper[s] = "stopping" /\ stopper'[s] = "out" =>
             \A r \in Runner : runner[r] \in {"out", "due"}
       /\ \A r \in Runner : runner[r] = "sleeping" /\ state = "STOPPING" =>
             \/ runner'[r] = "sleeping" /\ state' = "STOPPING"
             \/ runner'[r] = "out" /\ state' = "IDLE"]_vars

\* All stoppers that wait for a runner that was reached return when it ends, unless
\* run() is called again before they look.
StopOfSleeperReturns ==
    \A s \in Stopper :
        (stopper[s] = "stopping" /\ \E r \in Runner : Finished(r) /\ state = "STOPPING")
            ~> (stopper[s] = "out" \/ \E r \in Runner : runner[r] \in {"due", "calling"})

-----------------------------------------------------------------------------

\* stop() returns: the test Global_Periodic_Function_Stop goes on after it.
StopReturns ==
    \A s \in Stopper : (stopper[s] = "stopping") ~> (stopper[s] = "out")
=============================================================================
