------------------------------ MODULE Signals -------------------------------
(***************************************************************************)
(* Two objects whose users sleep until another thread tells them to go on, *)
(* beside each other: the semaphore and the periodic function.  They share *)
(* no state.                                                               *)
(***************************************************************************)
EXTENDS Semaphore

CONSTANTS Runner, Stopper   \* the threads of the periodic function

VARIABLES state, runner, stopper, running_cv, state_cv

Periodic == INSTANCE PeriodicFunction

\* state_, by which stop() decides whom to notify, tells where the runner is.
StateTells == Periodic!StateTells

\* f_ is quiet when a stop() that had to wait returns, and no stop of a sleeping runner
\* is undone.
QuietAfterStop == Periodic!QuietAfterStop
=============================================================================
