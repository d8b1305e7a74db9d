------------------------------ MODULE MCEvent -------------------------------
(***************************************************************************)
(* A small instance of Event for TLC: Test_TwoEvents with two threads on   *)
(* each side.  Test_Event is checked with the semaphore, in MCSignals.     *)
(***************************************************************************)
EXTENDS Event
=============================================================================
