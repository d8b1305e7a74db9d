----------------------------- MODULE MCThreads ------------------------------
(***************************************************************************)
(* A small instance of Threads for TLC: two threads that are started,      *)
(* sleep, and end, and two others that wait for them.                      *)
(***************************************************************************)
EXTENDS Threads
=============================================================================
