----------------------------- MODULE MCRWMutex ------------------------------
(***************************************************************************)
(* A small instance of RWMutex for TLC: four threads, enough for a reader, *)
(* an undecided thread and two writers at one time.                        *)
(***************************************************************************)
EXTENDS RWMutex
=============================================================================
