----------------------------- MODULE MCBarrier ------------------------------
(***************************************************************************)
(* A small instance of Barrier for TLC: five threads in rounds of three,   *)
(* so that later rounds begin and end while slow threads of earlier ones   *)
(* are still inside wait().                                                *)
(***************************************************************************)
EXTENDS Barrier
=============================================================================
