------------------------- MODULE MCPeriodicFunction -------------------------
(***************************************************************************)
(* Small instances of PeriodicFunction for TLC: one runner, and one        *)
(* stopper or three whose calls of stop() overlap.                         *)
(***************************************************************************)
EXTENDS PeriodicFunction
=============================================================================
