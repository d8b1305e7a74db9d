--------------------------- MODULE MCTaskManager ---------------------------
(***************************************************************************)
(* Small instances of TaskManager for TLC.  Worker threads, managing       *)
(* threads and tasks are interchangeable: no definition orders them, so    *)
(* their permutations are a symmetry of the run with two managing threads, *)
(* which has no liveness property.  The run with one has, and uses none.   *)
(***************************************************************************)
EXTENDS TaskManager, TLC

Symmetry ==
    Permutations(Worker) \cup Permutations(Manager) \cup Permutations(Task)
=============================================================================
