----------------------------- MODULE Structures -----------------------------
(***************************************************************************)
(* The two containers of the library beside each other: the heap and the   *)
(* disjoint sets.  They share no state.                                    *)
(***************************************************************************)
EXTENDS BinaryHeap

CONSTANT Sizes   \* the sizes that a disjoint_sets is given

VARIABLES p, r, sets

Disjoint == INSTANCE DisjointSets

\* The forest of disjoint_sets is a partition, and only a join changes it, two blocks at
\* a time.
ImplementsPartition == Disjoint!ImplementsPartition
=============================================================================
