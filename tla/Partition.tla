------------------------------ MODULE Partition ------------------------------
(***************************************************************************)
(* What disjoint_sets promises: a partition of the numbers below its size, *)
(* in which two blocks are made one, and which starts again with blocks of *)
(* one.                                                                    *)
(***************************************************************************)
EXTENDS Integers, FiniteSets

VARIABLE blocks

AllApart == blocks = {{i} : i \in 0..Cardinality(UNION blocks) - 1}

Unite == \E a, b \in blocks : a # b /\ blocks' = (blocks \ {a, b}) \cup {a \cup b}

Spec == AllApart /\ [][Unite \/ AllApart']_blocks
=============================================================================
