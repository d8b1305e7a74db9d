------------------------------ MODULE Regions ------------------------------
(***************************************************************************)
(* What the watershed modules share: regions joined by weighted edges      *)
(* <<a, b, value>>, the sets that find_set and join keep, and the          *)
(* reference definitions that their results are compared with.             *)
(***************************************************************************)
EXTENDS Integers, FiniteSets

\* A disjoint_sets seen from outside (see DisjointSets): find_set(i) is rep[i], and join
\* of two roots makes either of them the root of all their elements.
Apart(ids) == [i \in ids |-> i]
Joined(rep, v1, v2, vr) == [i \in DOMAIN rep |-> IF rep[i] \in {v1, v2} THEN vr ELSE rep[i]]

\* The edges that may come next out of a queue ordered by value, the largest first.
Foremost(edges) == {e \in edges : \A f \in edges : f[3] <= e[3]}

\* The sum of the sizes of some regions, as the number of their voxels.
Voxels(ids, size) == UNION {{i} \X (1..size[i]) : i \in ids}
Total(ids, size) == Cardinality(Voxels(ids, size))

\* The part of the regions ids that edges make of the one with i: it is in every set with
\* i that no edge leaves or enters.
Closed(S, edges) == \A e \in edges : e[1] \in S <=> e[2] \in S
Part(ids, edges, i) == {j \in ids : \A S \in SUBSET ids : i \in S /\ Closed(S, edges) => j \in S}
Parts(ids, edges) == {Part(ids, edges, i) : i \in ids}

AtLeast(edges, value) == {e \in edges : e[3] >= value}

\* forest has no cycle and joins, at every value, what edges joins.
Spans(forest, edges, ids) ==
    /\ \A value \in {e[3] : e \in edges} :
          Parts(ids, AtLeast(forest, value)) = Parts(ids, AtLeast(edges, value))
    /\ Cardinality(forest) + Cardinality(Parts(ids, forest)) = Cardinality(ids)
=============================================================================
