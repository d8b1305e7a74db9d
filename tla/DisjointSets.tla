---------------------------- MODULE DisjointSets ----------------------------
(***************************************************************************)
(* zi::disjoint_sets (src/zi/disjoint_sets/disjoint_sets.hpp): a forest    *)
(* with union by rank.  find_set points the element asked for, and no      *)
(* other on its path, to its root.  Its callers in src/zi/watershed join   *)
(* what find_set returned.                                                 *)
(***************************************************************************)
EXTENDS Integers, FiniteSets

CONSTANT Sizes \* the sizes it is given

VARIABLES
    p,   \* p_, whose domain is 0..size_ - 1
    r,   \* r_
    sets \* sets_

vars == <<p, r, sets>>

Ids == DOMAIN p
IsRoot(i) == p[i] = i

root[id \in Ids] == IF IsRoot(id) THEN id ELSE root[p[id]]

-----------------------------------------------------------------------------

Fresh(s) ==
    /\ p' = [i \in 0..s - 1 |-> i]
    /\ r' = [i \in 0..s - 1 |-> 0]
    /\ sets' = s

Init == \E s \in Sizes :
    /\ p = [i \in 0..s - 1 |-> i]
    /\ r = [i \in 0..s - 1 |-> 0]
    /\ sets = s

FindSet(id) ==
    /\ p' = [p EXCEPT ![id] = root[id]]
    /\ UNCHANGED <<r, sets>>

\* The ranks after y has come under x.
Ranked(x, y) == IF r[x] = r[y] THEN [r EXCEPT ![x] = @ + 1] ELSE r

\* Mutant: the loop stops one short.
Cleared_Short == [i \in Ids |-> IF i = Cardinality(Ids) - 1 THEN p[i] ELSE i]
Cleared       == [i \in Ids |-> i]

Join(x, y) ==
    /\ x # y
    /\ sets' = sets - 1
    /\ \/ /\ r[x] >= r[y]
          /\ p' = [p EXCEPT ![y] = x]
          /\ r' = Ranked(x, y)
       \/ /\ r[x] < r[y]
          /\ p' = [p EXCEPT ![x] = y]
          /\ UNCHANGED r

Clear ==
    /\ p' = Cleared
    /\ r' = [i \in Ids |-> 0]
    /\ sets' = Cardinality(Ids)

Resize(s) == IF s = Cardinality(Ids) THEN Clear ELSE Fresh(s)

Next ==
    \/ \E id \in Ids : FindSet(id)
    \/ \E x, y \in {i \in Ids : IsRoot(i)} : Join(x, y)
    \/ Clear
    \/ \E s \in Sizes : Resize(s)

Spec == Init /\ [][Next]_vars

-----------------------------------------------------------------------------
(* Properties.                                                             *)

Members(i) == {j \in Ids : root[j] = i}

\* find_set ends, since ranks grow towards the root also where paths have been cut short;
\* a set of rank n has at least 2^n elements, so r_ has room in eight bits; and sets_
\* counts the roots.
ForestSound ==
    /\ \A i \in Ids : ~IsRoot(i) => r[p[i]] > r[i]
    /\ \A i \in Ids : IsRoot(i) => 2^r[i] <= Cardinality(Members(i))
    /\ sets = Cardinality({i \in Ids : IsRoot(i)})

\* Joining makes one set of two, finding changes none, and clearing or resizing parts
\* all elements; and every call leaves the forest sound.
AsPartition == INSTANCE Partition WITH blocks <- {Members(i) : i \in {j \in Ids : IsRoot(j)}}
ImplementsPartition == AsPartition!Spec /\ [][ForestSound']_vars
=============================================================================
