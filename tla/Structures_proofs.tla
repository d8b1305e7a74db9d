-------------------------- MODULE Structures_proofs --------------------------
(***************************************************************************)
(* Theorems about the two containers of Structures, whatever they hold:    *)
(* disjoint_sets is a partition in a sound forest, binary_heap a priority  *)
(* queue whose arrays agree.                                               *)
(***************************************************************************)
EXTENDS Structures, FiniteSetTheorems, WellFoundedInduction, TLAPS

-----------------------------------------------------------------------------
(* Loops.  q is the step of a loop and leaves alone where it ends; f takes *)
(* every start to its end.  Parents in a forest are such steps too.        *)

\* No set is closed under q that has none of its ends.  Of this form is every induction
\* below: what q does not lead out of is empty.
Acyclic(q) ==
    \A S \in SUBSET DOMAIN q : (\A i \in S : q[i] # i /\ q[i] \in S) => S = {}

Leads(f, q) == f = [i \in DOMAIN q |-> IF q[i] = i THEN i ELSE f[q[i]]]

LEMMA LeastNumber ==
    ASSUME NEW M \in SUBSET Nat, M # {}
    PROVE  \E k \in M : \A j \in M : k <= j
<1>1. PICK b \in M : TRUE
  OBVIOUS
<1> DEFINE S == 0..b
           T == {0..k : k \in M \cap S}
<1>2. IsWellFoundedOn(StrictSubsetOrdering(S), SUBSET S)
  <2>1. IsFiniteSet(S)
    BY FS_Interval
  <2>2. FiniteSubsetsOf(S) = SUBSET S
    BY <2>1, FS_FiniteSubsetsOfFinite
  <2>3. QED BY <2>2, FS_StrictSubsetOrderingWellFounded
<1>3. T \in SUBSET SUBSET S /\ T # {}
  BY <1>1
<1>4. \E X \in T : \A Y \in T : <<Y, X>> \notin StrictSubsetOrdering(S)
  BY <1>2, <1>3, WFMin
<1>5. PICK k \in M \cap S : \A Y \in T : <<Y, 0..k>> \notin StrictSubsetOrdering(S)
  BY <1>4
<1>6. ASSUME NEW j \in M, j < k PROVE FALSE
  <2>1. 0..j \in T /\ 0..j \subseteq 0..k /\ 0..j # 0..k
    BY <1>6
  <2>2. <<0..j, 0..k>> \in StrictSubsetOrdering(S)
    BY <1>3, <1>5, <2>1 DEF StrictSubsetOrdering
  <2>3. QED BY <1>5, <2>1, <2>2
<1>7. QED BY <1>6

\* A loop that makes a number smaller with every step ends.
LEMMA MeasureEnds ==
    ASSUME NEW D, NEW q \in [D -> D], NEW m \in [D -> Nat],
           \A x \in D : q[x] # x => m[q[x]] < m[x]
    PROVE  Acyclic(q)
<1> SUFFICES ASSUME NEW S \in SUBSET D, \A x \in S : q[x] # x /\ q[x] \in S, S # {}
             PROVE  FALSE
  BY DEF Acyclic
<1> DEFINE M == {m[x] : x \in S}
<1>1. M \in SUBSET Nat /\ M # {}
  OBVIOUS
<1>2. PICK x \in S : \A y \in S : m[x] <= m[y]
  <2>1. PICK k \in M : \A j \in M : k <= j
    BY <1>1, LeastNumber
  <2>2. QED BY <2>1
<1>3. m[q[x]] < m[x] /\ q[x] \in S /\ m[x] \in Nat /\ m[q[x]] \in Nat
  OBVIOUS
<1>4. QED BY <1>2, <1>3

\* There is one way to lead every element to its root.
LEMMA OneRoot ==
    ASSUME NEW D, NEW q \in [D -> D], Acyclic(q), NEW f, NEW g, Leads(f, q), Leads(g, q)
    PROVE  f = g
<1> DEFINE S == {i \in D : f[i] # g[i]}
<1>1. f = [i \in D |-> IF q[i] = i THEN i ELSE f[q[i]]]
  BY DEF Leads
<1>2. g = [i \in D |-> IF q[i] = i THEN i ELSE g[q[i]]]
  BY DEF Leads
<1>3. ASSUME NEW i \in S PROVE q[i] # i /\ q[i] \in S
  <2>1. f[i] = (IF q[i] = i THEN i ELSE f[q[i]]) /\ g[i] = (IF q[i] = i THEN i ELSE g[q[i]])
    BY <1>1, <1>2
  <2>2. QED BY <2>1
<1>4. S \in SUBSET DOMAIN q
  OBVIOUS
<1>5. S = {}
  BY <1>3, <1>4 DEF Acyclic
<1>6. \A i \in D : f[i] = g[i]
  BY <1>5
<1>7. QED BY <1>1, <1>2, <1>6

LEMMA LeadsAt ==
    ASSUME NEW D, NEW q \in [D -> D], NEW f, Leads(f, q), NEW i \in D
    PROVE  f[i] = IF q[i] = i THEN i ELSE f[q[i]]
<1>1. f = [j \in D |-> IF q[j] = j THEN j ELSE f[q[j]]]
  BY DEF Leads
<1>2. QED BY <1>1

\* It is a root that it leads to.
LEMMA LeadsToRoot ==
    ASSUME NEW D, NEW q \in [D -> D], Acyclic(q), NEW f, Leads(f, q)
    PROVE  \A i \in D : f[i] \in D /\ q[f[i]] = f[i]
<1> DEFINE S == {i \in D : ~(f[i] \in D /\ q[f[i]] = f[i])}
<1>1. ASSUME NEW i \in S PROVE q[i] # i /\ q[i] \in S
  BY LeadsAt
<1>2. S \in SUBSET DOMAIN q
  OBVIOUS
<1>3. S = {}
  BY <1>1, <1>2 DEF Acyclic
<1>4. QED BY <1>3

\* What the loop may reach from x.
Reach(q, x) == {y \in DOMAIN q :
    \A S \in SUBSET DOMAIN q : (x \in S /\ \A z \in S : q[z] \in S) => y \in S}

LEMMA ReachStep ==
    ASSUME NEW D, NEW q \in [D -> D], NEW x \in D
    PROVE  Reach(q, x) = {x} \cup Reach(q, q[x])
<1>1. ASSUME NEW y \in Reach(q, x) PROVE y \in {x} \cup Reach(q, q[x])
  <2> SUFFICES ASSUME NEW S \in SUBSET D, q[x] \in S, \A z \in S : q[z] \in S, y # x
               PROVE  y \in S
    BY <1>1 DEF Reach
  <2>1. /\ S \cup {x} \in SUBSET DOMAIN q /\ x \in S \cup {x}
        /\ \A z \in S \cup {x} : q[z] \in S \cup {x}
    OBVIOUS
  <2>2. y \in S \cup {x}
    BY <2>1, <1>1 DEF Reach
  <2>3. QED BY <2>2
<1>2. x \in Reach(q, x)
  BY DEF Reach
<1>3. Reach(q, q[x]) \subseteq Reach(q, x)
  BY DEF Reach
<1>4. QED BY <1>1, <1>2, <1>3

\* From everywhere the loop reaches one end.
LEMMA OneEnd ==
    ASSUME NEW D, NEW q \in [D -> D], Acyclic(q)
    PROVE  \A x \in D : \E y \in Reach(q, x) :
              /\ q[y] = y
              /\ \A z \in Reach(q, x) : q[z] = z => z = y
<1> DEFINE Good(x) == \E y \in Reach(q, x) :
              /\ q[y] = y
              /\ \A z \in Reach(q, x) : q[z] = z => z = y
           S == {x \in D : ~Good(x)}
<1>1. ASSUME NEW x \in S PROVE q[x] # x /\ q[x] \in S
  <2>1. q[x] # x
    <3>1. SUFFICES ASSUME q[x] = x PROVE FALSE
      OBVIOUS
    <3>2. {x} \in SUBSET DOMAIN q /\ x \in {x} /\ \A z \in {x} : q[z] \in {x}
      BY <3>1
    <3>3. \A z \in Reach(q, x) : z = x
      BY <3>2 DEF Reach
    <3>4. x \in Reach(q, x)
      BY DEF Reach
    <3>5. QED BY <3>1, <3>3, <3>4
  <2>2. Reach(q, x) = {x} \cup Reach(q, q[x])
    BY ReachStep
  <2>3. Good(q[x]) => Good(x)
    BY <2>1, <2>2
  <2>4. QED BY <2>1, <2>3
<1>2. S \in SUBSET DOMAIN q
  OBVIOUS
<1>3. S = {}
  BY <1>1, <1>2 DEF Acyclic
<1>4. QED BY <1>3

LEMMA EndExists ==
    ASSUME NEW D, NEW q \in [D -> D], Acyclic(q)
    PROVE  \E f : Leads(f, q)
<1> DEFINE E(x, y) == y \in Reach(q, x) /\ q[y] = y
           f == [x \in D |-> CHOOSE y : E(x, y)]
<1>1. \A x \in D : E(x, f[x])
  <2> SUFFICES ASSUME NEW x \in D PROVE E(x, CHOOSE y : E(x, y))
    OBVIOUS
  <2>1. \E y : E(x, y)
    BY OneEnd
  <2>2. QED BY <2>1
<1>2. ASSUME NEW x \in D PROVE f[x] = IF q[x] = x THEN x ELSE f[q[x]]
  <2>1. \A y, z : E(x, y) /\ E(x, z) => y = z
    BY OneEnd
  <2>2. Reach(q, x) = {x} \cup Reach(q, q[x])
    BY ReachStep
  <2>3. E(x, f[x]) /\ (q[x] = x => E(x, x)) /\ E(x, f[q[x]])
    BY <1>1, <2>2
  <2> HIDE DEF f, E
  <2>4. QED BY <2>1, <2>3
<1> HIDE DEF f
<1>3. f = [x \in DOMAIN q |-> IF q[x] = x THEN x ELSE f[q[x]]]
  BY <1>2 DEF f
<1>4. QED BY <1>3 DEF Leads

\* What holds at the start and is kept by every step holds at the end.
LEMMA LoopKeeps ==
    ASSUME NEW D, NEW q \in [D -> D], Acyclic(q), NEW f, Leads(f, q),
           NEW J \in SUBSET D, \A x \in J : q[x] \in J
    PROVE  \A x \in J : f[x] \in J /\ q[f[x]] = f[x]
<1> DEFINE S == {x \in J : f[x] \notin J}
<1>1. ASSUME NEW x \in S PROVE q[x] # x /\ q[x] \in S
  BY LeadsAt
<1>2. S \in SUBSET DOMAIN q
  OBVIOUS
<1>3. S = {}
  BY <1>1, <1>2 DEF Acyclic
<1>4. QED BY <1>3, LeadsToRoot

LEMMA LoopedLeads ==
    ASSUME NEW D, NEW q \in [D -> D], Acyclic(q)
    PROVE  Leads(Looped(q), q)
<1>1. \E f : Leads(f, q)
  BY EndExists
<1>2. QED BY <1>1 DEF Leads, Looped

-----------------------------------------------------------------------------
(* Forests.                                                                *)

\* find_set, and join: the forest, its roots and its ranks.
CutShort(q, f, i)      == [q EXCEPT ![i] = f[i]]
Under(q, x, y)    == [q EXCEPT ![y] = x]
Taken(f, D, x, y) == [i \in D |-> IF f[i] = y THEN x ELSE f[i]]
Raised(k, x, y)   == IF k[x] = k[y] THEN [k EXCEPT ![x] = @ + 1] ELSE k

\* A rank that grows with every step has grown at the root.
LEMMA GrowsToRoot ==
    ASSUME NEW D, NEW q \in [D -> D], Acyclic(q), NEW f, Leads(f, q), NEW k \in [D -> Nat],
           \A i \in D : q[i] # i => k[q[i]] > k[i]
    PROVE  \A i \in D : q[i] # i => k[f[i]] > k[i]
<1> DEFINE S == {i \in D : q[i] # i /\ ~(k[f[i]] > k[i])}
<1>1. ASSUME NEW i \in S PROVE q[i] # i /\ q[i] \in S
  <2>1. q[i] # i /\ q[i] \in D /\ k[q[i]] > k[i] /\ f[i] = f[q[i]] /\ ~(k[f[i]] > k[i])
    BY LeadsAt
  <2>2. q[q[i]] # q[i]
    BY <2>1, LeadsAt
  <2>3. f[i] \in D
    BY LeadsToRoot
  <2>4. k[i] \in Nat /\ k[q[i]] \in Nat /\ k[f[i]] \in Nat
    BY <2>1, <2>3
  <2>5. ~(k[f[q[i]]] > k[q[i]])
    BY <2>1, <2>4
  <2>6. QED BY <2>1, <2>2, <2>5
<1>2. S \in SUBSET DOMAIN q
  OBVIOUS
<1>3. S = {}
  BY <1>1, <1>2 DEF Acyclic
<1>4. QED BY <1>3

\* Elements on their own are a forest.
LEMMA ApartForest ==
    ASSUME NEW D, NEW q, q = [i \in D |-> i]
    PROVE  q \in [D -> D] /\ Acyclic(q) /\ Leads(q, q)
BY DEF Acyclic, Leads

\* Cutting a path short moves no root.
LEMMA CutForest ==
    ASSUME NEW D, NEW q \in [D -> D], Acyclic(q), NEW f, Leads(f, q), NEW i \in D,
           NEW c, c = CutShort(q, f, i)
    PROVE  c \in [D -> D] /\ Acyclic(c) /\ Leads(f, c) /\ \A j \in D : c[j] = j <=> q[j] = j
<1> USE DEF CutShort
<1>1. f[i] \in D /\ q[f[i]] = f[i]
  BY LeadsToRoot
<1>2. c \in [D -> D] /\ c[i] = f[i] /\ \A j \in D : j # i => c[j] = q[j]
  BY <1>1
<1>3. \A j \in D : c[j] = j <=> q[j] = j
  BY <1>1, <1>2, LeadsAt
<1>4. Acyclic(c)
  <2> SUFFICES ASSUME NEW S \in SUBSET D, \A j \in S : c[j] # j /\ c[j] \in S PROVE S = {}
    BY <1>2 DEF Acyclic
  <2>1. i \notin S
    BY <1>1, <1>2, <1>3
  <2>2. \A j \in S : q[j] # j /\ q[j] \in S
    BY <2>1, <1>2
  <2>3. QED BY <2>2 DEF Acyclic
<1>5. Leads(f, c)
  <2>1. f = [j \in D |-> IF q[j] = j THEN j ELSE f[q[j]]]
    BY DEF Leads
  <2>2. ASSUME NEW j \in D
        PROVE  (IF c[j] = j THEN j ELSE f[c[j]]) = (IF q[j] = j THEN j ELSE f[q[j]])
    <3>1. CASE j # i
      BY <3>1, <1>2
    <3>2. CASE j = i
      <4>1. f[f[i]] = f[i]
        BY <1>1, LeadsAt
      <4>2. f[i] = IF q[i] = i THEN i ELSE f[q[i]]
        BY LeadsAt
      <4>3. QED BY <3>2, <4>1, <4>2, <1>2, <1>3
    <3>3. QED BY <3>1, <3>2
  <2>3. [j \in D |-> IF c[j] = j THEN j ELSE f[c[j]]]
          = [j \in D |-> IF q[j] = j THEN j ELSE f[q[j]]]
    BY <2>2
  <2>4. DOMAIN c = D
    BY <1>2
  <2>5. QED BY <2>1, <2>3, <2>4 DEF Leads
<1>6. QED BY <1>2, <1>3, <1>4, <1>5

\* Putting one root under another takes its elements to the other.
LEMMA JoinForest ==
    ASSUME NEW D, NEW q \in [D -> D], Acyclic(q), NEW f, Leads(f, q),
           NEW x \in D, NEW y \in D, x # y, q[x] = x, q[y] = y,
           NEW c, c = Under(q, x, y), NEW g, g = Taken(f, D, x, y)
    PROVE  c \in [D -> D] /\ Acyclic(c) /\ Leads(g, c)
<1> USE DEF Under, Taken
<1>1. c \in [D -> D] /\ c[y] = x /\ \A j \in D : j # y => c[j] = q[j]
  OBVIOUS
<1>2. Acyclic(c)
  <2> SUFFICES ASSUME NEW S \in SUBSET D, \A j \in S : c[j] # j /\ c[j] \in S PROVE S = {}
    BY <1>1 DEF Acyclic
  <2>1. y \notin S
    BY <1>1
  <2>2. \A j \in S : q[j] # j /\ q[j] \in S
    BY <2>1, <1>1
  <2>3. QED BY <2>2 DEF Acyclic
<1>3. ASSUME NEW j \in D
      PROVE  (IF c[j] = j THEN j ELSE g[c[j]]) = (IF f[j] = y THEN x ELSE f[j])
  <2>1. f[j] = IF q[j] = j THEN j ELSE f[q[j]]
    BY LeadsAt
  <2>2. f[x] = x /\ f[y] = y
    BY LeadsAt
  <2>3. CASE j = y
    BY <2>2, <2>3, <1>1
  <2>4. CASE j # y
    BY <2>1, <2>4, <1>1
  <2>5. QED BY <2>3, <2>4
<1>4. [j \in D |-> IF c[j] = j THEN j ELSE g[c[j]]] = [j \in D |-> IF f[j] = y THEN x ELSE f[j]]
  BY <1>3
<1>5. DOMAIN c = D
  BY <1>1
<1>6. QED BY <1>1, <1>2, <1>4, <1>5 DEF Leads

-----------------------------------------------------------------------------
(* Powers of two, counted as the subsets of a set.                         *)

LEMMA PowerNat == \A n \in Nat : 2^n \in Nat
<1> SUFFICES ASSUME NEW n \in Nat PROVE 2^n \in Nat
  OBVIOUS
<1>1. IsFiniteSet(1..n) /\ Cardinality(1..n) = n
  BY FS_Interval
<1>2. IsFiniteSet(SUBSET (1..n)) /\ Cardinality(SUBSET (1..n)) = 2^Cardinality(1..n)
  BY <1>1, FS_SUBSET
<1>3. QED BY <1>1, <1>2, FS_CardinalityType

LEMMA PowerNext == \A n \in Nat : 2^(n + 1) = 2^n + 2^n
<1> SUFFICES ASSUME NEW n \in Nat PROVE 2^(n + 1) = 2^n + 2^n
  OBVIOUS
<1> DEFINE S == 1..n
           T == 1..n + 1
           Old == SUBSET S
           New == {X \in SUBSET T : n + 1 \in X}
           f == [X \in Old |-> X \cup {n + 1}]
<1>1. IsFiniteSet(S) /\ Cardinality(S) = n /\ IsFiniteSet(T) /\ Cardinality(T) = n + 1
  BY FS_Interval
<1>2. IsFiniteSet(Old) /\ Cardinality(Old) = 2^n
  BY <1>1, FS_SUBSET
<1>3. IsFiniteSet(SUBSET T) /\ Cardinality(SUBSET T) = 2^(n + 1)
  BY <1>1, FS_SUBSET
<1>4. T = S \cup {n + 1} /\ n + 1 \notin S
  OBVIOUS
<1>5. f \in Bijection(Old, New)
  <2>1. f \in [Old -> New]
    BY <1>4
  <2>2. \A X, Y \in Old : f[X] = f[Y] => X = Y
    BY <1>4
  <2>3. ASSUME NEW Z \in New PROVE \E X \in Old : f[X] = Z
    <3>1. Z \ {n + 1} \in Old /\ (Z \ {n + 1}) \cup {n + 1} = Z
      BY <1>4
    <3>2. f[Z \ {n + 1}] = Z
      BY <3>1
    <3>3. QED BY <3>1, <3>2
  <2>4. QED BY <2>1, <2>2, <2>3 DEF Bijection, Injection, Surjection, IsInjective
<1>6. IsFiniteSet(New) /\ Cardinality(New) = 2^n
  BY <1>2, <1>5, FS_Bijection DEF ExistsBijection
<1>7. SUBSET T = Old \cup New /\ Old \cap New = {}
  BY <1>4
<1>8. Cardinality(Old \cup New) = 2^n + 2^n - Cardinality(Old \cap New)
  BY <1>2, <1>6, FS_Union
<1>9. Cardinality(Old \cap New) = 0
  BY <1>7, FS_EmptySet
<1>10. 2^(n + 1) = 2^n + 2^n - 0
  BY <1>3, <1>7, <1>8, <1>9
<1>11. \A a \in Nat : a + a - 0 = a + a
  OBVIOUS
<1>12. QED BY <1>10, <1>11, PowerNat

-----------------------------------------------------------------------------
(* The invariant.                                                          *)

Shape ==
    /\ \E s \in Nat : Disjoint!Ids = 0..s - 1
    /\ p \in [Disjoint!Ids -> Disjoint!Ids]
    /\ r \in [Disjoint!Ids -> Nat]
    /\ Acyclic(p)

DInv == Shape /\ Disjoint!ForestSound

LEMMA RootLeads == ASSUME Shape PROVE Leads(Disjoint!root, p)
<1>1. \E f : Leads(f, p)
  BY EndExists DEF Shape
<1>2. QED BY <1>1 DEF Leads, Disjoint!root, Disjoint!Ids, Disjoint!IsRoot

LEMMA RootIs == ASSUME Shape, NEW f, Leads(f, p) PROVE Disjoint!root = f
BY RootLeads, OneRoot DEF Shape

LEMMA RootIsNext == ASSUME Shape', NEW f, Leads(f, p') PROVE Disjoint!root' = f
<1>1. Leads(Disjoint!root', p')
  BY DEF Shape, Leads, Disjoint!root, Disjoint!Ids, Disjoint!IsRoot
<1>2. QED BY <1>1, OneRoot DEF Shape

\* ForestSound, of the forest q with ranks k whose elements f leads to their roots.
Block(q, f, i) == {j \in DOMAIN q : f[j] = i}
Sound(q, k, f, n) ==
    /\ \A i \in DOMAIN q : q[i] # i => k[q[i]] > k[i]
    /\ \A i \in DOMAIN q : q[i] = i => 2^k[i] <= Cardinality(Block(q, f, i))
    /\ n = Cardinality({i \in DOMAIN q : q[i] = i})

\* The partition that it is.
Blocks(q, f) == {Block(q, f, i) : i \in {j \in DOMAIN q : q[j] = j}}

blocks == {Disjoint!Members(i) : i \in {j \in Disjoint!Ids : Disjoint!IsRoot(j)}}

\* Cardinality as DisjointSets and Partition know it.
LEMMA SameCardinality ==
    \A S : /\ Disjoint!Cardinality(S) = Cardinality(S)
           /\ Disjoint!AsPartition!Cardinality(S) = Cardinality(S)
BY DEF Disjoint!Cardinality, Disjoint!AsPartition!Cardinality, Cardinality,
       Disjoint!AsPartition!IsFiniteSet, Disjoint!IsFiniteSet, IsFiniteSet

LEMMA SoundIs ==
    ASSUME Shape, NEW f, Leads(f, p)
    PROVE  (Disjoint!ForestSound <=> Sound(p, r, f, sets)) /\ blocks = Blocks(p, f)
<1>1. Disjoint!root = f
  BY RootIs
<1>2. QED BY <1>1, SameCardinality
          DEF Disjoint!ForestSound, Sound, Disjoint!Members, Block, blocks, Blocks,
              Disjoint!Ids, Disjoint!IsRoot

LEMMA SoundIsNext ==
    ASSUME Shape', NEW f, Leads(f, p')
    PROVE  (Disjoint!ForestSound' <=> Sound(p', r', f, sets')) /\ blocks' = Blocks(p', f)
<1>1. Disjoint!root' = f
  BY RootIsNext
<1>2. QED BY <1>1, SameCardinality
          DEF Disjoint!ForestSound, Sound, Disjoint!Members, Block, blocks, Blocks,
              Disjoint!Ids, Disjoint!IsRoot

LEMMA ApartSound ==
    ASSUME NEW s \in Nat, NEW q, q = [i \in 0..s - 1 |-> i], NEW k, k = [i \in 0..s - 1 |-> 0]
    PROVE  /\ Sound(q, k, q, s)
           /\ Blocks(q, q) = {{i} : i \in 0..s - 1}
<1> DEFINE D == 0..s - 1
<1>1. IsFiniteSet(D) /\ Cardinality(D) = s
  BY FS_Interval
<1>2. DOMAIN q = D /\ \A i \in D : q[i] = i /\ k[i] = 0
  OBVIOUS
<1>3. {i \in DOMAIN q : q[i] = i} = D
  BY <1>2
<1>4. \A i \in D : Block(q, q, i) = {i}
  BY <1>2 DEF Block
<1>5. \A i \in D : Cardinality(Block(q, q, i)) = 1
  BY <1>4, FS_Singleton
<1>6. 2^0 = 1
  OBVIOUS
<1>7. \A i \in D : 2^k[i] <= Cardinality(Block(q, q, i))
  BY <1>2, <1>5, <1>6
<1>8. Sound(q, k, q, s)
  BY <1>1, <1>2, <1>3, <1>7 DEF Sound
<1>9. QED BY <1>2, <1>3, <1>4, <1>8 DEF Blocks

LEMMA CutSound ==
    ASSUME NEW D, NEW q \in [D -> D], Acyclic(q), NEW f, Leads(f, q), NEW k \in [D -> Nat],
           NEW n, Sound(q, k, f, n), NEW i \in D, NEW c, c = CutShort(q, f, i)
    PROVE  Sound(c, k, f, n) /\ Blocks(c, f) = Blocks(q, f)
<1> USE DEF CutShort
<1>1. c \in [D -> D] /\ \A j \in D : c[j] = j <=> q[j] = j
  BY CutForest
<1>2. \A j \in D : j # i => c[j] = q[j]
  OBVIOUS
<1>3. c[i] = f[i]
  OBVIOUS
<1>4. \A j \in D : q[j] # j => k[q[j]] > k[j]
  BY DEF Sound
<1>5. \A j \in D : q[j] # j => k[f[j]] > k[j]
  BY <1>4, GrowsToRoot
<1>6. \A j \in D : c[j] # j => k[c[j]] > k[j]
  BY <1>1, <1>2, <1>3, <1>4, <1>5
<1>7. {j \in DOMAIN c : c[j] = j} = {j \in DOMAIN q : q[j] = j}
  BY <1>1
<1>8. \A j : Block(c, f, j) = Block(q, f, j)
  BY <1>1 DEF Block
<1>9. Blocks(c, f) = Blocks(q, f)
  BY <1>7, <1>8 DEF Blocks
<1>10. \A j \in D : c[j] = j => 2^k[j] <= Cardinality(Block(c, f, j))
  BY <1>1, <1>8 DEF Sound
<1>11. n = Cardinality({j \in DOMAIN c : c[j] = j})
  BY <1>7 DEF Sound
<1>12. QED BY <1>1, <1>6, <1>9, <1>10, <1>11 DEF Sound

\* What joining y to x makes of the blocks.
Joined(D, q, f, c, g, x, y) ==
    /\ {i \in D : c[i] = i} = {i \in D : q[i] = i} \ {y}
    /\ Block(c, g, x) = Block(q, f, x) \cup Block(q, f, y)
    /\ Block(q, f, x) \cap Block(q, f, y) = {}
    /\ \A i \in D \ {x, y} : Block(c, g, i) = Block(q, f, i)
    /\ Blocks(c, g) = (Blocks(q, f) \ {Block(q, f, x), Block(q, f, y)})
                          \cup {Block(q, f, x) \cup Block(q, f, y)}
    /\ Block(q, f, x) # Block(q, f, y)

LEMMA JoinBlocks ==
    ASSUME NEW D, NEW q \in [D -> D], NEW f, Leads(f, q),
           NEW x \in D, NEW y \in D, x # y, q[x] = x, q[y] = y,
           NEW c, c = Under(q, x, y), NEW g, g = Taken(f, D, x, y)
    PROVE  Joined(D, q, f, c, g, x, y)
<1> USE DEF Under, Taken
<1>1. DOMAIN c = D /\ DOMAIN q = D /\ \A i \in D : c[i] = IF i = y THEN x ELSE q[i]
  OBVIOUS
<1>2. {i \in D : c[i] = i} = {i \in D : q[i] = i} \ {y}
  BY <1>1
<1>3. Block(c, g, x) = Block(q, f, x) \cup Block(q, f, y)
  BY <1>1 DEF Block
<1>4. \A i \in D \ {x, y} : Block(c, g, i) = Block(q, f, i)
  BY <1>1 DEF Block
<1>5. \A i, j \in D : i # j => Block(q, f, i) \cap Block(q, f, j) = {}
  BY DEF Block
<1>6. \A i \in D : q[i] = i => i \in Block(q, f, i)
  BY <1>1, LeadsAt DEF Block
<1>7. \A i, j \in D : i # j /\ q[i] = i => Block(q, f, i) # Block(q, f, j)
  BY <1>5, <1>6
<1> DEFINE Others == {Block(q, f, i) : i \in {j \in D : q[j] = j} \ {x, y}}
<1>8. Blocks(q, f) = Others \cup {Block(q, f, x), Block(q, f, y)}
  BY <1>1 DEF Blocks
<1>9. Block(q, f, x) \notin Others /\ Block(q, f, y) \notin Others
  BY <1>7
<1>10. Blocks(c, g) = {Block(c, g, i) : i \in {j \in D : q[j] = j} \ {y}}
  BY <1>1, <1>2 DEF Blocks
<1>11. Blocks(c, g) = {Block(c, g, i) : i \in {j \in D : q[j] = j} \ {x, y}} \cup {Block(c, g, x)}
  BY <1>10
<1>12. Blocks(c, g) = Others \cup {Block(c, g, x)}
  BY <1>4, <1>11
<1>13. Blocks(c, g) = (Blocks(q, f) \ {Block(q, f, x), Block(q, f, y)})
                           \cup {Block(q, f, x) \cup Block(q, f, y)}
  BY <1>3, <1>8, <1>9, <1>12
<1>14. QED BY <1>2, <1>3, <1>4, <1>5, <1>7, <1>13 DEF Joined

\* The ranks after y has come under x, whose rank is not smaller.
LEMMA JoinSound ==
    ASSUME NEW D, IsFiniteSet(D), NEW q \in [D -> D], Acyclic(q), NEW f, Leads(f, q),
           NEW k \in [D -> Nat], NEW n, Sound(q, k, f, n),
           NEW x \in D, NEW y \in D, x # y, q[x] = x, q[y] = y, k[x] >= k[y],
           NEW c, c = Under(q, x, y), NEW g, g = Taken(f, D, x, y),
           NEW l, l = Raised(k, x, y)
    PROVE  l \in [D -> Nat] /\ Sound(c, l, g, n - 1)
<1> USE DEF Under, Taken, Raised
<1>1. DOMAIN c = D /\ DOMAIN q = D /\ \A i \in D : c[i] = IF i = y THEN x ELSE q[i]
  OBVIOUS
<1>2. /\ l \in [D -> Nat]
      /\ \A i \in D : i # x => l[i] = k[i]
      /\ l[x] = IF k[x] = k[y] THEN k[x] + 1 ELSE k[x]
  OBVIOUS
<1>3. \A i \in D : q[i] # i => k[q[i]] > k[i]
  BY <1>1 DEF Sound
<1>4. \A i \in D : q[i] = i => 2^k[i] <= Cardinality(Block(q, f, i))
  BY <1>1 DEF Sound
<1>5. n = Cardinality({i \in D : q[i] = i})
  BY <1>1 DEF Sound
<1> DEFINE A == Block(q, f, x)
           B == Block(q, f, y)
<1>6. /\ {i \in D : c[i] = i} = {i \in D : q[i] = i} \ {y}
      /\ Block(c, g, x) = A \cup B
      /\ A \cap B = {}
      /\ \A i \in D \ {x, y} : Block(c, g, i) = Block(q, f, i)
  <2>1. Joined(D, q, f, c, g, x, y)
    BY JoinBlocks
  <2>2. QED BY <2>1 DEF Joined
<1>7. ASSUME NEW i \in D, c[i] # i PROVE l[c[i]] > l[i]
  <2>1. CASE i = y
    BY <1>1, <1>2, <2>1
  <2>2. CASE i # y
    <3>1. q[i] # i /\ c[i] = q[i] /\ i # x /\ k[q[i]] > k[i] /\ q[i] \in D
      BY <1>1, <1>3, <1>7, <2>2
    <3>2. l[i] = k[i] /\ l[q[i]] >= k[q[i]]
      BY <1>2, <3>1
    <3>3. k[i] \in Nat /\ k[q[i]] \in Nat /\ l[q[i]] \in Nat
      BY <1>2, <3>1
    <3>4. QED BY <3>1, <3>2, <3>3
  <2>3. QED BY <2>1, <2>2
<1>8. Cardinality(A \cup B) = Cardinality(A) + Cardinality(B)
      /\ Cardinality(A) \in Nat /\ Cardinality(B) \in Nat
  <2>1. IsFiniteSet(A) /\ IsFiniteSet(B)
    BY <1>1, FS_Subset DEF Block
  <2>2. Cardinality(A) \in Nat /\ Cardinality(B) \in Nat /\ Cardinality(A \cap B) = 0
    BY <1>6, <2>1, FS_CardinalityType, FS_EmptySet
  <2>3. Cardinality(A \cup B) = Cardinality(A) + Cardinality(B) - Cardinality(A \cap B)
    BY <2>1, FS_Union
  <2>4. QED BY <2>2, <2>3
<1>9. 2^l[x] <= Cardinality(A \cup B)
  <2>1. k[x] \in Nat /\ k[y] \in Nat
    OBVIOUS
  <2>2. 2^k[x] <= Cardinality(A) /\ 2^k[y] <= Cardinality(B)
    BY <1>4
  <2>3. 2^k[x] \in Nat
    BY <2>1, PowerNat
  <2>4. CASE k[x] = k[y]
    <3>1. l[x] = k[x] + 1
      BY <1>2, <2>4
    <3>2. 2^l[x] = 2^k[x] + 2^k[x]
      BY <2>1, <3>1, PowerNext
    <3>3. 2^k[x] <= Cardinality(B)
      BY <2>2, <2>4
    <3>4. \A t, a, b \in Nat : t <= a /\ t <= b => t + t <= a + b
      OBVIOUS
    <3>5. QED BY <1>8, <2>2, <2>3, <3>2, <3>3, <3>4
  <2>5. CASE k[x] # k[y]
    <3>1. l[x] = k[x]
      BY <1>2, <2>5
    <3>2. \A t, a, b \in Nat : t <= a => t <= a + b
      OBVIOUS
    <3>3. QED BY <1>8, <2>2, <2>3, <3>1, <3>2
  <2>6. QED BY <2>4, <2>5
<1>10. ASSUME NEW i \in D, c[i] = i PROVE 2^l[i] <= Cardinality(Block(c, g, i))
  <2>1. CASE i = x
    BY <1>6, <1>9, <2>1
  <2>2. CASE i # x
    <3>1. i \in D \ {x, y} /\ q[i] = i
      BY <1>1, <1>10, <2>2
    <3>2. Block(c, g, i) = Block(q, f, i) /\ l[i] = k[i]
      BY <1>2, <1>6, <3>1
    <3>3. 2^k[i] <= Cardinality(Block(q, f, i))
      BY <1>4, <3>1
    <3>4. QED BY <3>2, <3>3
  <2>3. QED BY <2>1, <2>2
<1>11. n - 1 = Cardinality({i \in D : c[i] = i})
  <2>1. IsFiniteSet({i \in D : q[i] = i}) /\ y \in {i \in D : q[i] = i}
    BY FS_Subset
  <2>2. QED BY <1>5, <1>6, <2>1, FS_RemoveElement
<1>12. QED BY <1>1, <1>2, <1>7, <1>10, <1>11 DEF Sound

-----------------------------------------------------------------------------
(* The steps.                                                              *)

\* A forest of s elements on their own.
Apart(s) == p = [i \in 0..s - 1 |-> i] /\ r = [i \in 0..s - 1 |-> 0] /\ sets = s

Starts == \A s \in Nat : Apart(s) => DInv /\ Disjoint!AsPartition!AllApart

LEMMA Start == Starts
<1> SUFFICES ASSUME NEW s \in Nat, Apart(s) PROVE DInv /\ Disjoint!AsPartition!AllApart
  BY DEF Starts
<1> USE DEF Apart
<1>1. p \in [0..s - 1 -> 0..s - 1] /\ Acyclic(p) /\ Leads(p, p)
  BY ApartForest
<1>2. Disjoint!Ids = 0..s - 1
  BY DEF Disjoint!Ids
<1>3. Shape
  BY <1>1, <1>2 DEF Shape
<1>4. Sound(p, r, p, sets) /\ Blocks(p, p) = {{i} : i \in 0..s - 1}
  BY ApartSound
<1>5. Disjoint!ForestSound /\ blocks = {{i} : i \in 0..s - 1}
  BY <1>1, <1>3, <1>4, SoundIs
<1>6. UNION blocks = 0..s - 1
  BY <1>5
<1>7. Cardinality(0..s - 1) = s
  BY FS_Interval
<1>8. Disjoint!AsPartition!AllApart
  BY <1>5, <1>6, <1>7, SameCardinality DEF Disjoint!AsPartition!AllApart, blocks
<1>9. QED BY <1>3, <1>5, <1>8 DEF DInv

LEMMA StartNext == \A s \in Nat : Apart(s)' => DInv' /\ Disjoint!AsPartition!AllApart'
<1>1. Starts'
  BY Start, PTL
<1>2. QED BY <1>1 DEF Starts

LEMMA IdsSize ==
    ASSUME Shape
    PROVE  /\ IsFiniteSet(Disjoint!Ids) /\ Cardinality(Disjoint!Ids) \in Nat
           /\ Disjoint!Ids = 0..Cardinality(Disjoint!Ids) - 1
<1>1. PICK s \in Nat : Disjoint!Ids = 0..s - 1
  BY DEF Shape
<1>2. IsFiniteSet(0..s - 1) /\ Cardinality(0..s - 1) = s
  BY FS_Interval
<1>3. QED BY <1>1, <1>2

LEMMA ClearStep == ASSUME DInv, Disjoint!Clear PROVE DInv' /\ Disjoint!AsPartition!AllApart'
<1>1. PICK s \in Nat : s = Cardinality(Disjoint!Ids) /\ Disjoint!Ids = 0..s - 1
  BY IdsSize DEF DInv
<1>2. Apart(s)'
  BY <1>1, SameCardinality DEF Disjoint!Clear, Disjoint!Cleared, Apart
<1>3. QED BY <1>2, StartNext

LEMMA ResizeStep ==
    ASSUME Sizes \subseteq Nat, DInv, NEW s \in Sizes, Disjoint!Resize(s)
    PROVE  DInv' /\ Disjoint!AsPartition!AllApart'
<1>1. CASE s = Cardinality(Disjoint!Ids)
  BY <1>1, ClearStep, SameCardinality DEF Disjoint!Resize
<1>2. CASE s # Cardinality(Disjoint!Ids)
  <2>1. s \in Nat /\ Apart(s)'
    BY <1>2, SameCardinality DEF Disjoint!Resize, Disjoint!Fresh, Apart
  <2>2. QED BY <2>1, StartNext
<1>3. QED BY <1>1, <1>2

\* find_set leaves the partition as it was.
LEMMA FindSetStep ==
    ASSUME DInv, NEW id \in Disjoint!Ids, Disjoint!FindSet(id)
    PROVE  DInv' /\ blocks' = blocks
<1>1. PICK D : D = Disjoint!Ids
  OBVIOUS
<1>2. PICK q : q = p
  OBVIOUS
<1>3. PICK k : k = r
  OBVIOUS
<1>4. PICK n : n = sets
  OBVIOUS
<1>5. PICK f : f = Disjoint!root
  OBVIOUS
<1>6. q \in [D -> D] /\ k \in [D -> Nat] /\ Acyclic(q) /\ id \in D /\ DOMAIN q = D
  BY <1>1, <1>2, <1>3 DEF DInv, Shape, Disjoint!Ids
<1>7. Leads(f, q)
  BY <1>2, <1>5, RootLeads DEF DInv
<1>8. Sound(q, k, f, n) /\ blocks = Blocks(q, f)
  BY <1>2, <1>3, <1>4, <1>7, SoundIs DEF DInv
<1>9. PICK c : c = CutShort(q, f, id)
  OBVIOUS
<1>10. p' = c /\ r' = k /\ sets' = n
  BY <1>2, <1>3, <1>4, <1>5, <1>9 DEF Disjoint!FindSet, CutShort
<1>11. c \in [D -> D] /\ Acyclic(c) /\ Leads(f, c)
  BY <1>6, <1>7, <1>9, CutForest
<1>12. Sound(c, k, f, n) /\ Blocks(c, f) = Blocks(q, f)
  BY <1>6, <1>7, <1>8, <1>9, CutSound
<1>13. Disjoint!Ids' = D /\ DOMAIN c = D
  BY <1>10, <1>11 DEF Disjoint!Ids
<1>14. Shape'
  BY <1>1, <1>6, <1>10, <1>11, <1>13 DEF DInv, Shape
<1>15. Disjoint!ForestSound' /\ blocks' = Blocks(c, f)
  BY <1>10, <1>11, <1>12, <1>14, SoundIsNext
<1>16. QED BY <1>8, <1>12, <1>14, <1>15 DEF DInv

\* join makes one block of two.
LEMMA JoinUnder ==
    ASSUME DInv, NEW x \in Disjoint!Ids, NEW y \in Disjoint!Ids, x # y,
           Disjoint!IsRoot(x), Disjoint!IsRoot(y), r[x] >= r[y],
           p' = Under(p, x, y), r' = Raised(r, x, y), sets' = sets - 1
    PROVE  DInv' /\ Disjoint!AsPartition!Unite
<1>1. PICK D : D = Disjoint!Ids
  OBVIOUS
<1>2. PICK q : q = p
  OBVIOUS
<1>3. PICK k : k = r
  OBVIOUS
<1>4. PICK n : n = sets
  OBVIOUS
<1>5. PICK f : f = Disjoint!root
  OBVIOUS
<1>6. /\ q \in [D -> D] /\ k \in [D -> Nat] /\ Acyclic(q) /\ DOMAIN q = D
      /\ x \in D /\ y \in D /\ q[x] = x /\ q[y] = y /\ k[x] >= k[y]
  BY <1>1, <1>2, <1>3 DEF DInv, Shape, Disjoint!Ids, Disjoint!IsRoot
<1>7. Leads(f, q)
  BY <1>2, <1>5, RootLeads DEF DInv
<1>8. Sound(q, k, f, n) /\ blocks = Blocks(q, f)
  BY <1>2, <1>3, <1>4, <1>7, SoundIs DEF DInv
<1>9. PICK c : c = Under(q, x, y)
  OBVIOUS
<1>10. PICK g : g = Taken(f, D, x, y)
  OBVIOUS
<1>11. PICK l : l = Raised(k, x, y)
  OBVIOUS
<1>12. p' = c /\ r' = l /\ sets' = n - 1
  BY <1>2, <1>3, <1>4, <1>9, <1>11
<1>13. c \in [D -> D] /\ Acyclic(c) /\ Leads(g, c)
  BY <1>6, <1>7, <1>9, <1>10, JoinForest
<1>14. IsFiniteSet(D)
  BY <1>1, IdsSize DEF DInv
<1>15. l \in [D -> Nat] /\ Sound(c, l, g, n - 1)
  BY <1>6, <1>7, <1>8, <1>9, <1>10, <1>11, <1>14, JoinSound
<1>16. Disjoint!Ids' = D /\ DOMAIN c = D
  BY <1>12, <1>13 DEF Disjoint!Ids
<1>17. Shape'
  BY <1>1, <1>12, <1>13, <1>15, <1>16 DEF DInv, Shape
<1>18. Disjoint!ForestSound' /\ blocks' = Blocks(c, g)
  BY <1>12, <1>13, <1>15, <1>17, SoundIsNext
<1>19. Joined(D, q, f, c, g, x, y)
  BY <1>6, <1>7, <1>9, <1>10, JoinBlocks
<1>20. Block(q, f, x) \in Blocks(q, f) /\ Block(q, f, y) \in Blocks(q, f)
  BY <1>6 DEF Blocks
<1>21. \E a, b \in blocks : a # b /\ blocks' = (blocks \ {a, b}) \cup {a \cup b}
  BY <1>8, <1>18, <1>19, <1>20 DEF Joined
<1>22. Disjoint!AsPartition!Unite
  BY <1>21 DEF Disjoint!AsPartition!Unite, blocks
<1>23. QED BY <1>17, <1>18, <1>22 DEF DInv

LEMMA JoinStep ==
    ASSUME DInv, NEW x \in Disjoint!Ids, NEW y \in Disjoint!Ids,
           Disjoint!IsRoot(x), Disjoint!IsRoot(y), Disjoint!Join(x, y)
    PROVE  DInv' /\ Disjoint!AsPartition!Unite
<1>1. r[x] \in Nat /\ r[y] \in Nat
  BY DEF DInv, Shape
<1>2. CASE r[x] >= r[y] /\ p' = [p EXCEPT ![y] = x] /\ r' = Disjoint!Ranked(x, y)
  BY <1>2, JoinUnder DEF Disjoint!Join, Disjoint!Ranked, Under, Raised
<1>3. CASE r[x] < r[y] /\ p' = [p EXCEPT ![x] = y] /\ UNCHANGED r
  <2>1. p' = Under(p, y, x) /\ r' = Raised(r, y, x) /\ r[y] >= r[x] /\ y # x /\ sets' = sets - 1
    BY <1>1, <1>3 DEF Disjoint!Join, Under, Raised
  <2>2. QED BY <2>1, JoinUnder
<1>4. QED BY <1>2, <1>3 DEF Disjoint!Join

LEMMA StepSound ==
    ASSUME Sizes \subseteq Nat, DInv, [Disjoint!Next]_(Disjoint!vars)
    PROVE  DInv' /\ [Disjoint!AsPartition!Unite \/ Disjoint!AsPartition!AllApart']_blocks
<1>1. ASSUME NEW id \in Disjoint!Ids, Disjoint!FindSet(id)
      PROVE  DInv' /\ blocks' = blocks
  BY <1>1, FindSetStep
<1>2. ASSUME NEW x \in {i \in Disjoint!Ids : Disjoint!IsRoot(i)},
             NEW y \in {i \in Disjoint!Ids : Disjoint!IsRoot(i)}, Disjoint!Join(x, y)
      PROVE  DInv' /\ Disjoint!AsPartition!Unite
  BY <1>2, JoinStep
<1>3. ASSUME Disjoint!Clear
      PROVE  DInv' /\ Disjoint!AsPartition!AllApart'
  BY <1>3, ClearStep
<1>4. ASSUME NEW s \in Sizes, Disjoint!Resize(s)
      PROVE  DInv' /\ Disjoint!AsPartition!AllApart'
  BY <1>4, ResizeStep
<1>5. ASSUME UNCHANGED Disjoint!vars
      PROVE  DInv' /\ blocks' = blocks
  <2>1. p' = p /\ r' = r /\ sets' = sets
    BY <1>5 DEF Disjoint!vars
  <2>2. Shape'
    BY <2>1 DEF DInv, Shape, Disjoint!Ids
  <2>3. PICK f : Leads(f, p)
    BY RootLeads DEF DInv
  <2>4. Sound(p, r, f, sets) /\ blocks = Blocks(p, f)
    BY <2>3, SoundIs DEF DInv
  <2>5. Disjoint!ForestSound' /\ blocks' = Blocks(p, f)
    BY <2>1, <2>2, <2>3, <2>4, SoundIsNext
  <2>6. QED BY <2>2, <2>4, <2>5 DEF DInv
<1>6. QED BY <1>1, <1>2, <1>3, <1>4, <1>5 DEF Disjoint!Next

\* For any sizes, the forest is a partition in which join makes one block of two
\* and nothing else does, clear and resize part all elements and find_set changes
\* no block, however paths have been cut; and every call leaves the forest sound.
THEOREM PartitionKept ==
    ASSUME Sizes \subseteq Nat
    PROVE  Disjoint!Spec => ImplementsPartition
<1>1. Disjoint!Init => DInv /\ Disjoint!AsPartition!AllApart
  BY Start DEF Starts, Apart, Disjoint!Init
<1>2. DInv /\ [Disjoint!Next]_(Disjoint!vars)
        => DInv' /\ [Disjoint!AsPartition!Unite \/ Disjoint!AsPartition!AllApart']_blocks
  BY StepSound
<1>3. DInv' => [Disjoint!ForestSound']_(Disjoint!vars)
  BY DEF DInv
<1>4. QED BY <1>1, <1>2, <1>3, PTL
          DEF Disjoint!Spec, ImplementsPartition, Disjoint!ImplementsPartition,
              Disjoint!AsPartition!Spec, blocks

-----------------------------------------------------------------------------
(* The heap: positions.                                                    *)

LEMMA Family ==
    /\ \A j \in Nat \ {0} : /\ Parent(j) \in Nat /\ Parent(j) < j
                            /\ j = 2 * Parent(j) + 1 \/ j = 2 * Parent(j) + 2
    /\ \A i \in Nat : Parent(2 * i + 1) = i /\ Parent(2 * i + 2) = i
BY DEF Parent

LEMMA BelowIs == \A n \in Nat : \A i : i \in Below(n) <=> i \in Nat /\ i < n
BY DEF Below

LEMMA ParentBelow ==
    \A m \in Nat : \A j \in Below(m) \ {0} :
        Parent(j) \in Below(m) /\ Parent(j) < j /\ Parent(j) # j
BY DEF Below, Parent

\* The index arrays are inverse to each other.
Inverses(a, n) ==
    /\ a \in Arrays(n)
    /\ \A i \in Below(n) : a.map[a.heap[i]] = i /\ a.heap[a.map[i]] = i

\* b has the slots of a, those at i and j exchanged.
Crossed(b, a, n, i, j) ==
    /\ b.heap[i] = a.heap[j] /\ b.heap[j] = a.heap[i]
    /\ \A k \in Below(n) : k # i /\ k # j => b.heap[k] = a.heap[k]

\* A swap changes two positions.
LEMMA SwapIs ==
    ASSUME NEW n \in Nat, NEW a, Inverses(a, n), NEW i \in Below(n), NEW j \in Below(n),
           NEW b, b = Swapped(a, i, j)
    PROVE  Inverses(b, n) /\ Crossed(b, a, n, i, j)
<1>1. /\ a.heap \in [Below(n) -> Below(n)] /\ a.map \in [Below(n) -> Below(n)]
      /\ \A k \in Below(n) : a.map[a.heap[k]] = k /\ a.heap[a.map[k]] = k
  BY DEF Inverses, Arrays
<1>2. b.heap = [a.heap EXCEPT ![i] = a.heap[j], ![j] = a.heap[i]]
  BY DEF Swapped
<1>3. /\ b.heap \in [Below(n) -> Below(n)]
      /\ b.heap[i] = a.heap[j] /\ b.heap[j] = a.heap[i]
      /\ \A k \in Below(n) : k # i /\ k # j => b.heap[k] = a.heap[k]
  BY <1>1, <1>2
<1>4. b.map = [a.map EXCEPT ![b.heap[i]] = i, ![b.heap[j]] = j]
  BY <1>2 DEF Swapped
<1>5. /\ b.map \in [Below(n) -> Below(n)]
      /\ b.map[a.heap[i]] = j /\ b.map[a.heap[j]] = i
      /\ \A s \in Below(n) : s # a.heap[i] /\ s # a.heap[j] => b.map[s] = a.map[s]
  BY <1>1, <1>3, <1>4
<1>6. b \in Arrays(n)
  BY <1>3, <1>5 DEF Swapped, Arrays
<1>7. ASSUME NEW k \in Below(n) PROVE b.map[b.heap[k]] = k /\ b.heap[b.map[k]] = k
  <2>1. b.map[b.heap[k]] = k
    BY <1>1, <1>3, <1>5
  <2>2. b.heap[b.map[k]] = k
    BY <1>1, <1>3, <1>5
  <2>3. QED BY <2>1, <2>2
<1>8. QED BY <1>3, <1>6, <1>7 DEF Inverses, Crossed

-----------------------------------------------------------------------------
(* The order of the heap.  v gives the value at each position; where it    *)
(* may be broken is between one position and its parent and children.      *)

InOrder(v) == \A j \in DOMAIN v \ {0} : v[Parent(j)] <= v[j]
Kids(v, i) == \A j \in DOMAIN v \ {0} : Parent(j) = i => v[i] <= v[j]
Self(v, i) == i # 0 => v[Parent(i)] <= v[i]
Hole(v, i) ==
    /\ \A j \in DOMAIN v \ {0} : j # i /\ Parent(j) # i => v[Parent(j)] <= v[j]
    /\ i # 0 => \A j \in DOMAIN v \ {0} : Parent(j) = i => v[Parent(i)] <= v[j]

Exchanged(v, i, j) == [v EXCEPT ![i] = v[j], ![j] = v[i]]

LEMMA HoleFilled ==
    ASSUME NEW m \in Nat, NEW v \in [Below(m) -> Int], NEW i, Hole(v, i), Kids(v, i), Self(v, i)
    PROVE  InOrder(v)
BY DEF Hole, Kids, Self, InOrder

\* A round of heap_up takes the hole to the parent.
LEMMA HoleRises ==
    ASSUME NEW m \in Nat, NEW v \in [Below(m) -> Int], NEW i \in Below(m), i # 0,
           Hole(v, i), v[i] < v[Parent(i)],
           NEW w, w = Exchanged(v, i, Parent(i))
    PROVE  Parent(i) \in Below(m) /\ Hole(w, Parent(i)) /\ Kids(w, Parent(i))
<1>1. PICK k \in Below(m) : k = Parent(i) /\ k < i
  BY ParentBelow
<1>2. /\ w \in [Below(m) -> Int] /\ w[i] = v[k] /\ w[k] = v[i]
      /\ \A j \in Below(m) : j # i /\ j # k => w[j] = v[j]
  BY <1>1, BelowIs DEF Exchanged
<1>3. \A j \in Below(m) \ {0} : Parent(j) \in Below(m) /\ Parent(j) < j /\ Parent(j) # j
  BY ParentBelow
<1>4. \A j \in Below(m) \ {0} : j # i /\ Parent(j) # i => v[Parent(j)] <= v[j]
  BY DEF Hole
<1>5. \A j \in Below(m) \ {0} : Parent(j) = i => v[k] <= v[j]
  BY <1>1 DEF Hole
<1>6. v[i] < v[k] /\ \A j \in Below(m) : v[j] \in Int
  BY <1>1
<1>7. k # 0 => v[Parent(k)] <= v[k]
  BY <1>1, <1>3, <1>4, BelowIs
<1>8. Kids(w, k)
  <2> SUFFICES ASSUME NEW j \in Below(m) \ {0}, Parent(j) = k PROVE w[k] <= w[j]
    BY <1>2 DEF Kids
  <2>1. CASE j = i
    BY <2>1, <1>2, <1>6
  <2>2. CASE j # i
    BY <2>2, <1>1, <1>2, <1>3, <1>4, <1>6
  <2>3. QED BY <2>1, <2>2
<1>9. ASSUME NEW j \in Below(m) \ {0}, j # k, Parent(j) # k PROVE w[Parent(j)] <= w[j]
  <2>1. j # i
    BY <1>1, <1>9
  <2>2. CASE Parent(j) = i
    BY <2>1, <2>2, <1>2, <1>5, <1>9
  <2>3. CASE Parent(j) # i
    BY <2>1, <2>3, <1>2, <1>3, <1>4, <1>9
  <2>4. QED BY <2>2, <2>3
<1>10. ASSUME k # 0, NEW j \in Below(m) \ {0}, Parent(j) = k PROVE w[Parent(k)] <= w[j]
  <2>1. Parent(k) # i /\ Parent(k) # k /\ Parent(k) \in Below(m)
    BY <1>1, <1>3, <1>10, BelowIs
  <2>2. w[Parent(k)] = v[Parent(k)] /\ v[Parent(k)] <= v[k]
    BY <2>1, <1>2, <1>7, <1>10
  <2>3. CASE j = i
    BY <2>2, <2>3, <1>2
  <2>4. CASE j # i
    <3>1. w[j] = v[j] /\ v[k] <= v[j]
      BY <2>4, <1>1, <1>2, <1>3, <1>4, <1>10
    <3>2. QED BY <3>1, <2>2, <2>1, <1>6
  <2>5. QED BY <2>3, <2>4
<1>11. QED BY <1>1, <1>2, <1>8, <1>9, <1>10 DEF Hole

\* A round of heap_down takes it to the smaller child.
LEMMA HoleSinks ==
    ASSUME NEW m \in Nat, NEW v \in [Below(m) -> Int], NEW i \in Below(m),
           Hole(v, i), Self(v, i), NEW c \in Below(m), c # 0, Parent(c) = i,
           \A j \in Below(m) \ {0} : Parent(j) = i => v[c] <= v[j], v[c] <= v[i],
           NEW w, w = Exchanged(v, i, c)
    PROVE  Hole(w, c) /\ Self(w, c)
<1>1. i < c
  BY Family, BelowIs
<1>2. /\ w \in [Below(m) -> Int] /\ w[i] = v[c] /\ w[c] = v[i]
      /\ \A j \in Below(m) : j # i /\ j # c => w[j] = v[j]
  BY <1>1, BelowIs DEF Exchanged
<1>3. \A j \in Below(m) \ {0} : Parent(j) \in Below(m) /\ Parent(j) < j /\ Parent(j) # j
  BY ParentBelow
<1>4. \A j \in Below(m) \ {0} : j # i /\ Parent(j) # i => v[Parent(j)] <= v[j]
  BY DEF Hole
<1>5. i # 0 => v[Parent(i)] <= v[c]
  BY DEF Hole
<1>6. Self(w, c)
  BY <1>2 DEF Self
<1>7. ASSUME NEW j \in Below(m) \ {0}, j # c, Parent(j) # c PROVE w[Parent(j)] <= w[j]
  <2>1. CASE j = i
    BY <2>1, <1>2, <1>3, <1>5, <1>7
  <2>2. CASE j # i /\ Parent(j) = i
    BY <2>2, <1>2, <1>7
  <2>3. CASE j # i /\ Parent(j) # i
    BY <2>3, <1>2, <1>3, <1>4, <1>7
  <2>4. QED BY <2>1, <2>2, <2>3
<1>8. ASSUME NEW j \in Below(m) \ {0}, Parent(j) = c PROVE w[Parent(c)] <= w[j]
  <2>1. j # i /\ j # c /\ c # i
    BY <1>1, <1>3, <1>8, BelowIs
  <2>2. QED BY <2>1, <1>2, <1>4, <1>8
<1>9. QED BY <1>2, <1>6, <1>7, <1>8 DEF Hole

-----------------------------------------------------------------------------
(* The two loops, on arrays of n positions with elements of st at the      *)
(* first m of them.                                                        *)

Values(a, m, st) == [j \in Below(m) |-> st[a.heap[j]].value]
Slots(a, m) == {a.heap[j] : j \in Below(m)}

LEMMA SwapValues ==
    ASSUME NEW n \in Nat, NEW m \in Nat, m <= n, NEW a, Inverses(a, n), NEW st,
           NEW i \in Below(m), NEW j \in Below(m), NEW b, b = Swapped(a, i, j)
    PROVE  /\ Inverses(b, n) /\ Slots(b, m) = Slots(a, m)
           /\ Values(b, m, st) = Exchanged(Values(a, m, st), i, j)
<1>1. i \in Below(n) /\ j \in Below(n) /\ Below(m) \subseteq Below(n)
  BY BelowIs
<1>2. /\ Inverses(b, n) /\ b.heap[i] = a.heap[j] /\ b.heap[j] = a.heap[i]
      /\ \A k \in Below(n) : k # i /\ k # j => b.heap[k] = a.heap[k]
  <2>1. Inverses(b, n) /\ Crossed(b, a, n, i, j)
    BY <1>1, SwapIs
  <2>2. QED BY <2>1 DEF Crossed
<1>3. Slots(b, m) = Slots(a, m)
  BY <1>1, <1>2 DEF Slots
<1>4. Values(b, m, st) = Exchanged(Values(a, m, st), i, j)
  BY <1>1, <1>2 DEF Values, Exchanged
<1>5. QED BY <1>2, <1>3, <1>4

\* Where the order is broken at most is at x.
AtHole(x, n, m, st, S) ==
    /\ x \in Places(n) /\ Inverses(x.arrays, n) /\ x.at \in Below(m)
    /\ Slots(x.arrays, m) = S
    /\ Hole(Values(x.arrays, m, st), x.at)

LEMMA PlaceIs ==
    ASSUME NEW n, NEW a \in Arrays(n), NEW i \in Below(n)
    PROVE  [arrays |-> a, at |-> i] \in Places(n)
BY DEF Places

LEMMA SwapType ==
    ASSUME NEW n, NEW x \in Places(n), NEW i \in Below(n)
    PROVE  SwappedTo(x, i) \in Places(n) /\ SwappedTo(x, i).at = i
           /\ SwappedTo(x, i).arrays = Swapped(x.arrays, x.at, i)
<1>1. x.arrays \in Arrays(n) /\ x.at \in Below(n)
  BY DEF Places
<1>2. PICK h : h = x.arrays.heap
  OBVIOUS
<1>3. PICK g : g = x.arrays.map
  OBVIOUS
<1>4. h \in [Below(n) -> Below(n)] /\ g \in [Below(n) -> Below(n)]
  BY <1>1, <1>2, <1>3 DEF Arrays
<1>5. PICK k : k = [h EXCEPT ![x.at] = h[i], ![i] = h[x.at]]
  OBVIOUS
<1>6. k \in [Below(n) -> Below(n)]
  BY <1>1, <1>4, <1>5
<1>7. [g EXCEPT ![k[x.at]] = x.at, ![k[i]] = i] \in [Below(n) -> Below(n)]
  BY <1>1, <1>4, <1>6
<1>8. Swapped(x.arrays, x.at, i) = [heap |-> k, map |-> [g EXCEPT ![k[x.at]] = x.at, ![k[i]] = i]]
  BY <1>2, <1>3, <1>5 DEF Swapped
<1>9. Swapped(x.arrays, x.at, i) \in Arrays(n)
  BY <1>6, <1>7, <1>8 DEF Arrays
<1>10. QED BY <1>9, PlaceIs DEF SwappedTo

LEMMA RisingEnds ==
    ASSUME NEW n \in Nat, NEW st, NEW q, q = Rising(n, st)
    PROVE  q \in [Places(n) -> Places(n)] /\ Acyclic(q)
<1>1. ASSUME NEW x \in Places(n)
      PROVE  /\ q[x] \in Places(n)
             /\ q[x] = x \/ q[x].at < x.at
  <2>1. x.at \in Below(n) /\ x.at \in Nat
    BY BelowIs DEF Places
  <2>2. q[x] = IF x.at > 0 /\ Before(x.arrays, x.at, Parent(x.at), st)
               THEN SwappedTo(x, Parent(x.at)) ELSE x
    BY DEF Rising
  <2>3. CASE x.at > 0
    <3>1. Parent(x.at) \in Below(n) /\ Parent(x.at) < x.at
      BY <2>1, <2>3, ParentBelow
    <3>2. SwappedTo(x, Parent(x.at)) \in Places(n) /\ SwappedTo(x, Parent(x.at)).at = Parent(x.at)
      BY <3>1, SwapType
    <3>3. QED BY <2>2, <3>1, <3>2
  <2>4. CASE ~(x.at > 0)
    BY <2>2, <2>4
  <2>5. QED BY <2>3, <2>4
<1>2. q \in [Places(n) -> Places(n)]
  BY <1>1 DEF Rising
<1> DEFINE mea == [x \in Places(n) |-> x.at]
<1>3. mea \in [Places(n) -> Nat]
  BY BelowIs DEF Places
<1>4. \A x \in Places(n) : q[x] # x => mea[q[x]] < mea[x]
  BY <1>1
<1> HIDE DEF mea
<1>5. QED BY <1>2, <1>3, <1>4, MeasureEnds

\* What the loops need to know of the elements at the first m positions.
Valued(S, st) == \A s \in S : st[s].value \in Int

LEMMA ValuesType ==
    ASSUME NEW m \in Nat, NEW a, NEW st, Valued(Slots(a, m), st)
    PROVE  /\ Values(a, m, st) \in [Below(m) -> Int]
           /\ \A j \in Below(m) : Values(a, m, st)[j] = st[a.heap[j]].value
BY DEF Values, Slots, Valued

\* While it has a parent that is greater, the element at the hole rises.
LEMMA RiseKeeps ==
    ASSUME NEW n \in Nat, NEW m \in Nat, m <= n, NEW st, NEW S, Valued(S, st),
           NEW x \in Places(n), AtHole(x, n, m, st, S), NEW y, y = Rising(n, st)[x]
    PROVE  /\ AtHole(y, n, m, st, S)
           /\ y # x => Kids(Values(y.arrays, m, st), y.at)
           /\ y = x => Self(Values(x.arrays, m, st), x.at)
<1>1. y = IF x.at > 0 /\ Before(x.arrays, x.at, Parent(x.at), st)
          THEN SwappedTo(x, Parent(x.at)) ELSE x
  BY DEF Rising
<1>2. PICK i \in Below(m) : i = x.at
  BY DEF AtHole
<1>3. PICK a : a = x.arrays
  OBVIOUS
<1>4. Inverses(a, n) /\ Slots(a, m) = S /\ Hole(Values(a, m, st), i)
  BY <1>2, <1>3 DEF AtHole
<1>5. PICK v : v = Values(a, m, st)
  OBVIOUS
<1>6. v \in [Below(m) -> Int] /\ \A j \in Below(m) : v[j] = st[a.heap[j]].value
  BY <1>4, <1>5, ValuesType
<1>7. i # 0 => Parent(i) \in Below(m) /\ Parent(i) \in Below(n) /\ Parent(i) # i
               /\ (Before(a, i, Parent(i), st) <=> v[i] < v[Parent(i)])
  <2> SUFFICES ASSUME i # 0 PROVE
               Parent(i) \in Below(m) /\ Parent(i) \in Below(n) /\ Parent(i) # i
               /\ (Before(a, i, Parent(i), st) <=> v[i] < v[Parent(i)])
    OBVIOUS
  <2>1. Parent(i) \in Below(m) /\ Parent(i) # i
    BY ParentBelow
  <2>2. Parent(i) \in Below(n)
    BY <2>1, BelowIs
  <2>3. QED BY <2>1, <2>2, <1>6 DEF Before, Less
<1>8. i # 0 <=> i > 0
  BY BelowIs
<1>9. CASE i # 0 /\ v[i] < v[Parent(i)]
  <2>1. y = SwappedTo(x, Parent(i))
    BY <1>1, <1>2, <1>3, <1>7, <1>8, <1>9
  <2>2. y \in Places(n) /\ y.at = Parent(i) /\ y.arrays = Swapped(a, i, Parent(i))
    BY <1>2, <1>3, <1>7, <1>9, <2>1, SwapType
  <2>3. PICK b : b = Swapped(a, i, Parent(i))
    OBVIOUS
  <2>4. Inverses(b, n) /\ Slots(b, m) = S /\ Values(b, m, st) = Exchanged(v, i, Parent(i))
    BY <1>4, <1>5, <1>7, <1>9, <2>3, SwapValues
  <2>5. Hole(Values(b, m, st), Parent(i)) /\ Kids(Values(b, m, st), Parent(i))
    BY <1>4, <1>5, <1>6, <1>9, <2>4, HoleRises
  <2>6. AtHole(y, n, m, st, S) /\ Kids(Values(y.arrays, m, st), y.at)
    BY <1>7, <1>9, <2>2, <2>3, <2>4, <2>5 DEF AtHole
  <2>7. y # x
    BY <1>2, <1>7, <1>9, <2>2
  <2>8. QED BY <2>6, <2>7
<1>10. CASE ~(i # 0 /\ v[i] < v[Parent(i)])
  <2>1. y = x
    BY <1>1, <1>2, <1>3, <1>7, <1>8, <1>10
  <2>2. i # 0 => v[Parent(i)] <= v[i]
    BY <1>6, <1>7, <1>10
  <2>3. Self(v, i)
    BY <2>2 DEF Self
  <2>4. QED BY <1>2, <1>3, <1>5, <2>1, <2>3
<1>11. QED BY <1>9, <1>10

\* heap_up, from a hole: the element there is in order with its parent at the end, and with
\* its children if it was.
LEMMA UpEnds ==
    ASSUME NEW n \in Nat, NEW m \in Nat, m <= n, NEW st, NEW S, Valued(S, st),
           NEW x \in Places(n), AtHole(x, n, m, st, S), NEW y, y = Looped(Rising(n, st))[x]
    PROVE  /\ AtHole(y, n, m, st, S)
           /\ Self(Values(y.arrays, m, st), y.at)
           /\ Kids(Values(x.arrays, m, st), x.at) => Kids(Values(y.arrays, m, st), y.at)
<1>1. PICK q : q = Rising(n, st)
  OBVIOUS
<1>2. q \in [Places(n) -> Places(n)] /\ Acyclic(q)
  BY <1>1, RisingEnds
<1>3. PICK f : f = Looped(q)
  OBVIOUS
<1>4. Leads(f, q)
  BY <1>2, <1>3, LoopedLeads
<1>5. y = f[x]
  BY <1>1, <1>3
<1> DEFINE J == {z \in Places(n) : AtHole(z, n, m, st, S)}
           K == {z \in J : Kids(Values(z.arrays, m, st), z.at)}
<1>6. \A z \in J : /\ q[z] \in J
                   /\ q[z] # z => q[z] \in K
                   /\ q[z] = z => Self(Values(z.arrays, m, st), z.at)
  <2> SUFFICES ASSUME NEW z \in J
               PROVE  /\ q[z] \in J
                      /\ q[z] # z => q[z] \in K
                      /\ q[z] = z => Self(Values(z.arrays, m, st), z.at)
    OBVIOUS
  <2>1. PICK w : w = q[z]
    OBVIOUS
  <2>2. /\ AtHole(w, n, m, st, S)
        /\ w # z => Kids(Values(w.arrays, m, st), w.at)
        /\ w = z => Self(Values(z.arrays, m, st), z.at)
    BY <1>1, <2>1, RiseKeeps
  <2>3. w \in Places(n)
    BY <1>2, <2>1
  <2>4. QED BY <2>1, <2>2, <2>3
<1>7. \A z \in K : q[z] \in K
  BY <1>6
<1>8. J \subseteq Places(n) /\ K \subseteq Places(n) /\ x \in J
      /\ (Kids(Values(x.arrays, m, st), x.at) => x \in K)
  OBVIOUS
<1> HIDE DEF J, K
<1>9. f[x] \in J /\ q[f[x]] = f[x]
  BY <1>2, <1>4, <1>6, <1>8, LoopKeeps
<1>10. x \in K => f[x] \in K
  BY <1>2, <1>4, <1>7, <1>8, LoopKeeps
<1>11. y \in J /\ Self(Values(y.arrays, m, st), y.at)
  BY <1>5, <1>6, <1>9
<1>12. QED BY <1>5, <1>8, <1>10, <1>11 DEF J, K

LEMMA ChildIs ==
    ASSUME NEW m \in Nat, NEW a, NEW st, NEW i \in Nat, 2 * i + 1 < m
    PROVE  /\ Child(a, i, m, st) \in Below(m) \ {0}
           /\ Parent(Child(a, i, m, st)) = i /\ Child(a, i, m, st) > i
<1>1. Child(a, i, m, st) = 2 * i + 1 \/ (Child(a, i, m, st) = 2 * i + 2 /\ 2 * i + 2 < m)
  BY DEF Child
<1>2. Parent(2 * i + 1) = i /\ Parent(2 * i + 2) = i
  BY Family
<1>3. 2 * i + 1 \in Below(m) \ {0} /\ 2 * i + 1 > i
  BY DEF Below
<1>4. 2 * i + 2 < m => 2 * i + 2 \in Below(m) \ {0} /\ 2 * i + 2 > i
  BY DEF Below
<1>5. QED BY <1>1, <1>2, <1>3, <1>4

LEMMA SinkingEnds ==
    ASSUME NEW n \in Nat, NEW m \in Nat, m <= n, NEW st, NEW q, q = Sinking(n, m, st)
    PROVE  q \in [Places(n) -> Places(n)] /\ Acyclic(q)
<1>1. ASSUME NEW x \in Places(n)
      PROVE  /\ q[x] \in Places(n)
             /\ q[x] = x \/ q[x].at > x.at
  <2>1. x.at \in Below(n) /\ x.at \in Nat
    BY BelowIs DEF Places
  <2>2. PICK c : c = Child(x.arrays, x.at, m, st)
    OBVIOUS
  <2>3. q[x] = IF 2 * x.at + 1 < m /\ ~Before(x.arrays, x.at, c, st) THEN SwappedTo(x, c) ELSE x
    BY <2>2 DEF Sinking
  <2>4. CASE 2 * x.at + 1 < m
    <3>1. c \in Below(m) /\ c > x.at
      BY <2>1, <2>2, <2>4, ChildIs
    <3>2. c \in Below(n)
      BY <3>1, BelowIs
    <3>3. SwappedTo(x, c) \in Places(n) /\ SwappedTo(x, c).at = c
      BY <3>2, SwapType
    <3>4. QED BY <2>3, <3>1, <3>3
  <2>5. CASE ~(2 * x.at + 1 < m)
    BY <2>3, <2>5
  <2>6. QED BY <2>4, <2>5
<1>2. q \in [Places(n) -> Places(n)]
  BY <1>1 DEF Sinking
<1> DEFINE mea == [x \in Places(n) |-> n - x.at]
<1>3. \A x \in Places(n) : n - x.at \in Nat /\ x.at \in Nat
  BY BelowIs DEF Places
<1>4. \A x \in Places(n) : q[x] # x => mea[q[x]] < mea[x]
  <2> SUFFICES ASSUME NEW x \in Places(n), q[x] # x PROVE mea[q[x]] < mea[x]
    OBVIOUS
  <2>1. q[x].at > x.at /\ q[x] \in Places(n)
    BY <1>1
  <2>2. mea[q[x]] = n - q[x].at /\ mea[x] = n - x.at
    BY <2>1
  <2>3. q[x].at \in Nat /\ x.at \in Nat
    BY <1>3, <2>1
  <2>4. QED BY <2>1, <2>2, <2>3
<1>5. mea \in [Places(n) -> Nat]
  BY <1>3
<1> HIDE DEF mea
<1>6. QED BY <1>2, <1>4, <1>5, MeasureEnds

\* While it is not less than the smaller child, the element at the hole sinks.
LEMMA SinkKeeps ==
    ASSUME NEW n \in Nat, NEW m \in Nat, m <= n, NEW st, NEW S, Valued(S, st),
           NEW x \in Places(n), AtHole(x, n, m, st, S), Self(Values(x.arrays, m, st), x.at),
           NEW y, y = Sinking(n, m, st)[x]
    PROVE  /\ AtHole(y, n, m, st, S) /\ Self(Values(y.arrays, m, st), y.at)
           /\ y = x => Kids(Values(x.arrays, m, st), x.at)
<1>1. PICK i \in Below(m) : i = x.at
  BY DEF AtHole
<1>2. PICK a : a = x.arrays
  OBVIOUS
<1>3. PICK c : c = Child(a, i, m, st)
  OBVIOUS
<1>4. y = IF 2 * i + 1 < m /\ ~Before(a, i, c, st) THEN SwappedTo(x, c) ELSE x
  BY <1>1, <1>2, <1>3 DEF Sinking
<1>5. Inverses(a, n) /\ Slots(a, m) = S /\ Hole(Values(a, m, st), i) /\ Self(Values(a, m, st), i)
  BY <1>1, <1>2 DEF AtHole
<1>6. PICK v : v = Values(a, m, st)
  OBVIOUS
<1>7. v \in [Below(m) -> Int] /\ \A j \in Below(m) : v[j] = st[a.heap[j]].value
  BY <1>5, <1>6, ValuesType
<1>8. i \in Nat
  BY BelowIs
<1>9. CASE 2 * i + 1 < m
  <2>1. c \in Below(m) /\ c # 0 /\ Parent(c) = i /\ c > i
    BY <1>3, <1>8, <1>9, ChildIs
  <2>2. c \in Below(n)
    BY <2>1, BelowIs
  <2>3. \A j \in Below(m) \ {0} : Parent(j) = i => j = 2 * i + 1 \/ j = 2 * i + 2
    BY Family, BelowIs
  <2>4. 2 * i + 1 \in Below(m) /\ (2 * i + 2 \in Below(m) <=> 2 * i + 2 < m)
    BY <1>8, <1>9 DEF Below
  <2>5. Before(a, i, c, st) <=> v[i] < v[c]
    BY <1>7, <2>1 DEF Before, Less
  <2>6. v[c] <= v[2 * i + 1] /\ (2 * i + 2 \in Below(m) => v[c] <= v[2 * i + 2])
    <3>1. 2 * i + 2 < m => (Before(a, 2 * i + 2, 2 * i + 1, st) <=> v[2 * i + 2] < v[2 * i + 1])
      BY <1>7, <2>4 DEF Before, Less
    <3>2. CASE 2 * i + 2 < m
      <4>1. v[2 * i + 1] \in Int /\ v[2 * i + 2] \in Int
        BY <1>7, <2>4, <3>2
      <4>2. c = IF v[2 * i + 2] < v[2 * i + 1] THEN 2 * i + 2 ELSE 2 * i + 1
        BY <1>3, <3>1, <3>2 DEF Child
      <4>3. QED BY <4>1, <4>2
    <3>3. CASE ~(2 * i + 2 < m)
      <4>1. c = 2 * i + 1
        BY <1>3, <3>3 DEF Child
      <4>2. QED BY <1>7, <2>4, <3>3, <4>1
    <3>4. QED BY <3>2, <3>3
  <2>7. \A j \in Below(m) \ {0} : Parent(j) = i => v[c] <= v[j]
    BY <2>3, <2>6
  <2>8. CASE v[i] < v[c]
    <3>1. y = x
      BY <1>4, <2>5, <2>8
    <3>2. ASSUME NEW j \in Below(m) \ {0}, Parent(j) = i PROVE v[i] <= v[j]
      <4>1. v[c] <= v[j]
        BY <2>7, <3>2
      <4>2. v[i] \in Int /\ v[c] \in Int /\ v[j] \in Int
        BY <1>7, <2>1
      <4>3. QED BY <2>8, <4>1, <4>2
    <3>3. Kids(v, i)
      BY <1>7, <3>2 DEF Kids
    <3>4. QED BY <1>1, <1>2, <1>5, <1>6, <3>1, <3>3
  <2>9. CASE ~(v[i] < v[c])
    <3>1. v[c] <= v[i]
      BY <1>7, <2>1, <2>9
    <3>2. y = SwappedTo(x, c)
      BY <1>4, <1>9, <2>5, <2>9
    <3>3. y \in Places(n) /\ y.at = c /\ y.arrays = Swapped(a, i, c)
      BY <1>1, <1>2, <2>2, <3>2, SwapType
    <3>4. PICK b : b = Swapped(a, i, c)
      OBVIOUS
    <3>5. Inverses(b, n) /\ Slots(b, m) = S /\ Values(b, m, st) = Exchanged(v, i, c)
      BY <1>5, <1>6, <2>1, <3>4, SwapValues
    <3>6. Hole(Values(b, m, st), c) /\ Self(Values(b, m, st), c)
      BY <1>5, <1>6, <1>7, <2>1, <2>7, <3>1, <3>5, HoleSinks
    <3>7. AtHole(y, n, m, st, S) /\ Self(Values(y.arrays, m, st), y.at)
      BY <2>1, <3>3, <3>4, <3>5, <3>6 DEF AtHole
    <3>8. y # x
      BY <1>1, <1>8, <2>1, <3>3
    <3>9. QED BY <3>7, <3>8
  <2>10. QED BY <2>8, <2>9
<1>10. CASE ~(2 * i + 1 < m)
  <2>1. y = x
    BY <1>4, <1>10
  <2>2. \A j \in Below(m) \ {0} : Parent(j) # i
    BY <1>8, <1>10 DEF Below, Parent
  <2>3. Kids(v, i)
    BY <1>7, <2>2 DEF Kids
  <2>4. QED BY <1>1, <1>2, <1>5, <1>6, <2>1, <2>3
<1>11. QED BY <1>9, <1>10

\* heap_down, from a hole in order with its parent: all is in order at the end.
LEMMA DownEnds ==
    ASSUME NEW n \in Nat, NEW m \in Nat, m <= n, NEW st, NEW S, Valued(S, st),
           NEW x \in Places(n), AtHole(x, n, m, st, S), Self(Values(x.arrays, m, st), x.at),
           NEW y, y = Looped(Sinking(n, m, st))[x]
    PROVE  /\ Inverses(y.arrays, n) /\ Slots(y.arrays, m) = S
           /\ InOrder(Values(y.arrays, m, st))
<1>1. PICK q : q = Sinking(n, m, st)
  OBVIOUS
<1>2. q \in [Places(n) -> Places(n)] /\ Acyclic(q)
  BY <1>1, SinkingEnds
<1>3. PICK f : f = Looped(q)
  OBVIOUS
<1>4. Leads(f, q)
  BY <1>2, <1>3, LoopedLeads
<1>5. y = f[x]
  BY <1>1, <1>3
<1> DEFINE J == {z \in Places(n) : AtHole(z, n, m, st, S) /\ Self(Values(z.arrays, m, st), z.at)}
<1>6. \A z \in J : q[z] \in J /\ (q[z] = z => Kids(Values(z.arrays, m, st), z.at))
  <2> SUFFICES ASSUME NEW z \in J
               PROVE  q[z] \in J /\ (q[z] = z => Kids(Values(z.arrays, m, st), z.at))
    OBVIOUS
  <2>1. PICK w : w = q[z]
    OBVIOUS
  <2>2. /\ AtHole(w, n, m, st, S) /\ Self(Values(w.arrays, m, st), w.at)
        /\ w = z => Kids(Values(z.arrays, m, st), z.at)
    BY <1>1, <2>1, SinkKeeps
  <2>3. w \in Places(n)
    BY <1>2, <2>1
  <2>4. QED BY <2>1, <2>2, <2>3
<1>7. J \subseteq Places(n) /\ x \in J
  OBVIOUS
<1> HIDE DEF J
<1>8. f[x] \in J /\ q[f[x]] = f[x]
  BY <1>2, <1>4, <1>6, <1>7, LoopKeeps
<1>9. y \in J /\ Kids(Values(y.arrays, m, st), y.at)
  BY <1>5, <1>6, <1>8
<1>10. AtHole(y, n, m, st, S) /\ Self(Values(y.arrays, m, st), y.at)
  BY <1>9 DEF J
<1>11. Inverses(y.arrays, n) /\ Slots(y.arrays, m) = S /\ Hole(Values(y.arrays, m, st), y.at)
  BY <1>10 DEF AtHole
<1>12. Values(y.arrays, m, st) \in [Below(m) -> Int]
  BY <1>11, ValuesType
<1>13. QED BY <1>9, <1>10, <1>11, <1>12, HoleFilled

-----------------------------------------------------------------------------
(* Renumbering, before the arrays are cut.                                 *)

Rounds(n, half) == [arrays : Arrays(n), i : 0..half, si : Below(half)]

\* The positions whose slots will be cut off, or the slots whose positions will.
Far(f, half) == {j \in Below(half) : ~(f[j] < half)}

\* Below half, the two arrays are inverse to each other but for as many positions as slots.
HalfInverse(h, g, half) ==
    /\ \A j \in Below(half) : h[j] < half => g[h[j]] = j
    /\ \A s \in Below(half) : g[s] < half => h[g[s]] = s
    /\ Cardinality(Far(h, half)) = Cardinality(Far(g, half))

Passed(h, g, i, si, half) ==
    /\ \A j \in Below(half) : j < i => h[j] < half
    /\ \A s \in Below(half) : s < si => g[s] < half

LEMMA HalfStarts ==
    ASSUME NEW n \in Nat, NEW half \in Nat, half <= n, NEW a, Inverses(a, n)
    PROVE  HalfInverse(a.heap, a.map, half)
<1>1. PICK h : h = a.heap
  OBVIOUS
<1>2. PICK g : g = a.map
  OBVIOUS
<1>3. /\ h \in [Below(n) -> Below(n)] /\ g \in [Below(n) -> Below(n)]
      /\ \A i \in Below(n) : g[h[i]] = i /\ h[g[i]] = i
  BY <1>1, <1>2 DEF Inverses, Arrays
<1>4. Below(half) \subseteq Below(n)
  BY BelowIs
<1> DEFINE D == Below(half)
           A == {j \in D : h[j] < half}
           B == {s \in D : g[s] < half}
           f == [j \in A |-> h[j]]
<1>5. \A j \in A : h[j] \in B
  BY <1>3, <1>4, BelowIs
<1>6. \A s \in B : g[s] \in A /\ h[g[s]] = s
  BY <1>3, <1>4, BelowIs
<1>7. f \in Bijection(A, B)
  <2>1. f \in [A -> B]
    BY <1>5
  <2>2. \A j, k \in A : f[j] = f[k] => j = k
    BY <1>3, <1>4
  <2>3. \A s \in B : \E j \in A : f[j] = s
    BY <1>6
  <2>4. QED BY <2>1, <2>2, <2>3 DEF Bijection, Injection, Surjection, IsInjective
<1>8. IsFiniteSet(D)
  BY FS_Interval DEF Below
<1>9. IsFiniteSet(A) /\ IsFiniteSet(B)
  BY <1>8, FS_Subset
<1>10. Cardinality(A) = Cardinality(B)
  BY <1>7, <1>9, FS_Bijection DEF ExistsBijection
<1>11. Far(h, half) = D \ A /\ Far(g, half) = D \ B
  BY DEF Far
<1>12. /\ Cardinality(D \ A) = Cardinality(D) - Cardinality(D \cap A)
       /\ Cardinality(D \ B) = Cardinality(D) - Cardinality(D \cap B)
  BY <1>8, FS_Difference
<1>13. D \cap A = A /\ D \cap B = B
  OBVIOUS
<1>14. Cardinality(Far(h, half)) = Cardinality(Far(g, half))
  BY <1>10, <1>11, <1>12, <1>13
<1>15. QED BY <1>1, <1>2, <1>3, <1>4, <1>14 DEF HalfInverse

\* The slot taken is a free one: the scan cannot have passed all of them, as there are
\* as many as positions that want one.
LEMMA OneIsFree ==
    ASSUME NEW half \in Nat, NEW h, NEW g, HalfInverse(h, g, half),
           NEW i \in Below(half), NEW si \in Below(half), Passed(h, g, i, si, half),
           ~(h[i] < half), ~(g[si] < half /\ si + 1 < half)
    PROVE  ~(g[si] < half)
<1> SUFFICES ASSUME g[si] < half PROVE FALSE
  OBVIOUS
<1>1. si + 1 = half
  BY BelowIs
<1>2. Far(g, half) = {}
  BY <1>1, BelowIs DEF Far, Passed
<1>3. IsFiniteSet(Far(h, half)) /\ Cardinality(Far(h, half)) = 0
  <2>1. IsFiniteSet(Below(half))
    BY FS_Interval DEF Below
  <2>2. IsFiniteSet(Far(h, half))
    BY <2>1, FS_Subset DEF Far
  <2>3. QED BY <1>2, <2>2, FS_EmptySet DEF HalfInverse
<1>4. Far(h, half) = {}
  BY <1>3, FS_EmptySet
<1>5. QED BY <1>4 DEF Far

\* The exchange of a slot.
Exchange(k, l, i, si, n, half) ==
    /\ k \in [Below(n) -> Below(n)] /\ l \in [Below(n) -> Below(n)]
    /\ HalfInverse(k, l, half) /\ Passed(k, l, i + 1, si, half)

LEMMA HalfKept ==
    ASSUME NEW n \in Nat, NEW half \in Nat, half <= n,
           NEW h \in [Below(n) -> Below(n)], NEW g \in [Below(n) -> Below(n)],
           HalfInverse(h, g, half), NEW i \in Below(half), NEW si \in Below(half),
           Passed(h, g, i, si, half), ~(h[i] < half), ~(g[si] < half),
           NEW k, k = [h EXCEPT ![i] = si], NEW l, l = [g EXCEPT ![si] = i]
    PROVE  Exchange(k, l, i, si, n, half)
<1>1. i \in Nat /\ si \in Nat /\ i < half /\ si < half /\ Below(half) \subseteq Below(n)
      /\ Below(n) \subseteq Nat
  <2>1. i \in Nat /\ si \in Nat /\ i < half /\ si < half
    BY BelowIs
  <2>2. Below(half) \subseteq Below(n)
    BY DEF Below
  <2>3. Below(n) \subseteq Nat
    BY BelowIs
  <2>4. QED BY <2>1, <2>2, <2>3
<1>2. /\ k \in [Below(n) -> Below(n)] /\ k[i] = si
      /\ \A j \in Below(n) : j # i => k[j] = h[j]
  BY <1>1
<1>3. /\ l \in [Below(n) -> Below(n)] /\ l[si] = i
      /\ \A s \in Below(n) : s # si => l[s] = g[s]
  BY <1>1
<1>4. /\ \A j \in Below(half) : h[j] < half => g[h[j]] = j
      /\ \A s \in Below(half) : g[s] < half => h[g[s]] = s
  BY DEF HalfInverse
<1>5. \A j \in Below(half) : h[j] \in Nat /\ g[j] \in Nat
  BY <1>1
<1>6. ASSUME NEW j \in Below(half), k[j] < half PROVE l[k[j]] = j
  <2>1. CASE j = i
    BY <2>1, <1>2, <1>3
  <2>2. CASE j # i
    <3>1. k[j] = h[j] /\ h[j] < half /\ h[j] \in Below(n)
      BY <2>2, <1>1, <1>2, <1>6
    <3>2. g[h[j]] = j /\ j < half
      BY <3>1, <1>4, BelowIs
    <3>3. h[j] # si
      BY <3>2
    <3>4. QED BY <3>1, <3>2, <3>3, <1>3
  <2>3. QED BY <2>1, <2>2
<1>7. ASSUME NEW s \in Below(half), l[s] < half PROVE k[l[s]] = s
  <2>1. CASE s = si
    BY <2>1, <1>2, <1>3
  <2>2. CASE s # si
    <3>1. l[s] = g[s] /\ g[s] < half /\ g[s] \in Below(n)
      BY <2>2, <1>1, <1>3, <1>7
    <3>2. h[g[s]] = s /\ s < half
      BY <3>1, <1>4, BelowIs
    <3>3. g[s] # i
      BY <3>2
    <3>4. QED BY <3>1, <3>2, <3>3, <1>2
  <2>3. QED BY <2>1, <2>2
<1>8. Far(k, half) = Far(h, half) \ {i} /\ i \in Far(h, half)
  BY <1>1, <1>2 DEF Far
<1>9. Far(l, half) = Far(g, half) \ {si} /\ si \in Far(g, half)
  BY <1>1, <1>3 DEF Far
<1>10. IsFiniteSet(Far(h, half)) /\ IsFiniteSet(Far(g, half))
  <2>1. IsFiniteSet(Below(half))
    BY FS_Interval DEF Below
  <2>2. QED BY <2>1, FS_Subset DEF Far
<1>11. /\ Cardinality(Far(k, half)) = Cardinality(Far(h, half)) - 1
       /\ Cardinality(Far(l, half)) = Cardinality(Far(g, half)) - 1
  BY <1>8, <1>9, <1>10, FS_RemoveElement
<1>12. HalfInverse(k, l, half)
  BY <1>6, <1>7, <1>11 DEF HalfInverse
<1>13. Passed(k, l, i + 1, si, half)
  <2>1. \A j \in Below(half) : j < i + 1 => j = i \/ j < i
    BY <1>1, BelowIs
  <2>2. QED BY <2>1, <1>1, <1>2, <1>3 DEF Passed
<1>14. QED BY <1>2, <1>3, <1>12, <1>13 DEF Exchange

\* When all positions are passed, what lies below half can be cut off.
LEMMA HalfEnds ==
    ASSUME NEW n \in Nat, NEW half \in Nat, half <= n,
           NEW h \in [Below(n) -> Below(n)], NEW g \in [Below(n) -> Below(n)],
           HalfInverse(h, g, half), NEW si, Passed(h, g, half, si, half),
           NEW a, a = [heap |-> Cut(h, half), map |-> Cut(g, half)]
    PROVE  Inverses(a, half)
<1>1. Below(half) \subseteq Below(n) /\ Below(n) \subseteq Nat
  BY BelowIs
<1>2. Far(h, half) = {}
  BY BelowIs DEF Far, Passed
<1>3. Far(g, half) = {}
  <2>1. IsFiniteSet(Below(half))
    BY FS_Interval DEF Below
  <2>2. IsFiniteSet(Far(g, half))
    BY <2>1, FS_Subset DEF Far
  <2>3. Cardinality(Far(g, half)) = 0
    BY <1>2, FS_EmptySet DEF HalfInverse
  <2>4. QED BY <2>2, <2>3, FS_EmptySet
<1>4. \A j \in Below(half) : h[j] < half /\ g[j] < half /\ h[j] \in Nat /\ g[j] \in Nat
  BY <1>1, <1>2, <1>3 DEF Far
<1>5. \A j \in Below(half) : h[j] \in Below(half) /\ g[j] \in Below(half)
  BY <1>4, BelowIs
<1>6. \A j \in Below(half) : g[h[j]] = j /\ h[g[j]] = j
  BY <1>4 DEF HalfInverse
<1>7. /\ a.heap = Cut(h, half) /\ a.map = Cut(g, half)
      /\ \A j \in Below(half) : Cut(h, half)[j] = h[j] /\ Cut(g, half)[j] = g[j]
      /\ Cut(h, half) \in [Below(half) -> Below(half)]
      /\ Cut(g, half) \in [Below(half) -> Below(half)]
  BY <1>5 DEF Cut
<1>8. a \in Arrays(half)
  BY <1>7 DEF Arrays
<1>9. QED BY <1>5, <1>6, <1>7, <1>8 DEF Inverses

\* A round, on the parts of its record.
Round(y, x, h, g, i, si, n, half) ==
    /\ h \in [Below(n) -> Below(n)] /\ g \in [Below(n) -> Below(n)]
    /\ i \in Nat /\ i <= half /\ si \in Nat /\ si < half
    /\ i = half => y = x
    /\ i < half /\ h[i] < half =>
         y = [arrays |-> [heap |-> h, map |-> g], i |-> i + 1, si |-> si]
    /\ i < half /\ ~(h[i] < half) /\ g[si] < half /\ si + 1 < half =>
         y = [arrays |-> [heap |-> h, map |-> g], i |-> i, si |-> si + 1]
    /\ i < half /\ ~(h[i] < half) /\ ~(g[si] < half /\ si + 1 < half) =>
         y = [arrays |-> [heap |-> [h EXCEPT ![i] = si], map |-> [g EXCEPT ![si] = i]],
              i |-> i + 1, si |-> si]

LEMMA RoundIs ==
    ASSUME NEW n \in Nat, NEW half \in Nat, half <= n, NEW x \in Rounds(n, half),
           NEW h, h = x.arrays.heap, NEW g, g = x.arrays.map,
           NEW i, i = x.i, NEW si, si = x.si, NEW y, y = Renumbering(n, half)[x]
    PROVE  Round(y, x, h, g, i, si, n, half)
<1>1. x.arrays \in Arrays(n) /\ x.i \in 0..half /\ x.si \in Below(half)
  BY DEF Rounds
<1>2. /\ h \in [Below(n) -> Below(n)] /\ g \in [Below(n) -> Below(n)]
      /\ i \in Nat /\ i <= half /\ si \in Nat /\ si < half
  BY <1>1, BelowIs DEF Arrays
<1>3. x.arrays = [heap |-> h, map |-> g]
  BY <1>1 DEF Arrays
<1>4. x = [arrays |-> [heap |-> h, map |-> g], i |-> i, si |-> si]
  BY <1>3 DEF Rounds
<1>5. y = IF i = half THEN x
          ELSE IF h[i] < half THEN [x EXCEPT !.i = @ + 1]
          ELSE IF g[si] < half /\ si + 1 < half THEN [x EXCEPT !.si = @ + 1]
          ELSE [x EXCEPT !.i = @ + 1,
                         !.arrays = [heap |-> [h EXCEPT ![i] = si], map |-> [g EXCEPT ![si] = i]]]
  BY <1>3 DEF Renumbering, Rounds
<1>6. i < half <=> i # half
  BY <1>2
<1>7. i = half => y = x
  BY <1>5
<1>8. i < half /\ h[i] < half => y = [arrays |-> [heap |-> h, map |-> g], i |-> i + 1, si |-> si]
  BY <1>4, <1>5, <1>6
<1>9. i < half /\ ~(h[i] < half) /\ g[si] < half /\ si + 1 < half =>
        y = [arrays |-> [heap |-> h, map |-> g], i |-> i, si |-> si + 1]
  BY <1>4, <1>5, <1>6
<1>10. i < half /\ ~(h[i] < half) /\ ~(g[si] < half /\ si + 1 < half) =>
         y = [arrays |-> [heap |-> [h EXCEPT ![i] = si], map |-> [g EXCEPT ![si] = i]],
              i |-> i + 1, si |-> si]
  BY <1>4, <1>5, <1>6
<1>11. QED BY <1>2, <1>7, <1>8, <1>9, <1>10 DEF Round

\* Within the arrays, and what the loop has passed is as it should be.
Midway(x, n, half) ==
    /\ x \in Rounds(n, half)
    /\ HalfInverse(x.arrays.heap, x.arrays.map, half)
    /\ Passed(x.arrays.heap, x.arrays.map, x.i, x.si, half)

LEMMA RoundType ==
    ASSUME NEW n, NEW half, NEW h \in [Below(n) -> Below(n)], NEW g \in [Below(n) -> Below(n)],
           NEW i \in 0..half, NEW si \in Below(half), NEW y,
           y = [arrays |-> [heap |-> h, map |-> g], i |-> i, si |-> si]
    PROVE  /\ y \in Rounds(n, half) /\ y.arrays.heap = h /\ y.arrays.map = g
           /\ y.i = i /\ y.si = si
BY DEF Rounds, Arrays

LEMMA RenumberingEnds ==
    ASSUME NEW n \in Nat, NEW half \in Nat, half <= n, NEW q, q = Renumbering(n, half)
    PROVE  q \in [Rounds(n, half) -> Rounds(n, half)] /\ Acyclic(q)
<1> DEFINE left(x) == (half - x.i) + (half - x.si)
<1>1. ASSUME NEW x \in Rounds(n, half)
      PROVE  /\ q[x] \in Rounds(n, half) /\ left(x) \in Nat
             /\ q[x] = x \/ left(q[x]) < left(x)
  <2>1. PICK h : h = x.arrays.heap
    OBVIOUS
  <2>2. PICK g : g = x.arrays.map
    OBVIOUS
  <2>3. PICK i : i = x.i
    OBVIOUS
  <2>4. PICK si : si = x.si
    OBVIOUS
  <2>5. PICK y : y = q[x]
    OBVIOUS
  <2>6. /\ h \in [Below(n) -> Below(n)] /\ g \in [Below(n) -> Below(n)]
        /\ i \in Nat /\ i <= half /\ si \in Nat /\ si < half
        /\ i = half => y = x
        /\ i < half /\ h[i] < half =>
             y = [arrays |-> [heap |-> h, map |-> g], i |-> i + 1, si |-> si]
        /\ i < half /\ ~(h[i] < half) /\ g[si] < half /\ si + 1 < half =>
             y = [arrays |-> [heap |-> h, map |-> g], i |-> i, si |-> si + 1]
        /\ i < half /\ ~(h[i] < half) /\ ~(g[si] < half /\ si + 1 < half) =>
             y = [arrays |-> [heap |-> [h EXCEPT ![i] = si], map |-> [g EXCEPT ![si] = i]],
                  i |-> i + 1, si |-> si]
    <3>1. Round(y, x, h, g, i, si, n, half)
      BY <2>1, <2>2, <2>3, <2>4, <2>5, RoundIs
    <3>2. QED BY <3>1 DEF Round
  <2>7. left(x) = (half - i) + (half - si) /\ left(x) \in Nat
    BY <2>3, <2>4, <2>6
  <2>8. \A u \in 0..half, t \in Below(half) :
          y.i = u /\ y.si = t => left(y) = (half - u) + (half - t)
    OBVIOUS
  <2>9. CASE i = half
    BY <2>5, <2>6, <2>7, <2>9
  <2>10. CASE i < half /\ h[i] < half
    <3>1. y = [arrays |-> [heap |-> h, map |-> g], i |-> i + 1, si |-> si]
      BY <2>6, <2>10
    <3>2. i + 1 \in 0..half /\ si \in Below(half)
      BY <2>6, <2>10 DEF Below
    <3>3. y \in Rounds(n, half) /\ y.i = i + 1 /\ y.si = si
      BY <2>6, <3>1, <3>2, RoundType
    <3>4. left(y) = (half - (i + 1)) + (half - si)
      BY <2>8, <3>2, <3>3
    <3> HIDE DEF left
    <3>5. left(y) < left(x)
      BY <2>6, <2>7, <3>4
    <3>6. QED BY <2>5, <2>7, <3>3, <3>5
  <2>11. CASE i < half /\ ~(h[i] < half) /\ g[si] < half /\ si + 1 < half
    <3>1. y = [arrays |-> [heap |-> h, map |-> g], i |-> i, si |-> si + 1]
      BY <2>6, <2>11
    <3>2. i \in 0..half /\ si + 1 \in Below(half)
      BY <2>6, <2>11 DEF Below
    <3>3. y \in Rounds(n, half) /\ y.i = i /\ y.si = si + 1
      BY <2>6, <3>1, <3>2, RoundType
    <3>4. left(y) = (half - i) + (half - (si + 1))
      BY <2>8, <3>2, <3>3
    <3> HIDE DEF left
    <3>5. left(y) < left(x)
      BY <2>6, <2>7, <3>4
    <3>6. QED BY <2>5, <2>7, <3>3, <3>5
  <2>12. CASE i < half /\ ~(h[i] < half) /\ ~(g[si] < half /\ si + 1 < half)
    <3>1. PICK k : k = [h EXCEPT ![i] = si]
      OBVIOUS
    <3>2. PICK l : l = [g EXCEPT ![si] = i]
      OBVIOUS
    <3>3. y = [arrays |-> [heap |-> k, map |-> l], i |-> i + 1, si |-> si]
      BY <2>6, <2>12, <3>1, <3>2
    <3>4. i + 1 \in 0..half /\ si \in Below(half) /\ i \in Below(n) /\ si \in Below(n)
      BY <2>6, <2>12 DEF Below
    <3>5. k \in [Below(n) -> Below(n)] /\ l \in [Below(n) -> Below(n)]
      BY <2>6, <3>1, <3>2, <3>4
    <3>6. y \in Rounds(n, half) /\ y.i = i + 1 /\ y.si = si
      BY <3>3, <3>4, <3>5, RoundType
    <3>7. left(y) = (half - (i + 1)) + (half - si)
      BY <2>8, <3>4, <3>6
    <3> HIDE DEF left
    <3>8. left(y) < left(x)
      BY <2>6, <2>7, <3>7
    <3>9. QED BY <2>5, <2>7, <3>6, <3>8
  <2>13. QED BY <2>6, <2>9, <2>10, <2>11, <2>12
<1>2. q \in [Rounds(n, half) -> Rounds(n, half)]
  BY <1>1 DEF Renumbering, Rounds
<1> DEFINE mea == [x \in Rounds(n, half) |-> left(x)]
<1>3. mea \in [Rounds(n, half) -> Nat]
  BY <1>1
<1>4. \A x \in Rounds(n, half) : q[x] # x => mea[q[x]] < mea[x]
  BY <1>1
<1> HIDE DEF mea, left
<1>5. QED BY <1>2, <1>3, <1>4, MeasureEnds

LEMMA RenumberingKeeps ==
    ASSUME NEW n \in Nat, NEW half \in Nat, half <= n, NEW x, Midway(x, n, half),
           NEW y, y = Renumbering(n, half)[x]
    PROVE  Midway(y, n, half) /\ (y = x => x.i = half)
<1>1. x \in Rounds(n, half)
  BY DEF Midway
<1>2. PICK h : h = x.arrays.heap
  OBVIOUS
<1>3. PICK g : g = x.arrays.map
  OBVIOUS
<1>4. PICK i : i = x.i
  OBVIOUS
<1>5. PICK si : si = x.si
  OBVIOUS
<1>6. HalfInverse(h, g, half) /\ Passed(h, g, i, si, half)
  BY <1>2, <1>3, <1>4, <1>5 DEF Midway
<1>7. /\ h \in [Below(n) -> Below(n)] /\ g \in [Below(n) -> Below(n)]
      /\ i \in Nat /\ i <= half /\ si \in Nat /\ si < half
      /\ i = half => y = x
      /\ i < half /\ h[i] < half =>
           y = [arrays |-> [heap |-> h, map |-> g], i |-> i + 1, si |-> si]
      /\ i < half /\ ~(h[i] < half) /\ g[si] < half /\ si + 1 < half =>
           y = [arrays |-> [heap |-> h, map |-> g], i |-> i, si |-> si + 1]
      /\ i < half /\ ~(h[i] < half) /\ ~(g[si] < half /\ si + 1 < half) =>
           y = [arrays |-> [heap |-> [h EXCEPT ![i] = si], map |-> [g EXCEPT ![si] = i]],
                i |-> i + 1, si |-> si]
  <2>1. Round(y, x, h, g, i, si, n, half)
    BY <1>1, <1>2, <1>3, <1>4, <1>5, RoundIs
  <2>2. QED BY <2>1 DEF Round
<1>8. CASE i = half
  BY <1>4, <1>7, <1>8
<1>9. CASE i < half /\ h[i] < half
  <2>1. y = [arrays |-> [heap |-> h, map |-> g], i |-> i + 1, si |-> si]
    BY <1>7, <1>9
  <2>2. i + 1 \in 0..half /\ si \in Below(half)
    BY <1>7, <1>9 DEF Below
  <2>3. y \in Rounds(n, half) /\ y.arrays.heap = h /\ y.arrays.map = g /\ y.i = i + 1 /\ y.si = si
    BY <1>7, <2>1, <2>2, RoundType
  <2>4. Passed(h, g, i + 1, si, half)
    <3>1. \A j \in Below(half) : j < i + 1 => j = i \/ j < i
      BY <1>7 DEF Below
    <3>2. QED BY <1>6, <1>9, <3>1 DEF Passed
  <2>5. y # x
    BY <1>4, <1>7, <2>3
  <2>6. QED BY <1>6, <2>3, <2>4, <2>5 DEF Midway
<1>10. CASE i < half /\ ~(h[i] < half) /\ g[si] < half /\ si + 1 < half
  <2>1. y = [arrays |-> [heap |-> h, map |-> g], i |-> i, si |-> si + 1]
    BY <1>7, <1>10
  <2>2. i \in 0..half /\ si + 1 \in Below(half)
    BY <1>7, <1>10 DEF Below
  <2>3. y \in Rounds(n, half) /\ y.arrays.heap = h /\ y.arrays.map = g /\ y.i = i /\ y.si = si + 1
    BY <1>7, <2>1, <2>2, RoundType
  <2>4. Passed(h, g, i, si + 1, half)
    <3>1. \A j \in Below(half) : j < si + 1 => j = si \/ j < si
      BY <1>7 DEF Below
    <3>2. QED BY <1>6, <1>10, <3>1 DEF Passed
  <2>5. y # x
    BY <1>5, <1>7, <2>3
  <2>6. QED BY <1>6, <2>3, <2>4, <2>5 DEF Midway
<1>11. CASE i < half /\ ~(h[i] < half) /\ ~(g[si] < half /\ si + 1 < half)
  <2>1. PICK k : k = [h EXCEPT ![i] = si]
    OBVIOUS
  <2>2. PICK l : l = [g EXCEPT ![si] = i]
    OBVIOUS
  <2>3. y = [arrays |-> [heap |-> k, map |-> l], i |-> i + 1, si |-> si]
    BY <1>7, <1>11, <2>1, <2>2
  <2>4. i + 1 \in 0..half /\ si \in Below(half) /\ i \in Below(half)
    BY <1>7, <1>11 DEF Below
  <2>5. ~(g[si] < half)
    BY <1>6, <1>11, <2>4, OneIsFree
  <2>6. /\ k \in [Below(n) -> Below(n)] /\ l \in [Below(n) -> Below(n)]
        /\ HalfInverse(k, l, half) /\ Passed(k, l, i + 1, si, half)
    <3>1. Exchange(k, l, i, si, n, half)
      BY <1>6, <1>7, <1>11, <2>1, <2>2, <2>4, <2>5, HalfKept
    <3>2. QED BY <3>1 DEF Exchange
  <2>7. y \in Rounds(n, half) /\ y.arrays.heap = k /\ y.arrays.map = l /\ y.i = i + 1 /\ y.si = si
    BY <2>3, <2>4, <2>6, RoundType
  <2>8. y # x
    BY <1>4, <1>7, <2>7
  <2>9. QED BY <2>6, <2>7, <2>8 DEF Midway
<1>12. QED BY <1>7, <1>8, <1>9, <1>10, <1>11

\* After it, the first half of each array is inverse to that of the other.
LEMMA RenumberEnds ==
    ASSUME NEW n \in Nat, NEW half \in Nat \ {0}, half <= n, NEW a, Inverses(a, n),
           NEW b, b = Renumbered(a, n, half)
    PROVE  Inverses([heap |-> Cut(b.heap, half), map |-> Cut(b.map, half)], half)
<1>1. PICK q : q = Renumbering(n, half)
  OBVIOUS
<1>2. q \in [Rounds(n, half) -> Rounds(n, half)] /\ Acyclic(q)
  BY <1>1, RenumberingEnds
<1>3. PICK f : f = Looped(q)
  OBVIOUS
<1>4. Leads(f, q)
  BY <1>2, <1>3, LoopedLeads
<1>5. PICK x : x = [arrays |-> a, i |-> 0, si |-> 0]
  OBVIOUS
<1>6. Midway(x, n, half)
  <2>1. a \in Arrays(n) /\ 0 \in 0..half /\ 0 \in Below(half)
    BY DEF Inverses, Below
  <2>2. x \in Rounds(n, half) /\ x.arrays = a /\ x.i = 0 /\ x.si = 0
    BY <1>5, <2>1 DEF Rounds
  <2>3. HalfInverse(a.heap, a.map, half)
    BY HalfStarts
  <2>4. Passed(a.heap, a.map, 0, 0, half)
    BY BelowIs DEF Passed
  <2>5. QED BY <2>2, <2>3, <2>4 DEF Midway
<1> DEFINE J == {z \in Rounds(n, half) : Midway(z, n, half)}
<1>7. \A z \in J : q[z] \in J /\ (q[z] = z => z.i = half)
  <2> SUFFICES ASSUME NEW z \in J PROVE q[z] \in J /\ (q[z] = z => z.i = half)
    OBVIOUS
  <2>1. PICK w : w = q[z]
    OBVIOUS
  <2>2. Midway(w, n, half) /\ (w = z => z.i = half)
    BY <1>1, <2>1, RenumberingKeeps
  <2>3. QED BY <1>2, <2>1, <2>2
<1>8. J \subseteq Rounds(n, half) /\ x \in J
  BY <1>6 DEF Midway
<1>9. \A z \in J : Midway(z, n, half)
  OBVIOUS
<1> HIDE DEF J
<1>10. f[x] \in J /\ q[f[x]] = f[x]
  BY <1>2, <1>4, <1>7, <1>8, LoopKeeps
<1>11. PICK y : y = f[x]
  OBVIOUS
<1>12. Midway(y, n, half) /\ y.i = half
  BY <1>7, <1>9, <1>10, <1>11
<1>13. b = y.arrays
  BY <1>1, <1>3, <1>5, <1>11 DEF Renumbered
<1>14. b.heap \in [Below(n) -> Below(n)] /\ b.map \in [Below(n) -> Below(n)]
       /\ HalfInverse(b.heap, b.map, half) /\ Passed(b.heap, b.map, half, y.si, half)
  BY <1>12, <1>13 DEF Midway, Rounds, Arrays
<1>15. QED BY <1>14, HalfEnds

-----------------------------------------------------------------------------
(* The state of the heap: n places, the m elements of st at the first m    *)
(* positions of the arrays a, the keys in km.                              *)

Matched(n, m, a, st, km) ==
    /\ n \in Nat \ {0} /\ m \in Nat /\ m <= n
    /\ Inverses(a, n)
    /\ st \in [Below(n) -> Element \cup {Nothing}]
    /\ \A i \in Below(n) : st[i] # Nothing <=> i \in Slots(a, m)
    /\ DOMAIN km = {st[i].key : i \in Slots(a, m)}
    /\ \A i \in Slots(a, m) : km[st[i].key] = i

Fit(n, m, a, st, km) == Matched(n, m, a, st, km) /\ InOrder(Values(a, m, st))

Held(a, m, st) == {st[i] : i \in Slots(a, m)}

LEMMA ElementIs == \A e \in Element : e # Nothing /\ e.value \in Int
<1> SUFFICES ASSUME NEW e \in Element PROVE e # Nothing /\ e.value \in Int
  OBVIOUS
<1>1. DOMAIN e = {"key", "value"} /\ e.value \in Int
  BY ElementAssumption
<1>2. DOMAIN Nothing = {"key"}
  BY DEF Nothing
<1>3. QED BY <1>1, <1>2

LEMMA MatchedElements ==
    ASSUME NEW n, NEW m, NEW a, NEW st, NEW km, Matched(n, m, a, st, km)
    PROVE  /\ Slots(a, m) \subseteq Below(n) /\ Below(m) \subseteq Below(n)
           /\ \A i \in Slots(a, m) : st[i] \in Element
           /\ Valued(Slots(a, m), st)
<1>1. n \in Nat /\ m \in Nat /\ m <= n /\ a.heap \in [Below(n) -> Below(n)]
  BY DEF Matched, Inverses, Arrays
<1>2. Below(m) \subseteq Below(n)
  BY <1>1, BelowIs
<1>3. Slots(a, m) \subseteq Below(n)
  BY <1>1, <1>2 DEF Slots
<1>4. \A i \in Slots(a, m) : st[i] \in Element
  BY <1>3 DEF Matched
<1>5. QED BY <1>2, <1>3, <1>4, ElementIs DEF Valued

\* The invariant that is inductive.
HInv == reserved \in Nat \ {0} /\ HeapSound

Now(n, m, a, st, km) ==
    n = reserved /\ m = size /\ a = [heap |-> heap, map |-> map] /\ st = store /\ km = keymap

held == {store[i] : i \in Occupied}

Means ==
    \A n, m, a, st, km : Now(n, m, a, st, km) =>
        /\ HInv <=> Fit(n, m, a, st, km) /\ m < n
        /\ Occupied = Slots(a, m)
        /\ held = Held(a, m, st)

LEMMA FitMeans == Means
<1> SUFFICES ASSUME NEW n, NEW m, NEW a, NEW st, NEW km, Now(n, m, a, st, km)
             PROVE  /\ HInv <=> Fit(n, m, a, st, km) /\ m < n
                    /\ Occupied = Slots(a, m)
                    /\ held = Held(a, m, st)
  BY DEF Means
<1>1. n = reserved /\ m = size /\ a = [heap |-> heap, map |-> map] /\ st = store /\ km = keymap
  BY DEF Now
<1>2. a.heap = heap /\ a.map = map
  BY <1>1
<1>3. Occupied = Slots(a, m)
  BY <1>1, <1>2 DEF Occupied, Slots
<1>4. held = Held(a, m, st)
  BY <1>1, <1>3 DEF held, Held
<1>5. reserved \in Nat \ {0} /\ MapsAgree <=> Matched(n, m, a, st, km) /\ m < n
  <2>1. Inverses(a, n) <=> /\ heap \in [Below(n) -> Below(n)] /\ map \in [Below(n) -> Below(n)]
                           /\ \A i \in Below(n) : map[heap[i]] = i /\ heap[map[i]] = i
    BY <1>1, <1>2 DEF Inverses, Arrays
  <2>2. ASSUME reserved \in Nat \ {0}, MapsAgree PROVE Matched(n, m, a, st, km) /\ m < n
    <3>1. m \in Nat /\ m < n /\ m <= n
      BY <1>1, <2>2 DEF MapsAgree
    <3>2. Inverses(a, n)
      BY <1>1, <2>1, <2>2 DEF MapsAgree
    <3>3. QED BY <1>1, <1>3, <2>2, <3>1, <3>2 DEF MapsAgree, Matched
  <2>3. ASSUME Matched(n, m, a, st, km), m < n PROVE reserved \in Nat \ {0} /\ MapsAgree
    <3>1. Slots(a, m) \subseteq Below(n)
      BY <2>3, MatchedElements
    <3>2. {i \in Below(n) : st[i] # Nothing} = Slots(a, m)
      BY <2>3, <3>1 DEF Matched
    <3>3. QED BY <1>1, <1>3, <2>1, <2>3, <3>2 DEF MapsAgree, Matched
  <2>4. QED BY <2>2, <2>3
<1>6. ASSUME Matched(n, m, a, st, km) PROVE HeapOrder <=> InOrder(Values(a, m, st))
  <2>1. PICK v : v = Values(a, m, st)
    OBVIOUS
  <2>2. v \in [Below(m) -> Int] /\ \A j \in Below(m) : v[j] = store[heap[j]].value
    BY <1>1, <1>2, <1>6, <2>1, MatchedElements, ValuesType DEF Matched
  <2>3. ASSUME NEW j \in Below(m) \ {0}
        PROVE  ~Less(store[heap[j]], store[heap[Parent(j)]]) <=> v[Parent(j)] <= v[j]
    <3>1. Parent(j) \in Below(m)
      BY <1>6, ParentBelow DEF Matched
    <3>2. v[j] \in Int /\ v[Parent(j)] \in Int
      BY <2>2, <3>1
    <3>3. QED BY <2>2, <3>1, <3>2 DEF Less
  <2>4. QED BY <1>1, <2>1, <2>2, <2>3 DEF HeapOrder, InOrder
<1>7. QED BY <1>3, <1>4, <1>5, <1>6 DEF HInv, HeapSound, Fit

\* The same elements at the same positions, perhaps in other slots.
Carried(l, m, b, su, kn, a, st, km) ==
    /\ l \in Nat \ {0} /\ m <= l /\ Inverses(b, l)
    /\ su \in [Below(l) -> Element \cup {Nothing}]
    /\ \A i \in Below(m) : su[b.heap[i]] = st[a.heap[i]]
    /\ \A i \in Below(l) : i \notin Slots(b, m) => su[i] = Nothing
    /\ DOMAIN kn = DOMAIN km
    /\ \A i \in Below(m) : kn[st[a.heap[i]].key] = b.heap[i]

LEMMA FitMoved ==
    ASSUME NEW n, NEW m, NEW a, NEW st, NEW km, Fit(n, m, a, st, km),
           NEW l, NEW b, NEW su, NEW kn, Carried(l, m, b, su, kn, a, st, km)
    PROVE  Fit(l, m, b, su, kn) /\ Held(b, m, su) = Held(a, m, st)
<1>0. /\ l \in Nat \ {0} /\ m <= l /\ Inverses(b, l)
      /\ su \in [Below(l) -> Element \cup {Nothing}]
      /\ \A i \in Below(m) : su[b.heap[i]] = st[a.heap[i]]
      /\ \A i \in Below(l) : i \notin Slots(b, m) => su[i] = Nothing
      /\ DOMAIN kn = DOMAIN km
      /\ \A i \in Below(m) : kn[st[a.heap[i]].key] = b.heap[i]
  BY DEF Carried
<1>1. /\ m \in Nat /\ Slots(a, m) \subseteq Below(n)
      /\ \A i \in Slots(a, m) : st[i] \in Element
      /\ DOMAIN km = {st[i].key : i \in Slots(a, m)}
  <2>1. Matched(n, m, a, st, km)
    BY DEF Fit
  <2>2. QED BY <2>1, MatchedElements DEF Matched
<1>2. \A i \in Below(m) : st[a.heap[i]] \in Element /\ st[a.heap[i]] # Nothing
  BY <1>1, ElementIs DEF Slots
<1>3. \A i \in Below(l) : su[i] # Nothing <=> i \in Slots(b, m)
  BY <1>0, <1>2 DEF Slots
<1>4. DOMAIN kn = {su[i].key : i \in Slots(b, m)}
  <2>1. {st[i].key : i \in Slots(a, m)} = {st[a.heap[i]].key : i \in Below(m)}
    BY DEF Slots
  <2>2. {su[i].key : i \in Slots(b, m)} = {su[b.heap[i]].key : i \in Below(m)}
    BY DEF Slots
  <2>3. {su[b.heap[i]].key : i \in Below(m)} = {st[a.heap[i]].key : i \in Below(m)}
    BY <1>0
  <2>4. QED BY <1>0, <1>1, <2>1, <2>2, <2>3
<1>5. \A i \in Slots(b, m) : kn[su[i].key] = i
  BY <1>0 DEF Slots
<1>6. Matched(l, m, b, su, kn)
  BY <1>0, <1>1, <1>3, <1>4, <1>5 DEF Matched
<1>7. Values(b, m, su) = Values(a, m, st)
  BY <1>0 DEF Values
<1>8. Held(b, m, su) = Held(a, m, st)
  BY <1>0 DEF Held, Slots
<1>9. QED BY <1>6, <1>7, <1>8 DEF Fit

\* The state that an operation leaves.
Packed(n, m, a, st, km) ==
    [size |-> m, reserved |-> n, heap |-> a.heap, map |-> a.map, store |-> st, keymap |-> km]

\* It is sound, and holds H.
Outcome(t, H) == \E n, m, a, st, km :
    /\ t = Packed(n, m, a, st, km) /\ a = [heap |-> a.heap, map |-> a.map]
    /\ Fit(n, m, a, st, km) /\ m < n
    /\ Held(a, m, st) = H

LEMMA ArraysPair ==
    ASSUME NEW n, NEW a, Inverses(a, n)
    PROVE  a = [heap |-> a.heap, map |-> a.map]
BY DEF Inverses, Arrays

\* It grows when it is full.
LEMMA GrowKeeps ==
    ASSUME NEW n, NEW m, NEW a, NEW st, NEW km, Fit(n, m, a, st, km)
    PROVE  Outcome(Grown(Packed(n, m, a, st, km)), Held(a, m, st))
<1>1. PICK s : s = Packed(n, m, a, st, km)
  OBVIOUS
<1>2. PICK t : t = Grown(s)
  OBVIOUS
<1>3. /\ n \in Nat \ {0} /\ m \in Nat /\ m <= n /\ Inverses(a, n)
      /\ st \in [Below(n) -> Element \cup {Nothing}]
      /\ Slots(a, m) \subseteq Below(n) /\ Below(m) \subseteq Below(n)
      /\ \A i \in Slots(a, m) : km[st[i].key] = i
      /\ \A i \in Below(n) : st[i] # Nothing <=> i \in Slots(a, m)
  BY MatchedElements DEF Fit, Matched
<1>4. CASE m < n
  <2>1. t = s
    BY <1>1, <1>2, <1>4 DEF Grown, Packed
  <2>2. QED BY <1>1, <1>2, <1>3, <1>4, <2>1, ArraysPair DEF Outcome
<1>5. CASE ~(m < n)
  <2> DEFINE old == Below(n)
             new == Below(2 * n)
             h == [i \in new |-> IF i \in old THEN a.heap[i] ELSE i]
             g == [i \in new |-> IF i \in old THEN a.map[i] ELSE i]
             b == [heap |-> h, map |-> g]
             su == [i \in new |-> IF i \in old THEN st[i] ELSE Nothing]
  <2>1. t = [size |-> m, reserved |-> 2 * n, heap |-> h, map |-> g, store |-> su, keymap |-> km]
    BY <1>1, <1>2, <1>5 DEF Grown, Packed
  <2>2. t = Packed(2 * n, m, b, su, km) /\ b = [heap |-> b.heap, map |-> b.map]
    BY <2>1 DEF Packed
  <2>3. old \subseteq new /\ 2 * n \in Nat \ {0} /\ m < 2 * n /\ m <= 2 * n
    BY <1>3, <1>5 DEF Below
  <2>4. Inverses(b, 2 * n)
    <3>1. /\ a.heap \in [old -> old] /\ a.map \in [old -> old]
          /\ \A i \in old : a.map[a.heap[i]] = i /\ a.heap[a.map[i]] = i
      BY <1>3 DEF Inverses, Arrays
    <3>2. h \in [new -> new] /\ g \in [new -> new]
      BY <2>3, <3>1
    <3>3. \A i \in new : g[h[i]] = i /\ h[g[i]] = i
      BY <2>3, <3>1
    <3>4. QED BY <3>2, <3>3 DEF Inverses, Arrays
  <2>5. su \in [new -> Element \cup {Nothing}]
    BY <1>3
  <2>6. \A i \in Below(m) : h[i] = a.heap[i] /\ a.heap[i] \in Slots(a, m) /\ a.heap[i] \in old
    BY <1>3, <2>3 DEF Slots
  <2>7. Slots(b, m) = Slots(a, m)
    BY <2>6 DEF Slots
  <2>8. \A i \in Below(m) : su[b.heap[i]] = st[a.heap[i]]
    BY <2>3, <2>6
  <2>9. \A i \in new : i \notin Slots(b, m) => su[i] = Nothing
    BY <1>3, <2>7
  <2>10. \A i \in Below(m) : km[st[a.heap[i]].key] = b.heap[i]
    BY <1>3, <2>6
  <2> HIDE DEF b, su
  <2>11. Fit(2 * n, m, b, su, km) /\ Held(b, m, su) = Held(a, m, st)
    <3>1. Carried(2 * n, m, b, su, km, a, st, km)
      BY <2>3, <2>4, <2>5, <2>8, <2>9, <2>10 DEF Carried
    <3>2. QED BY <3>1, FitMoved
  <2>12. QED BY <1>1, <1>2, <2>2, <2>3, <2>11 DEF Outcome
<1>6. QED BY <1>4, <1>5

\* It shrinks when it is almost empty.
LEMMA ShrinkKeeps ==
    ASSUME NEW n, NEW m, NEW a, NEW st, NEW km, Fit(n, m, a, st, km), m < n
    PROVE  Outcome(Shrunk(Packed(n, m, a, st, km)), Held(a, m, st))
<1>1. PICK s : s = Packed(n, m, a, st, km)
  OBVIOUS
<1>2. PICK t : t = Shrunk(s)
  OBVIOUS
<1>3. /\ n \in Nat \ {0} /\ m \in Nat /\ Inverses(a, n)
      /\ st \in [Below(n) -> Element \cup {Nothing}]
      /\ Slots(a, m) \subseteq Below(n) /\ Below(m) \subseteq Below(n)
      /\ DOMAIN km = {st[i].key : i \in Slots(a, m)}
      /\ \A i \in Slots(a, m) : km[st[i].key] = i /\ st[i] \in Element
  BY MatchedElements DEF Fit, Matched
<1>4. /\ s.size = m /\ s.reserved = n /\ s.heap = a.heap /\ s.map = a.map
      /\ s.store = st /\ s.keymap = km
  BY <1>1 DEF Packed
<1>5. CASE 4 * m >= n \/ n <= ShrinkAbove
  <2>1. t = s
    BY <1>2, <1>4, <1>5 DEF Shrunk
  <2>2. QED BY <1>1, <1>2, <1>3, <2>1, ArraysPair DEF Outcome
<1>6. CASE ~(4 * m >= n \/ n <= ShrinkAbove)
  <2>1. PICK half : half = n \div 2
    OBVIOUS
  <2>2. half \in Nat \ {0} /\ half <= n /\ m < half /\ m <= half
    BY <1>3, <1>6, <2>1, SizesAssumption
  <2>3. PICK e : e = Renumbered(a, n, half)
    OBVIOUS
  <2>4. PICK b : b = [heap |-> Cut(e.heap, half), map |-> Cut(e.map, half)]
    OBVIOUS
  <2>5. Inverses(b, half)
    BY <1>3, <2>2, <2>3, <2>4, RenumberEnds
  <2>6. PICK su : su = Restored(s, e.map, half)
    OBVIOUS
  <2>7. PICK kn : kn = Rekeyed(s, e.heap)
    OBVIOUS
  <2>8. t = Packed(half, m, b, su, kn)
    <3>1. a = [heap |-> s.heap, map |-> s.map]
      BY <1>3, <1>4, ArraysPair
    <3>2. e = Renumbered([heap |-> s.heap, map |-> s.map], s.reserved, s.reserved \div 2)
      BY <1>4, <2>1, <2>3, <3>1
    <3>3. t = [size |-> s.size, reserved |-> half,
               heap |-> Cut(e.heap, half), map |-> Cut(e.map, half),
               store |-> Restored(s, e.map, half), keymap |-> Rekeyed(s, e.heap)]
      BY <1>2, <1>4, <1>6, <2>1, <3>2 DEF Shrunk
    <3>4. QED BY <1>4, <2>4, <2>6, <2>7, <3>3 DEF Packed
  <2>9. /\ b.heap \in [Below(half) -> Below(half)] /\ b.map \in [Below(half) -> Below(half)]
        /\ \A i \in Below(half) : b.map[b.heap[i]] = i /\ b.heap[b.map[i]] = i
        /\ \A i \in Below(half) : b.heap[i] = e.heap[i] /\ b.map[i] = e.map[i]
    BY <2>4, <2>5 DEF Inverses, Arrays, Cut
  <2>10. /\ a.heap \in [Below(n) -> Below(n)] /\ a.map \in [Below(n) -> Below(n)]
         /\ \A i \in Below(n) : a.map[a.heap[i]] = i
    BY <1>3 DEF Inverses, Arrays
  <2>11. Below(m) \subseteq Below(half) /\ \A i \in Below(half) : i < m <=> i \in Below(m)
    BY <1>3, <2>2, BelowIs
  <2>12. \A i \in Below(m) : a.heap[i] \in Slots(a, m)
    BY DEF Slots
  <2>13. su = [i \in Below(half) |-> IF b.map[i] < m THEN st[a.heap[b.map[i]]] ELSE Nothing]
    BY <1>4, <2>6, <2>9 DEF Restored
  <2>14. su \in [Below(half) -> Element \cup {Nothing}]
    BY <1>3, <2>9, <2>11, <2>12, <2>13
  <2>15. \A i \in Below(m) : su[b.heap[i]] = st[a.heap[i]]
    BY <2>9, <2>11, <2>13
  <2>16. \A i \in Below(half) : i \notin Slots(b, m) => su[i] = Nothing
    BY <2>9, <2>11, <2>13 DEF Slots
  <2>17. kn = [k \in DOMAIN km |-> e.heap[a.map[km[k]]]]
    BY <1>4, <2>7 DEF Rekeyed
  <2>18. \A i \in Below(m) : kn[st[a.heap[i]].key] = b.heap[i]
    <3> SUFFICES ASSUME NEW i \in Below(m) PROVE kn[st[a.heap[i]].key] = b.heap[i]
      OBVIOUS
    <3>1. st[a.heap[i]].key \in DOMAIN km /\ km[st[a.heap[i]].key] = a.heap[i]
      BY <1>3, <2>12
    <3>2. a.map[a.heap[i]] = i
      BY <1>3, <2>10
    <3>3. e.heap[i] = b.heap[i]
      BY <2>9, <2>11
    <3>4. QED BY <2>17, <3>1, <3>2, <3>3
  <2>19. Fit(half, m, b, su, kn) /\ Held(b, m, su) = Held(a, m, st)
    <3>1. Carried(half, m, b, su, kn, a, st, km)
      BY <2>2, <2>5, <2>14, <2>15, <2>16, <2>17, <2>18 DEF Carried
    <3>2. QED BY <3>1, FitMoved
  <2>20. QED BY <1>1, <1>2, <2>2, <2>5, <2>8, <2>19, ArraysPair DEF Outcome
<1>7. QED BY <1>5, <1>6

\* The state that follows.
LEMMA BecomeOutcome ==
    ASSUME NEW t, NEW H, Outcome(t, H), Become(t)
    PROVE  HInv' /\ held' = H
<1>1. PICK n, m, a, st, km :
        /\ t = Packed(n, m, a, st, km) /\ a = [heap |-> a.heap, map |-> a.map]
        /\ Fit(n, m, a, st, km) /\ m < n
        /\ Held(a, m, st) = H
  BY DEF Outcome
<1>2. Now(n, m, a, st, km)'
  BY <1>1 DEF Now, Become, Packed
<1>3. Means'
  BY FitMeans, PTL
<1>4. QED BY <1>1, <1>2, <1>3 DEF Means

-----------------------------------------------------------------------------
(* An element in, an element out.                                          *)

\* Which slots are in use does not depend on the order of the positions.
LEMMA MatchedAgain ==
    ASSUME NEW n, NEW m, NEW a, NEW st, NEW km, Matched(n, m, a, st, km),
           NEW b, Inverses(b, n), Slots(b, m) = Slots(a, m)
    PROVE  Matched(n, m, b, st, km) /\ Held(b, m, st) = Held(a, m, st)
BY DEF Matched, Held

LEMMA SlotsSplit ==
    ASSUME NEW n \in Nat, NEW l \in Nat, l < n, NEW a, Inverses(a, n)
    PROVE  /\ a.heap[l] \in Below(n) /\ a.heap[l] \notin Slots(a, l)
           /\ Slots(a, l + 1) = Slots(a, l) \cup {a.heap[l]}
<1>1. l \in Below(n) /\ Below(l) \subseteq Below(n) /\ l \notin Below(l)
  BY DEF Below
<1>2. Below(l + 1) = Below(l) \cup {l}
  BY DEF Below
<1>3. a.heap[l] \in Below(n) /\ a.map[a.heap[l]] = l /\ \A i \in Below(l) : a.map[a.heap[i]] = i
  BY <1>1 DEF Inverses, Arrays
<1>4. a.heap[l] \notin Slots(a, l)
  BY <1>1, <1>3 DEF Slots
<1>5. Slots(a, l + 1) = Slots(a, l) \cup {a.heap[l]}
  BY <1>2 DEF Slots
<1>6. QED BY <1>3, <1>4, <1>5

Keyed(km, e, slot) == [k \in DOMAIN km \cup {e.key} |-> IF k = e.key THEN slot ELSE km[k]]
Filled(st, slot, e) == [st EXCEPT ![slot] = e]

\* The new element is in the slot of the first free position.
LEMMA MatchedWith ==
    ASSUME NEW n, NEW m, NEW a, NEW st, NEW km, Matched(n, m, a, st, km), m < n,
           NEW e \in Element, e.key \notin DOMAIN km, NEW slot, slot = a.heap[m],
           NEW su, su = Filled(st, slot, e), NEW kn, kn = Keyed(km, e, slot)
    PROVE  /\ Matched(n, m + 1, a, su, kn)
           /\ Held(a, m + 1, su) = Held(a, m, st) \cup {e} /\ e \notin Held(a, m, st)
           /\ \A i \in Slots(a, m) : su[i] = st[i]
<1>1. /\ n \in Nat \ {0} /\ m \in Nat /\ Inverses(a, n)
      /\ st \in [Below(n) -> Element \cup {Nothing}]
      /\ \A i \in Below(n) : st[i] # Nothing <=> i \in Slots(a, m)
      /\ DOMAIN km = {st[i].key : i \in Slots(a, m)}
      /\ \A i \in Slots(a, m) : km[st[i].key] = i
  BY DEF Matched
<1>2. slot \in Below(n) /\ slot \notin Slots(a, m) /\ Slots(a, m + 1) = Slots(a, m) \cup {slot}
  BY <1>1, SlotsSplit
<1>3. Slots(a, m) \subseteq Below(n)
  BY MatchedElements
<1>4. /\ su \in [Below(n) -> Element \cup {Nothing}] /\ su[slot] = e
      /\ \A i \in Below(n) : i # slot => su[i] = st[i]
  BY <1>1, <1>2 DEF Filled
<1>5. \A i \in Slots(a, m) : su[i] = st[i]
  BY <1>2, <1>3, <1>4
<1>6. \A i \in Below(n) : su[i] # Nothing <=> i \in Slots(a, m + 1)
  BY <1>1, <1>2, <1>4, ElementIs
<1>7. DOMAIN kn = DOMAIN km \cup {e.key} /\ kn[e.key] = slot
      /\ \A k \in DOMAIN km : kn[k] = km[k]
  BY DEF Keyed
<1>8. DOMAIN kn = {su[i].key : i \in Slots(a, m + 1)}
  BY <1>1, <1>2, <1>4, <1>5, <1>7
<1>9. \A i \in Slots(a, m + 1) : kn[su[i].key] = i
  BY <1>1, <1>2, <1>4, <1>5, <1>7
<1>10. Matched(n, m + 1, a, su, kn)
  BY <1>1, <1>4, <1>6, <1>8, <1>9 DEF Matched
<1>11. Held(a, m + 1, su) = Held(a, m, st) \cup {e}
  BY <1>2, <1>4, <1>5 DEF Held
<1>12. e \notin Held(a, m, st)
  BY <1>1 DEF Held
<1>13. QED BY <1>5, <1>10, <1>11, <1>12

LEMMA InsertKeeps ==
    ASSUME NEW n, n = reserved, NEW m, NEW a, NEW st, NEW km, Fit(n, m, a, st, km), m < n,
           NEW e \in Element, e.key \notin DOMAIN km, NEW slot, slot = a.heap[m],
           NEW su, su = Filled(st, slot, e), NEW kn, kn = Keyed(km, e, slot),
           NEW b, b = Up(a, m, su).arrays
    PROVE  /\ Fit(n, m + 1, b, su, kn)
           /\ Held(b, m + 1, su) = Held(a, m, st) \cup {e} /\ e \notin Held(a, m, st)
<1>1. Matched(n, m, a, st, km) /\ InOrder(Values(a, m, st))
  BY DEF Fit
<1>2. n \in Nat /\ m \in Nat /\ m + 1 \in Nat /\ m + 1 <= n /\ Inverses(a, n)
  BY <1>1 DEF Matched
<1>3. /\ Matched(n, m + 1, a, su, kn)
      /\ Held(a, m + 1, su) = Held(a, m, st) \cup {e} /\ e \notin Held(a, m, st)
      /\ \A i \in Slots(a, m) : su[i] = st[i]
  BY <1>1, MatchedWith
<1>4. PICK S : S = Slots(a, m + 1)
  OBVIOUS
<1>5. Valued(S, su)
  BY <1>3, <1>4, MatchedElements
<1>6. PICK v : v = Values(a, m, st)
  OBVIOUS
<1>7. PICK w : w = Values(a, m + 1, su)
  OBVIOUS
<1>8. v \in [Below(m) -> Int] /\ w \in [Below(m + 1) -> Int] /\ \A j \in Below(m) : w[j] = v[j]
  <2>1. v \in [Below(m) -> Int] /\ \A j \in Below(m) : v[j] = st[a.heap[j]].value
    BY <1>1, <1>2, <1>6, MatchedElements, ValuesType
  <2>2. w \in [Below(m + 1) -> Int] /\ \A j \in Below(m + 1) : w[j] = su[a.heap[j]].value
    BY <1>2, <1>4, <1>5, <1>7, ValuesType
  <2>3. \A j \in Below(m) : j \in Below(m + 1) /\ a.heap[j] \in Slots(a, m)
    BY <1>2 DEF Below, Slots
  <2>4. QED BY <1>3, <2>1, <2>2, <2>3
<1>9. Hole(w, m) /\ Kids(w, m)
  <2>1. \A j \in Below(m + 1) \ {0} : Parent(j) # m
    BY <1>2 DEF Below, Parent
  <2>2. \A j \in Below(m + 1) \ {0} : j # m => j \in Below(m) \ {0} /\ Parent(j) \in Below(m)
    BY <1>2 DEF Below, Parent
  <2>3. \A j \in Below(m) \ {0} : v[Parent(j)] <= v[j]
    BY <1>1, <1>6, <1>8 DEF InOrder
  <2>4. \A j \in Below(m + 1) \ {0} : j # m => w[Parent(j)] <= w[j]
    BY <1>8, <2>2, <2>3
  <2>5. QED BY <1>8, <2>1, <2>4 DEF Hole, Kids
<1>10. PICK x : x = [arrays |-> a, at |-> m]
  OBVIOUS
<1>11. x \in Places(n) /\ x.arrays = a /\ x.at = m
  BY <1>2, <1>10, PlaceIs DEF Inverses, Below
<1>12. AtHole(x, n, m + 1, su, S) /\ Kids(Values(x.arrays, m + 1, su), x.at)
  BY <1>2, <1>4, <1>7, <1>9, <1>11 DEF AtHole, Below
<1>13. PICK y : y = Looped(Rising(n, su))[x]
  OBVIOUS
<1>14. /\ AtHole(y, n, m + 1, su, S) /\ Self(Values(y.arrays, m + 1, su), y.at)
       /\ Kids(Values(y.arrays, m + 1, su), y.at)
  BY <1>2, <1>5, <1>11, <1>12, <1>13, UpEnds
<1>15. b = y.arrays
  BY <1>10, <1>13 DEF Up
<1>16. Inverses(b, n) /\ Slots(b, m + 1) = S /\ Hole(Values(b, m + 1, su), y.at)
  BY <1>14, <1>15 DEF AtHole
<1>17. InOrder(Values(b, m + 1, su))
  <2>1. Values(b, m + 1, su) \in [Below(m + 1) -> Int]
    BY <1>2, <1>5, <1>16, ValuesType
  <2>2. QED BY <1>2, <1>14, <1>15, <1>16, <2>1, HoleFilled
<1>18. Matched(n, m + 1, b, su, kn) /\ Held(b, m + 1, su) = Held(a, m + 1, su)
  BY <1>3, <1>4, <1>16, MatchedAgain
<1>19. QED BY <1>3, <1>17, <1>18 DEF Fit

Unkeyed(km, k) == [j \in DOMAIN km \ {k} |-> km[j]]

\* Without the element at the last position.
LEMMA MatchedWithout ==
    ASSUME NEW n, NEW l \in Nat, NEW a, NEW st, NEW km, Matched(n, l + 1, a, st, km),
           NEW slot, slot = a.heap[l], NEW su, su = Filled(st, slot, Nothing),
           NEW kn, kn = Unkeyed(km, st[slot].key)
    PROVE  /\ Matched(n, l, a, su, kn)
           /\ st[slot] \in Held(a, l + 1, st) /\ Held(a, l, su) = Held(a, l + 1, st) \ {st[slot]}
           /\ \A i \in Slots(a, l) : su[i] = st[i]
<1>1. /\ n \in Nat \ {0} /\ l < n /\ Inverses(a, n)
      /\ st \in [Below(n) -> Element \cup {Nothing}]
      /\ \A i \in Below(n) : st[i] # Nothing <=> i \in Slots(a, l + 1)
      /\ DOMAIN km = {st[i].key : i \in Slots(a, l + 1)}
      /\ \A i \in Slots(a, l + 1) : km[st[i].key] = i
  BY DEF Matched
<1>2. /\ slot \in Below(n) /\ slot \notin Slots(a, l)
      /\ Slots(a, l + 1) = Slots(a, l) \cup {slot}
  BY <1>1, SlotsSplit
<1>3. Slots(a, l + 1) \subseteq Below(n)
  BY MatchedElements
<1>4. /\ su \in [Below(n) -> Element \cup {Nothing}] /\ su[slot] = Nothing
      /\ \A i \in Below(n) : i # slot => su[i] = st[i]
  BY <1>1, <1>2 DEF Filled
<1>5. \A i \in Slots(a, l) : su[i] = st[i]
  BY <1>2, <1>3, <1>4
<1>6. \A i \in Below(n) : su[i] # Nothing <=> i \in Slots(a, l)
  BY <1>1, <1>2, <1>4
<1>7. \A i \in Slots(a, l) : st[i].key # st[slot].key
  BY <1>1, <1>2
<1>8. DOMAIN kn = DOMAIN km \ {st[slot].key} /\ \A k \in DOMAIN kn : kn[k] = km[k]
  BY DEF Unkeyed
<1>9. DOMAIN kn = {su[i].key : i \in Slots(a, l)}
  <2>1. {su[i].key : i \in Slots(a, l)} = {st[i].key : i \in Slots(a, l)}
    BY <1>5
  <2>2. DOMAIN km = {st[i].key : i \in Slots(a, l)} \cup {st[slot].key}
    BY <1>1, <1>2
  <2>3. {st[i].key : i \in Slots(a, l)} \ {st[slot].key} = {st[i].key : i \in Slots(a, l)}
    BY <1>7
  <2>4. QED BY <1>8, <2>1, <2>2, <2>3
<1>10. \A i \in Slots(a, l) : kn[su[i].key] = i
  BY <1>1, <1>2, <1>5, <1>8, <1>9
<1>11. Matched(n, l, a, su, kn)
  BY <1>1, <1>4, <1>6, <1>9, <1>10 DEF Matched
<1>12. st[slot] \in Held(a, l + 1, st) /\ Held(a, l, su) = Held(a, l + 1, st) \ {st[slot]}
  <2>1. Held(a, l, su) = {st[i] : i \in Slots(a, l)}
    BY <1>5 DEF Held
  <2>2. Held(a, l + 1, st) = {st[i] : i \in Slots(a, l)} \cup {st[slot]}
    BY <1>2 DEF Held
  <2>3. st[slot] \notin {st[i] : i \in Slots(a, l)}
    BY <1>7
  <2>4. QED BY <2>1, <2>2, <2>3
<1>13. QED BY <1>5, <1>11, <1>12

\* Where the last element has replaced another, the order may be broken, and only there.
LEMMA HoleOpens ==
    ASSUME NEW l \in Nat, NEW v \in [Below(l + 1) -> Int], InOrder(v), NEW i \in Below(l),
           NEW w \in [Below(l) -> Int], \A j \in Below(l) : j # i => w[j] = v[j]
    PROVE  Hole(w, i)
<1>1. \A j \in Below(l) \ {0} : j \in Below(l + 1) /\ Parent(j) \in Below(l) /\ Parent(j) # j
  BY DEF Below, Parent
<1>2. \A j \in Below(l) \ {0} : v[Parent(j)] <= v[j]
  BY <1>1 DEF InOrder
<1>3. \A j \in Below(l) : v[j] \in Int
  BY DEF Below
<1>4. ASSUME NEW j \in Below(l) \ {0}, j # i, Parent(j) # i PROVE w[Parent(j)] <= w[j]
  BY <1>1, <1>2, <1>4
<1>5. ASSUME i # 0, NEW j \in Below(l) \ {0}, Parent(j) = i PROVE w[Parent(i)] <= w[j]
  <2>1. v[Parent(i)] <= v[i] /\ v[i] <= v[j]
    BY <1>2, <1>5
  <2>2. w[Parent(i)] = v[Parent(i)] /\ w[j] = v[j]
    BY <1>1, <1>5
  <2>3. v[Parent(i)] \in Int /\ v[i] \in Int /\ v[j] \in Int
    BY <1>1, <1>3, <1>5
  <2>4. QED BY <2>1, <2>2, <2>3
<1>6. QED BY <1>4, <1>5 DEF Hole

LEMMA SettleKeeps ==
    ASSUME NEW n \in Nat, n = reserved, NEW l \in Nat, l <= n, NEW c, Inverses(c, n),
           NEW i \in Below(l), NEW su, Valued(Slots(c, l), su), Hole(Values(c, l, su), i),
           NEW b, b = Settled(c, i, l, su)
    PROVE  Inverses(b, n) /\ Slots(b, l) = Slots(c, l) /\ InOrder(Values(b, l, su))
<1>1. PICK S : S = Slots(c, l)
  OBVIOUS
<1>2. Valued(S, su)
  BY <1>1
<1>3. PICK x : x = [arrays |-> c, at |-> i]
  OBVIOUS
<1>4. x \in Places(n) /\ x.arrays = c /\ x.at = i
  BY <1>3, PlaceIs, BelowIs DEF Inverses
<1>5. AtHole(x, n, l, su, S)
  BY <1>1, <1>4 DEF AtHole
<1>6. PICK y : y = Looped(Rising(n, su))[x]
  OBVIOUS
<1>7. AtHole(y, n, l, su, S) /\ Self(Values(y.arrays, l, su), y.at)
  BY <1>2, <1>4, <1>5, <1>6, UpEnds
<1>8. y \in Places(n)
  BY <1>7 DEF AtHole
<1>9. y = [arrays |-> y.arrays, at |-> y.at]
  BY <1>8 DEF Places
<1>10. PICK z : z = Looped(Sinking(n, l, su))[y]
  OBVIOUS
<1>11. /\ Inverses(z.arrays, n) /\ Slots(z.arrays, l) = S
       /\ InOrder(Values(z.arrays, l, su))
  BY <1>2, <1>7, <1>8, <1>10, DownEnds
<1>12. b = z.arrays
  <2>1. Up(c, i, su) = y
    BY <1>3, <1>6 DEF Up
  <2>2. Down(y.arrays, y.at, l, su) = z
    BY <1>9, <1>10 DEF Down
  <2>3. QED BY <2>1, <2>2 DEF Settled
<1>13. QED BY <1>1, <1>11, <1>12

\* What erase does, on the parts of the state.
Taking(a, i, l, su) == IF i < l THEN Settled(Swapped(a, i, l), i, l, su) ELSE a

LEMMA EraseKeeps ==
    ASSUME NEW n, n = reserved, NEW l \in Nat, NEW a, NEW st, NEW km, Fit(n, l + 1, a, st, km),
           NEW slot \in Slots(a, l + 1), NEW su, su = Filled(st, slot, Nothing),
           NEW kn, kn = Unkeyed(km, st[slot].key), NEW b, b = Taking(a, a.map[slot], l, su)
    PROVE  /\ Fit(n, l, b, su, kn)
           /\ st[slot] \in Held(a, l + 1, st) /\ Held(b, l, su) = Held(a, l + 1, st) \ {st[slot]}
<1>1. Matched(n, l + 1, a, st, km) /\ InOrder(Values(a, l + 1, st))
  BY DEF Fit
<1>2. n \in Nat /\ l < n /\ l <= n /\ l + 1 <= n /\ l + 1 \in Nat /\ Inverses(a, n)
  BY <1>1 DEF Matched
<1>3. PICK i \in Below(l + 1) : slot = a.heap[i]
  BY DEF Slots
<1>4. i \in Nat /\ l \in Below(l + 1) /\ (i < l \/ i = l) /\ Below(l + 1) \subseteq Below(n)
  BY <1>2 DEF Below
<1>5. a.map[slot] = i
  BY <1>2, <1>3, <1>4 DEF Inverses
<1>6. PICK v : v = Values(a, l + 1, st)
  OBVIOUS
<1>7. v \in [Below(l + 1) -> Int] /\ \A j \in Below(l + 1) : v[j] = st[a.heap[j]].value
  BY <1>1, <1>2, <1>6, MatchedElements, ValuesType
<1>8. CASE i < l
  <2>1. PICK c : c = Swapped(a, i, l)
    OBVIOUS
  <2>2. Inverses(c, n) /\ Crossed(c, a, n, i, l)
    BY <1>2, <1>3, <1>4, <2>1, SwapIs
  <2>3. /\ c.heap[l] = slot /\ c.heap[i] = a.heap[l]
        /\ \A j \in Below(n) : j # i /\ j # l => c.heap[j] = a.heap[j]
    BY <1>3, <2>2 DEF Crossed
  <2>4. Slots(c, l + 1) = Slots(a, l + 1)
    BY <1>2, <1>3, <1>4, <2>1, SwapValues
  <2>5. Matched(n, l + 1, c, st, km) /\ Held(c, l + 1, st) = Held(a, l + 1, st)
    BY <1>1, <2>2, <2>4, MatchedAgain
  <2>6. /\ Matched(n, l, c, su, kn)
        /\ st[slot] \in Held(c, l + 1, st) /\ Held(c, l, su) = Held(c, l + 1, st) \ {st[slot]}
        /\ \A s \in Slots(c, l) : su[s] = st[s]
    BY <2>3, <2>5, MatchedWithout
  <2>7. Valued(Slots(c, l), su)
    BY <2>6, MatchedElements
  <2>8. PICK w : w = Values(c, l, su)
    OBVIOUS
  <2>9. w \in [Below(l) -> Int] /\ \A j \in Below(l) : w[j] = su[c.heap[j]].value
    BY <2>7, <2>8, ValuesType
  <2>10. \A j \in Below(l) : j # i => w[j] = v[j]
    <3>1. \A j \in Below(l) : j \in Below(l + 1) /\ j # l /\ c.heap[j] \in Slots(c, l)
      BY DEF Below, Slots
    <3>2. QED BY <1>4, <1>7, <2>3, <2>6, <2>9, <3>1
  <2>11. i \in Below(l)
    BY <1>4, <1>8 DEF Below
  <2>12. Hole(w, i)
    BY <1>1, <1>6, <1>7, <2>9, <2>10, <2>11, HoleOpens
  <2>13. b = Settled(c, i, l, su)
    BY <1>5, <1>8, <2>1 DEF Taking
  <2>14. Inverses(b, n) /\ Slots(b, l) = Slots(c, l) /\ InOrder(Values(b, l, su))
    BY <1>2, <2>2, <2>7, <2>8, <2>11, <2>12, <2>13, SettleKeeps
  <2>15. Matched(n, l, b, su, kn) /\ Held(b, l, su) = Held(c, l, su)
    BY <2>6, <2>14, MatchedAgain
  <2>16. QED BY <2>5, <2>6, <2>14, <2>15 DEF Fit
<1>9. CASE i = l
  <2>1. b = a
    BY <1>4, <1>5, <1>9 DEF Taking
  <2>2. slot = a.heap[l]
    BY <1>3, <1>9
  <2>3. /\ Matched(n, l, a, su, kn)
        /\ st[slot] \in Held(a, l + 1, st) /\ Held(a, l, su) = Held(a, l + 1, st) \ {st[slot]}
        /\ \A s \in Slots(a, l) : su[s] = st[s]
    <3>1. Matched(n, l + 1, a, st, km)
      BY <1>1
    <3>2. QED BY <2>2, <3>1, MatchedWithout
  <2>4. PICK w : w = Values(a, l, su)
    OBVIOUS
  <2>5. w \in [Below(l) -> Int] /\ \A j \in Below(l) : w[j] = v[j]
    <3>1. w \in [Below(l) -> Int] /\ \A j \in Below(l) : w[j] = su[a.heap[j]].value
      BY <2>3, <2>4, MatchedElements, ValuesType
    <3>2. \A j \in Below(l) : j \in Below(l + 1) /\ a.heap[j] \in Slots(a, l)
      BY DEF Below, Slots
    <3>3. QED BY <1>7, <2>3, <3>1, <3>2
  <2>6. \A j \in Below(l) \ {0} : j \in Below(l + 1) /\ Parent(j) \in Below(l)
    BY DEF Below, Parent
  <2>7. InOrder(w)
    BY <1>1, <1>6, <1>7, <2>5, <2>6 DEF InOrder
  <2>8. QED BY <2>1, <2>3, <2>4, <2>7 DEF Fit
<1>10. QED BY <1>4, <1>8, <1>9

-----------------------------------------------------------------------------
(* The steps.                                                              *)

\* The element in front is a least: from every position the parents lead there.
LEMMA FrontIsLeast ==
    ASSUME NEW m \in Nat, NEW v \in [Below(m) -> Int], InOrder(v)
    PROVE  \A j \in Below(m) : v[0] <= v[j]
<1> DEFINE q == [j \in Below(m) |-> IF j = 0 THEN 0 ELSE Parent(j)]
           mea == [j \in Below(m) |-> j]
           S == {j \in Below(m) : ~(v[0] <= v[j])}
<1>1. \A j \in Below(m) : 0 \in Below(m) /\ j \in Nat
  BY DEF Below
<1>2. \A j \in Below(m) : j # 0 => Parent(j) \in Below(m) /\ Parent(j) < j
  BY ParentBelow
<1>3. Acyclic(q)
  <2>1. q \in [Below(m) -> Below(m)] /\ mea \in [Below(m) -> Nat]
    BY <1>1, <1>2
  <2>2. \A j \in Below(m) : q[j] # j => mea[q[j]] < mea[j]
    BY <1>1, <1>2
  <2> HIDE DEF q, mea
  <2>3. QED BY <2>1, <2>2, MeasureEnds
<1>4. ASSUME NEW j \in S PROVE q[j] # j /\ q[j] \in S
  <2>1. j # 0
    BY <1>1
  <2>2. q[j] = Parent(j) /\ Parent(j) \in Below(m) /\ Parent(j) < j /\ 0 \in Below(m)
    BY <1>1, <1>2, <2>1
  <2>3. v[Parent(j)] <= v[j]
    BY <2>1 DEF InOrder
  <2>4. v[0] \in Int /\ v[j] \in Int /\ v[Parent(j)] \in Int
    BY <2>2
  <2>5. QED BY <1>1, <2>2, <2>3, <2>4
<1>5. S \in SUBSET DOMAIN q
  OBVIOUS
<1>6. S = {}
  BY <1>3, <1>4, <1>5 DEF Acyclic
<1>7. QED BY <1>6

\* An empty heap, of arrays that are inverse to each other.
LEMMA FitEmpty ==
    ASSUME NEW n \in Nat \ {0}, NEW a, Inverses(a, n), NEW st, st = [i \in Below(n) |-> Nothing],
           NEW km, DOMAIN km = {}
    PROVE  Fit(n, 0, a, st, km) /\ Held(a, 0, st) = {} /\ 0 < n
<1>1. Below(0) = {}
  BY DEF Below
<1>2. Slots(a, 0) = {}
  BY <1>1 DEF Slots
<1>3. Matched(n, 0, a, st, km)
  BY <1>2 DEF Matched
<1>4. InOrder(Values(a, 0, st))
  BY <1>1 DEF InOrder, Values
<1>5. QED BY <1>2, <1>3, <1>4 DEF Fit, Held

LEMMA Identity ==
    ASSUME NEW n, NEW a, a = [heap |-> [i \in Below(n) |-> i], map |-> [i \in Below(n) |-> i]]
    PROVE  Inverses(a, n)
BY DEF Inverses, Arrays

LEMMA InitHolds == Init => HInv /\ held = {}
<1> SUFFICES ASSUME Init PROVE HInv /\ held = {}
  OBVIOUS
<1>1. PICK n, a, st, km :
        n = reserved /\ a = [heap |-> heap, map |-> map] /\ st = store /\ km = keymap
  OBVIOUS
<1>2. n \in Nat \ {0} /\ st = [i \in Below(n) |-> Nothing] /\ DOMAIN km = {}
  BY <1>1, SizesAssumption DEF Init
<1>3. Inverses(a, n)
  BY <1>1, Identity DEF Init
<1>4. Fit(n, 0, a, st, km) /\ Held(a, 0, st) = {} /\ 0 < n
  BY <1>2, <1>3, FitEmpty
<1>5. Now(n, 0, a, st, km)
  BY <1>1 DEF Now, Init
<1>6. QED BY <1>4, <1>5, FitMeans DEF Means

\* The state, in parts that stay the same while the variables change.
LEMMA StateParts ==
    ASSUME HInv
    PROVE  \E n, m, a, st, km :
              /\ Now(n, m, a, st, km) /\ Fit(n, m, a, st, km) /\ m < n
              /\ Occupied = Slots(a, m) /\ held = Held(a, m, st)
<1>1. PICK n, m, a, st, km : Now(n, m, a, st, km)
  BY DEF Now
<1>2. Fit(n, m, a, st, km) /\ m < n /\ Occupied = Slots(a, m) /\ held = Held(a, m, st)
  BY <1>1, FitMeans DEF Means
<1>3. QED BY <1>1, <1>2

LEMMA InsertStep ==
    ASSUME HInv, NEW e \in Element, Insert(e)
    PROVE  HInv' /\ e \notin held /\ held' = held \cup {e}
<1>1. PICK n, m, a, st, km :
        /\ Now(n, m, a, st, km) /\ Fit(n, m, a, st, km) /\ m < n
        /\ Occupied = Slots(a, m) /\ held = Held(a, m, st)
  BY StateParts
<1>2. n = reserved /\ m = size /\ a = [heap |-> heap, map |-> map] /\ st = store /\ km = keymap
  BY <1>1 DEF Now
<1>3. PICK slot : slot = a.heap[m]
  OBVIOUS
<1>4. PICK su : su = Filled(st, slot, e)
  OBVIOUS
<1>5. PICK kn : kn = Keyed(km, e, slot)
  OBVIOUS
<1>6. PICK b : b = Up(a, m, su).arrays
  OBVIOUS
<1>7. slot = heap[size] /\ su = [store EXCEPT ![slot] = e]
      /\ kn = [k \in DOMAIN keymap \cup {e.key} |-> IF k = e.key THEN slot ELSE keymap[k]]
  BY <1>2, <1>3, <1>4, <1>5 DEF Filled, Keyed
<1>8. b = Up([heap |-> heap, map |-> map], size, [store EXCEPT ![heap[size]] = e]).arrays
  BY <1>2, <1>6, <1>7
<1>9. e.key \notin DOMAIN km /\ Become(Grown(Packed(n, m + 1, b, su, kn)))
  BY <1>2, <1>7, <1>8 DEF Insert, Packed
<1>10. /\ Fit(n, m + 1, b, su, kn)
       /\ Held(b, m + 1, su) = Held(a, m, st) \cup {e} /\ e \notin Held(a, m, st)
  BY <1>1, <1>2, <1>3, <1>4, <1>5, <1>6, <1>9, InsertKeeps
<1>11. Outcome(Grown(Packed(n, m + 1, b, su, kn)), Held(b, m + 1, su))
  BY <1>10, GrowKeeps
<1>12. HInv' /\ held' = Held(b, m + 1, su)
  BY <1>9, <1>11, BecomeOutcome
<1>13. QED BY <1>1, <1>10, <1>12

LEMMA ErasedKeeps ==
    ASSUME HInv, NEW slot \in Occupied, Become(Erased(slot))
    PROVE  HInv' /\ store[slot] \in held /\ held' = held \ {store[slot]}
<1>1. PICK n, m, a, st, km :
        /\ Now(n, m, a, st, km) /\ Fit(n, m, a, st, km) /\ m < n
        /\ Occupied = Slots(a, m) /\ held = Held(a, m, st)
  BY StateParts
<1>2. n = reserved /\ m = size /\ a = [heap |-> heap, map |-> map] /\ st = store /\ km = keymap
  BY <1>1 DEF Now
<1>3. PICK x : x = slot
  OBVIOUS
<1>4. PICK l : l = m - 1
  OBVIOUS
<1>5. l \in Nat /\ m = l + 1 /\ l < n
  <2>1. m \in Nat /\ n \in Nat
    BY <1>1 DEF Fit, Matched
  <2>2. Below(m) # {}
    BY <1>1 DEF Slots
  <2>3. m # 0
    BY <2>1, <2>2 DEF Below
  <2>4. QED BY <1>1, <1>4, <2>1, <2>3
<1>6. PICK su : su = Filled(st, x, Nothing)
  OBVIOUS
<1>7. PICK kn : kn = Unkeyed(km, st[x].key)
  OBVIOUS
<1>8. PICK b : b = Taking(a, a.map[x], l, su)
  OBVIOUS
<1>9. /\ Fit(n, l, b, su, kn)
      /\ st[x] \in Held(a, l + 1, st) /\ Held(b, l, su) = Held(a, l + 1, st) \ {st[x]}
  <2>1. Fit(n, l + 1, a, st, km) /\ x \in Slots(a, l + 1)
    BY <1>1, <1>3, <1>5
  <2>2. QED BY <1>2, <1>5, <1>6, <1>7, <1>8, <2>1, EraseKeeps
<1>10. Erased(slot) = Shrunk(Packed(n, l, b, su, kn))
  <2>1. su = [store EXCEPT ![slot] = Nothing]
        /\ kn = [k \in DOMAIN keymap \ {store[slot].key} |-> keymap[k]]
    BY <1>2, <1>3, <1>6, <1>7 DEF Filled, Unkeyed
  <2>2. l = size - 1 /\ a.map[x] = map[slot]
    BY <1>2, <1>3, <1>4
  <2>3. b = IF map[slot] < l THEN Settled(Swapped(a, map[slot], l), map[slot], l, su) ELSE a
    BY <1>8, <2>2 DEF Taking
  <2>4. QED BY <1>2, <2>1, <2>2, <2>3 DEF Erased, Packed
<1>11. Outcome(Erased(slot), Held(b, l, su))
  BY <1>5, <1>9, <1>10, ShrinkKeeps
<1>12. PICK t : t = Erased(slot)
  OBVIOUS
<1>13. HInv' /\ held' = Held(b, l, su)
  <2>1. Outcome(t, Held(b, l, su)) /\ Become(t)
    BY <1>11, <1>12
  <2>2. QED BY <2>1, BecomeOutcome
<1>14. QED BY <1>1, <1>2, <1>3, <1>5, <1>9, <1>13

LEMMA EraseStep ==
    ASSUME HInv, NEW k, Erase(k)
    PROVE  HInv' /\ \E e \in held : held' = held \ {e}
<1>1. PICK i \in Occupied : k = store[i].key
  BY DEF HInv, HeapSound, MapsAgree, Erase
<1>2. keymap[k] = i
  BY <1>1 DEF HInv, HeapSound, MapsAgree
<1>3. HInv' /\ store[i] \in held /\ held' = held \ {store[i]}
  BY <1>1, <1>2, ErasedKeeps DEF Erase
<1>4. PICK e : e = store[i]
  OBVIOUS
<1>5. QED BY <1>3, <1>4

LEMMA PopStep ==
    ASSUME HInv, Pop
    PROVE  /\ HInv'
           /\ \E e \in held : (\A f \in held : ~Less(f, e)) /\ held' = held \ {e}
<1>1. PICK n, m, a, st, km :
        /\ Now(n, m, a, st, km) /\ Fit(n, m, a, st, km) /\ m < n
        /\ Occupied = Slots(a, m) /\ held = Held(a, m, st)
  BY StateParts
<1>2. n = reserved /\ m = size /\ a = [heap |-> heap, map |-> map] /\ st = store /\ km = keymap
  BY <1>1 DEF Now
<1>3. PICK x : x = a.heap[0]
  OBVIOUS
<1>4. Matched(n, m, a, st, km) /\ InOrder(Values(a, m, st)) /\ m \in Nat
  BY <1>1 DEF Fit, Matched
<1>5. 0 \in Below(m)
  BY <1>2, <1>4 DEF Pop, Below
<1>6. x = heap[0] /\ x \in Slots(a, m)
  BY <1>2, <1>3, <1>5 DEF Slots
<1>7. keymap[store[heap[0]].key] = x
  BY <1>2, <1>4, <1>6 DEF Matched
<1>8. HInv' /\ st[x] \in held /\ held' = held \ {st[x]}
  <2>1. x \in Occupied /\ Become(Erased(x))
    BY <1>1, <1>6, <1>7 DEF Pop
  <2>2. QED BY <1>2, <2>1, ErasedKeeps
<1>9. ASSUME NEW f \in held PROVE ~Less(f, st[x])
  <2>1. PICK j \in Below(m) : f = st[a.heap[j]]
    BY <1>1 DEF Held, Slots
  <2>2. PICK v : v = Values(a, m, st)
    OBVIOUS
  <2>3. v \in [Below(m) -> Int] /\ \A i \in Below(m) : v[i] = st[a.heap[i]].value
    BY <1>4, <2>2, MatchedElements, ValuesType
  <2>4. v[0] <= v[j]
    BY <1>4, <2>2, <2>3, FrontIsLeast
  <2>5. v[0] \in Int /\ v[j] \in Int /\ v[0] = st[x].value /\ v[j] = f.value
    BY <1>3, <1>5, <2>1, <2>3
  <2>6. QED BY <2>4, <2>5 DEF Less
<1>10. PICK e : e = st[x]
  OBVIOUS
<1>11. QED BY <1>8, <1>9, <1>10

LEMMA HeapClearStep ==
    ASSUME HInv, Clear
    PROVE  HInv' /\ held' = {}
<1>1. PICK n, m, a, st, km :
        /\ Now(n, m, a, st, km) /\ Fit(n, m, a, st, km) /\ m < n
        /\ Occupied = Slots(a, m) /\ held = Held(a, m, st)
  BY StateParts
<1>2. n = reserved /\ m = size /\ a = [heap |-> heap, map |-> map] /\ st = store /\ km = keymap
  BY <1>1 DEF Now
<1>3. /\ n \in Nat \ {0} /\ Inverses(a, n) /\ DOMAIN st = Below(n)
  BY <1>1 DEF Fit, Matched
<1>4. \E l, c, su, kn :
        /\ l \in Nat \ {0} /\ Inverses(c, l) /\ su = [i \in Below(l) |-> Nothing] /\ DOMAIN kn = {}
        /\ reserved' = l /\ size' = 0 /\ c = [heap |-> heap', map |-> map']
        /\ store' = su /\ keymap' = kn
  <2>1. PICK kn : kn = <<>> /\ DOMAIN kn = {}
    OBVIOUS
  <2>2. CASE reserved > InitReserved
    <3>1. PICK c : c = [heap |-> [i \in Below(InitReserved) |-> i],
                        map |-> [i \in Below(InitReserved) |-> i]]
      OBVIOUS
    <3>2. Inverses(c, InitReserved) /\ InitReserved \in Nat \ {0}
      BY <3>1, Identity, SizesAssumption
    <3>3. PICK su : su = [i \in Below(InitReserved) |-> Nothing]
      OBVIOUS
    <3>4. /\ reserved' = InitReserved /\ size' = 0 /\ c = [heap |-> heap', map |-> map']
          /\ store' = su /\ keymap' = kn
      BY <2>1, <2>2, <3>1, <3>3 DEF Clear
    <3>5. QED BY <2>1, <3>2, <3>3, <3>4
  <2>3. CASE ~(reserved > InitReserved)
    <3>1. PICK su : su = [i \in Below(n) |-> Nothing]
      OBVIOUS
    <3>2. /\ reserved' = n /\ size' = 0 /\ a = [heap |-> heap', map |-> map']
          /\ store' = su /\ keymap' = kn
      BY <1>2, <1>3, <2>1, <2>3, <3>1 DEF Clear
    <3>3. QED BY <1>3, <2>1, <3>1, <3>2
  <2>4. QED BY <2>2, <2>3
<1>5. PICK l, c, su, kn :
        /\ l \in Nat \ {0} /\ Inverses(c, l) /\ su = [i \in Below(l) |-> Nothing] /\ DOMAIN kn = {}
        /\ reserved' = l /\ size' = 0 /\ c = [heap |-> heap', map |-> map']
        /\ store' = su /\ keymap' = kn
  BY <1>4
<1>6. Fit(l, 0, c, su, kn) /\ Held(c, 0, su) = {} /\ 0 < l
  BY <1>5, FitEmpty
<1>7. Now(l, 0, c, su, kn)'
  BY <1>5 DEF Now
<1>8. Means'
  BY FitMeans, PTL
<1>9. QED BY <1>6, <1>7, <1>8 DEF Means

LEMMA HeldElements == HInv => held \subseteq Element
<1> SUFFICES ASSUME HInv PROVE held \subseteq Element
  OBVIOUS
<1>1. PICK n, m, a, st, km :
        /\ Now(n, m, a, st, km) /\ Fit(n, m, a, st, km) /\ m < n
        /\ Occupied = Slots(a, m) /\ held = Held(a, m, st)
  BY StateParts
<1>2. QED BY <1>1, MatchedElements DEF Fit, Held

LEMMA HeapStep ==
    ASSUME HInv, [Next]_vars
    PROVE  HInv' /\ [Queue!Next]_held /\ [Pop => Queue!TakeFirst]_vars
<1>1. held \subseteq Element
  BY HeldElements
<1>2. ASSUME Pop PROVE HInv' /\ Queue!TakeFirst
  BY <1>2, PopStep DEF Queue!TakeFirst, held
<1>3. ASSUME NEW e \in Element, Insert(e) PROVE HInv' /\ Queue!Insert
  <2>1. HInv' /\ e \notin held /\ held' = held \cup {e}
    BY <1>3, InsertStep
  <2>2. Single(held' \ held)
    BY <2>1 DEF Single
  <2>3. QED BY <1>1, <2>1, <2>2 DEF Queue!Insert, held
<1>4. ASSUME NEW k \in Key, Erase(k) PROVE HInv' /\ Queue!Erase
  BY <1>4, EraseStep DEF Queue!Erase, held
<1>5. ASSUME Clear PROVE HInv' /\ Queue!Clear
  BY <1>5, HeapClearStep DEF Queue!Clear, held
<1>6. ASSUME UNCHANGED vars PROVE HInv' /\ held' = held
  <2>1. size' = size /\ reserved' = reserved /\ heap' = heap /\ map' = map
        /\ store' = store /\ keymap' = keymap
    BY <1>6 DEF vars
  <2>2. QED BY <2>1 DEF HInv, HeapSound, MapsAgree, HeapOrder, Occupied, held
<1>7. QED BY <1>2, <1>3, <1>4, <1>5, <1>6 DEF Next, Queue!Next

\* For any elements and sizes, the maps of the heap agree and its order holds after every
\* insertion, removal, growth, renumbering and cut.
THEOREM HeapCorrect == Spec => []HeapSound
<1>1. Init => HInv
  BY InitHolds
<1>2. HInv /\ [Next]_vars => HInv'
  BY HeapStep
<1>3. HInv => HeapSound
  BY DEF HInv
<1>4. QED BY <1>1, <1>2, <1>3, PTL DEF Spec

\* For any elements and sizes, insert adds its element to those held, erase removes one,
\* and pop removes one than which none is less.
THEOREM QueueKept == Spec => ImplementsQueue
<1>1. Init => HInv /\ Queue!Init
  BY InitHolds DEF Queue!Init, held
<1>2. HInv /\ [Next]_vars => HInv' /\ [Queue!Next]_held /\ [Pop => Queue!TakeFirst]_vars
  BY HeapStep
<1>3. QED BY <1>1, <1>2, PTL DEF Spec, ImplementsQueue, Queue!Spec, held
=============================================================================
