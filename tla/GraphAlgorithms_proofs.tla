----------------------- MODULE GraphAlgorithms_proofs -----------------------
(***************************************************************************)
(* Theorems about the graph algorithms, for graphs of any size below inf.  *)
(* What hopcroft_karp builds up is a matching, and when no path is left it *)
(* is a maximum one; the components that tarjan_strongly_cc forms are      *)
(* exactly those of the graph.                                             *)
(***************************************************************************)
EXTENDS GraphAlgorithms, FiniteSetTheorems, WellFoundedInduction, TLAPS

Left == Lefts(e)
Right == Rights(e)
LeftOrNil == {Nil} \cup Left
Loops == [of : Left, ahead : SUBSET Right]

PairOK ==
    /\ pair \in [{Nil} \cup Left \cup Right -> {Nil} \cup Left \cup Right]
    /\ pair[Nil] = Nil
    /\ \A x \in Left : pair[x] \in {Nil} \cup Right
    /\ \A y \in Right : pair[y] \in LeftOrNil

AheadOK == \A i \in DOMAIN path : path[i].ahead \subseteq Neighbours(path[i].of)

TypeOK ==
    /\ e \in Graphs
    /\ PairOK
    /\ dist \in [LeftOrNil -> 0..Inf]
    /\ at \in {"reset", "bfs", "dfs", "augment", "execute", "done"}
    /\ v \in 1..Size(e) + 1
    /\ queue \in Seq(LeftOrNil)
    /\ path \in Seq(Loops)
    /\ AheadOK
    /\ matching \in Nat

-----------------------------------------------------------------------------
(* The matching.  While a path is turned over, one vertex on the right     *)
(* still names the partner that it has lost.                               *)

LeftKnown == \A x \in Left : pair[x] # Nil => pair[pair[x]] = x /\ <<x, pair[x]>> \in e
RightKnown(S) == \A y \in S : pair[y] # Nil => pair[pair[y]] = y
Turning == Second(Last)

Mutual ==
    /\ LeftKnown
    /\ at # "augment" => RightKnown(Right)
    /\ at = "augment" =>
          /\ RightKnown(Right \ {Turning})
          /\ \A x \in Left : pair[x] # Turning
          /\ \A i \in DOMAIN path : pair[Turning] # path[i].of

Partnered == {x \in Left : pair[x] # Nil}
Counted == matching = Cardinality(Partnered)

\* The calls of dfs follow edges of the graph and of the matching by turns, to vertices
\* that are farther and farther away.
Calls ==
    /\ at \in {"dfs", "augment"} =>
          /\ path # <<>>
          /\ path[1].of = v /\ pair[v] = Nil
          /\ \A i \in 1..Len(path) - 1 :
                path[i].ahead # {} /\ pair[Second(path[i])] = path[i + 1].of
          /\ \A i, j \in DOMAIN path : i < j => dist[path[i].of] < dist[path[j].of]
    /\ at = "augment" => Last.ahead # {}
    /\ at = "bfs" => Len(path) <= 1
    /\ at \in {"reset", "execute", "done"} => path = <<>>

-----------------------------------------------------------------------------
(* What bfs has reached, and what it has still to do.                      *)

Waiting == {queue[i] : i \in DOMAIN queue}

FreeIsNear == \A x \in Left : pair[x] = Nil => dist[x] # Inf

SeenFrom(x, ys) == \A y \in ys : dist[pair[y]] # Inf

InSteps == \A x \in LeftOrNil : dist[x] # Inf /\ dist[x] # 0 => \E z \in Left : dist[z] = dist[x] - 1

Search ==
    /\ at = "reset" =>
          /\ \A x \in Left : x < v => dist[x] = IF pair[x] = Nil THEN 0 ELSE Inf
          /\ Waiting = {x \in Left : x < v /\ pair[x] = Nil}
    /\ at = "bfs" =>
          /\ FreeIsNear /\ InSteps
          /\ \A x \in Waiting : dist[x] # Inf
          /\ path # <<>> => dist[path[1].of] # Inf
          /\ \A x \in Left : dist[x] # Inf =>
                \/ x \in Waiting
                \/ SeenFrom(x, Neighbours(x))
                \/ path # <<>> /\ path[1].of = x /\ SeenFrom(x, Neighbours(x) \ path[1].ahead)
    /\ at \in {"dfs", "augment", "execute", "done"} => queue = <<>>
    /\ at = "done" =>
          /\ FreeIsNear /\ dist[Nil] = Inf
          /\ \A x \in Left : dist[x] # Inf => SeenFrom(x, Neighbours(x))

HInv == TypeOK /\ Mutual /\ Counted /\ Calls /\ Search

-----------------------------------------------------------------------------
(* Graphs and loops.                                                       *)

LEMMA LeastNumber ==
    ASSUME NEW M \in SUBSET Nat, M # {}
    PROVE  \E k \in M : \A j \in M : k <= j
<1>1. PICK b \in M : TRUE
  OBVIOUS
<1> DEFINE S == 0..b
           T == {0..k : k \in M \cap S}
<1>2. IsWellFoundedOn(StrictSubsetOrdering(S), SUBSET S)
  <2>1. IsFiniteSet(S)
    BY FS_Interval
  <2>2. FiniteSubsetsOf(S) = SUBSET S
    BY <2>1, FS_FiniteSubsetsOfFinite
  <2>3. QED BY <2>2, FS_StrictSubsetOrderingWellFounded
<1>3. T \in SUBSET SUBSET S /\ T # {}
  BY <1>1
<1>4. \E X \in T : \A Y \in T : <<Y, X>> \notin StrictSubsetOrdering(S)
  BY <1>2, <1>3, WFMin
<1>5. PICK k \in M \cap S : \A Y \in T : <<Y, 0..k>> \notin StrictSubsetOrdering(S)
  BY <1>4
<1>6. ASSUME NEW j \in M, j < k PROVE FALSE
  <2>1. 0..j \in T /\ 0..j \subseteq 0..k /\ 0..j # 0..k
    BY <1>6
  <2>2. <<0..j, 0..k>> \in StrictSubsetOrdering(S)
    BY <1>3, <1>5, <2>1 DEF StrictSubsetOrdering
  <2>3. QED BY <1>5, <2>1, <2>2
<1>7. QED BY <1>6

LEMMA InfIs == Inf \in Nat /\ Inf > 0
BY SMT DEF Inf

LEMMA GraphShape ==
    ASSUME e \in Graphs
    PROVE  /\ Left = 1..Size(e) /\ Size(e) \in 0..MaxLeft /\ IsFiniteSet(Left)
           /\ Right \subseteq Nat /\ Left \cap Right = {} /\ Nil \notin Left \cup Right
           /\ \A x \in e : x = <<x[1], x[2]>> /\ x[1] \in Left /\ x[2] \in Right
           /\ IsFiniteSet(e)
<1>1. e \subseteq (1..MaxLeft) \X (2..(MaxLeft + MaxRight)) /\ Numbered(e)
  BY DEF Graphs
<1>2. Left \subseteq 1..MaxLeft /\ Right \subseteq Nat
  BY <1>1, Bounds DEF Left, Right, Lefts, Rights
<1>3. IsFiniteSet(1..MaxLeft) /\ Cardinality(1..MaxLeft) = MaxLeft
  BY Bounds, FS_Interval
<1>4. IsFiniteSet(Left) /\ Size(e) \in Nat /\ Size(e) <= MaxLeft
  <2>1. IsFiniteSet(Left) /\ Cardinality(Left) <= MaxLeft
    BY <1>2, <1>3, FS_Subset
  <2>2. QED BY <2>1, FS_CardinalityType DEF Size, Left
<1>5. \A x \in e : x = <<x[1], x[2]>> /\ x[1] \in Left /\ x[2] \in Right
  BY <1>1 DEF Left, Right, Lefts, Rights
<1>6. Left = 1..Size(e) /\ Right = (Size(e) + 1)..(Size(e) + Cardinality(Rights(e)))
  BY <1>1 DEF Numbered, Left, Right
<1>7. Left \cap Right = {} /\ Nil \notin Left \cup Right
  <2>1. ASSUME NEW x \in Left \cup Right PROVE x # 0 /\ ~(x \in Left /\ x \in Right)
    BY <1>2, <1>4, <1>6
  <2>2. QED BY <2>1 DEF Nil
<1>8. IsFiniteSet(e)
  <2>1. IsFiniteSet(2..(MaxLeft + MaxRight))
    BY Bounds, FS_Interval
  <2>2. IsFiniteSet((1..MaxLeft) \X (2..(MaxLeft + MaxRight)))
    BY <1>3, <2>1, FS_Product
  <2>3. QED BY <1>1, <2>2, FS_Subset
<1>9. Size(e) \in 0..MaxLeft
  BY <1>4, Bounds
<1>10. QED BY <1>2, <1>4, <1>5, <1>6, <1>7, <1>8, <1>9

\* The edge that a loop comes to next.
LEMMA SecondAhead ==
    ASSUME e \in Graphs, NEW l \in Loops, l.ahead # {}
    PROVE  Second(l) \in l.ahead
<1>1. l.ahead \in SUBSET Nat
  BY GraphShape DEF Loops
<1>2. \E y \in l.ahead : \A z \in l.ahead : y <= z
  BY <1>1, LeastNumber
<1>3. QED BY <1>2 DEF Second

LEMMA LoopIs ==
    ASSUME NEW x \in Left
    PROVE  Loop(x) \in Loops /\ Loop(x).of = x /\ Loop(x).ahead = Neighbours(x)
BY DEF Loop, Loops, Neighbours, Right

LEMMA PassedIs ==
    ASSUME NEW l \in Loops
    PROVE  Passed(l) \in Loops /\ Passed(l).of = l.of /\ Passed(l).ahead = l.ahead \ {Second(l)}
<1>1. l = [of |-> l.of, ahead |-> l.ahead] /\ l.of \in Left /\ l.ahead \subseteq Right
  BY DEF Loops
<1>2. Passed(l) = [of |-> l.of, ahead |-> l.ahead \ {Second(l)}]
  BY <1>1 DEF Passed
<1>3. QED BY <1>1, <1>2 DEF Loops

\* A path without its last call.
LEMMA BelowIs ==
    ASSUME NEW p \in Seq(Loops), p # <<>>
    PROVE  /\ Len(p) \in Nat /\ Len(p) >= 1 /\ p[Len(p)] \in Loops
           /\ SubSeq(p, 1, Len(p) - 1) \in Seq(Loops)
           /\ Len(SubSeq(p, 1, Len(p) - 1)) = Len(p) - 1
           /\ \A i \in 1..Len(p) - 1 : SubSeq(p, 1, Len(p) - 1)[i] = p[i]
OBVIOUS

-----------------------------------------------------------------------------
(* Types.                                                                  *)

LEMMA SameGraph ==
    ASSUME UNCHANGED e
    PROVE  /\ Left' = Left /\ Right' = Right /\ LeftOrNil' = LeftOrNil /\ Loops' = Loops
           /\ \A x : Neighbours(x)' = Neighbours(x)
           /\ Graphs' = Graphs
BY DEF Left, Right, LeftOrNil, Loops, Neighbours, Graphs

\* A call in progress, and the vertex its next edge leads to.
LEMMA TopIs ==
    ASSUME TypeOK, path # <<>>
    PROVE  /\ Len(path) \in Nat /\ Len(path) >= 1 /\ DOMAIN path = 1..Len(path)
           /\ Last \in Loops /\ Last.of \in Left /\ Last.ahead \subseteq Neighbours(Last.of)
           /\ Below \in Seq(Loops) /\ Len(Below) = Len(path) - 1
           /\ DOMAIN Below = 1..Len(path) - 1
           /\ \A i \in 1..Len(path) - 1 : Below[i] = path[i]
           /\ Last.ahead # {} =>
                 /\ Second(Last) \in Right /\ <<Last.of, Second(Last)>> \in e
                 /\ pair[Second(Last)] \in LeftOrNil
<1>1. path \in Seq(Loops)
  BY DEF TypeOK
<1>2. /\ Len(path) \in Nat /\ Len(path) >= 1 /\ DOMAIN path = 1..Len(path)
      /\ Last \in Loops
      /\ Below \in Seq(Loops) /\ Len(Below) = Len(path) - 1
      /\ \A i \in 1..Len(path) - 1 : Below[i] = path[i]
  BY <1>1, BelowIs DEF Last, Below
<1>3. DOMAIN Below = 1..Len(path) - 1
  BY <1>2
<1>4. Last.of \in Left /\ Last.ahead \subseteq Neighbours(Last.of)
  <2>1. Len(path) \in DOMAIN path
    BY <1>2
  <2>2. Last.ahead \subseteq Neighbours(Last.of)
    BY <2>1 DEF TypeOK, AheadOK, Last
  <2>3. QED BY <2>2, <1>2 DEF Loops
<1>5. ASSUME Last.ahead # {}
      PROVE  /\ Second(Last) \in Right /\ <<Last.of, Second(Last)>> \in e
             /\ pair[Second(Last)] \in LeftOrNil
  <2>1. Second(Last) \in Neighbours(Last.of)
    BY <1>2, <1>4, <1>5, SecondAhead DEF TypeOK
  <2>2. Second(Last) \in Right /\ <<Last.of, Second(Last)>> \in e
    BY <2>1 DEF Neighbours, Right
  <2>3. QED BY <2>2 DEF TypeOK, PairOK
<1>6. QED BY <1>2, <1>3, <1>4, <1>5

\* The last call of a path takes its next edge; the path loses its last call; it gets one.
LEMMA PathPassed ==
    ASSUME TypeOK, path # <<>>, NEW p, p = Append(Below, Passed(Last))
    PROVE  /\ p \in Seq(Loops) /\ Len(p) = Len(path) /\ DOMAIN p = 1..Len(path)
           /\ \A i \in 1..Len(path) - 1 : p[i] = path[i]
           /\ p[Len(path)].of = Last.of /\ p[Len(path)].ahead = Last.ahead \ {Second(Last)}
           /\ \A i \in DOMAIN p : p[i].ahead \subseteq Neighbours(p[i].of)
<1>1. Passed(Last) \in Loops /\ Passed(Last).of = Last.of
      /\ Passed(Last).ahead = Last.ahead \ {Second(Last)}
  BY TopIs, PassedIs
<1> DEFINE b == Below
           q == Passed(Last)
<1>2. b \in Seq(Loops) /\ Len(b) = Len(path) - 1 /\ Len(path) \in Nat /\ Len(path) >= 1
  BY TopIs
<1>3. \A i \in 1..Len(path) - 1 : b[i] = path[i]
  BY TopIs
<1>4. q \in Loops
  BY <1>1
<1> HIDE DEF b, q
<1>5. /\ Append(b, q) \in Seq(Loops) /\ Len(Append(b, q)) = Len(path)
      /\ DOMAIN Append(b, q) = 1..Len(path)
      /\ \A i \in 1..Len(path) - 1 : Append(b, q)[i] = b[i]
      /\ Append(b, q)[Len(path)] = q
  BY <1>2, <1>4
<1>6. p = Append(b, q)
  BY DEF b, q
<1>7. \A i \in 1..Len(path) - 1 : p[i] = path[i]
  BY <1>3, <1>5, <1>6
<1>8. p[Len(path)].of = Last.of /\ p[Len(path)].ahead = Last.ahead \ {Second(Last)}
  BY <1>1, <1>5, <1>6 DEF q
<1>9. ASSUME NEW i \in 1..Len(path) PROVE p[i].ahead \subseteq Neighbours(p[i].of)
  <2>1. CASE i = Len(path)
    BY <2>1, <1>8, TopIs
  <2>2. CASE i # Len(path)
    <3>1. i \in 1..Len(path) - 1 /\ i \in DOMAIN path
      BY <2>2, <1>2, TopIs
    <3>2. QED BY <3>1, <1>7 DEF TypeOK, AheadOK
  <2>3. QED BY <2>1, <2>2
<1>10. QED BY <1>5, <1>6, <1>7, <1>8, <1>9

LEMMA PathBelow ==
    ASSUME TypeOK, path # <<>>
    PROVE  \A i \in DOMAIN Below : Below[i].ahead \subseteq Neighbours(Below[i].of)
<1>1. \A i \in DOMAIN Below : i \in DOMAIN path /\ Below[i] = path[i]
  BY TopIs
<1>2. QED BY <1>1 DEF TypeOK, AheadOK

\* After a call that has failed.
LEMMA PathFailed ==
    ASSUME TypeOK, path # <<>>,
           NEW p, p = [i \in DOMAIN Below |-> IF i = Len(Below) THEN Passed(path[i]) ELSE path[i]]
    PROVE  /\ p \in Seq(Loops) /\ Len(p) = Len(path) - 1 /\ DOMAIN p = 1..Len(path) - 1
           /\ \A i \in DOMAIN p :
                 /\ p[i].of = path[i].of /\ p[i].ahead \subseteq path[i].ahead
                 /\ i < Len(path) - 1 => p[i] = path[i]
           /\ \A i \in DOMAIN p : p[i].ahead \subseteq Neighbours(p[i].of)
<1>1. /\ Len(path) \in Nat /\ Len(path) >= 1 /\ DOMAIN path = 1..Len(path)
      /\ DOMAIN Below = 1..Len(path) - 1 /\ Len(Below) = Len(path) - 1
  BY TopIs
<1>2. \A i \in DOMAIN path : path[i] \in Loops
  BY <1>1 DEF TypeOK
<1>3. ASSUME NEW i \in 1..Len(path) - 1
      PROVE  /\ p[i] \in Loops
             /\ p[i].of = path[i].of /\ p[i].ahead \subseteq path[i].ahead
             /\ i < Len(path) - 1 => p[i] = path[i]
  <2>1. path[i] \in Loops
    BY <1>1, <1>2
  <2>2. CASE i = Len(path) - 1
    <3>1. p[i] = Passed(path[i])
      BY <1>1, <2>2
    <3>2. QED BY <2>1, <2>2, <3>1, PassedIs, <1>1
  <2>3. CASE i # Len(path) - 1
    BY <1>1, <2>1, <2>3
  <2>4. QED BY <2>2, <2>3
<1>4. p \in Seq(Loops) /\ Len(p) = Len(path) - 1 /\ DOMAIN p = 1..Len(path) - 1
  <2>1. p = [i \in 1..Len(path) - 1 |-> p[i]]
    BY <1>1
  <2>2. DOMAIN p = 1..Len(path) - 1 /\ Len(path) - 1 \in Nat
    BY <1>1
  <2>3. p \in [1..Len(path) - 1 -> Loops]
    BY <2>1, <1>3
  <2>4. QED BY <2>2, <2>3
<1>5. ASSUME NEW i \in 1..Len(path) - 1 PROVE p[i].ahead \subseteq Neighbours(p[i].of)
  <2>1. p[i].of = path[i].of /\ p[i].ahead \subseteq path[i].ahead
    BY <1>3
  <2>2. i \in DOMAIN path
    BY <1>1
  <2>3. path[i].ahead \subseteq Neighbours(path[i].of)
    BY <2>2 DEF TypeOK, AheadOK
  <2>4. QED BY <2>1, <2>3
<1>6. QED BY <1>3, <1>4, <1>5

LEMMA TypeFrom ==
    ASSUME TypeOK, UNCHANGED e, PairOK',
           dist' \in [LeftOrNil -> 0..Inf],
           at' \in {"reset", "bfs", "dfs", "augment", "execute", "done"},
           v' \in 1..Size(e) + 1,
           queue' \in Seq(LeftOrNil),
           path' \in Seq(Loops),
           \A i \in DOMAIN path' : path'[i].ahead \subseteq Neighbours(path'[i].of),
           matching' \in Nat
    PROVE  TypeOK'
<1>1. e' \in Graphs'
  BY SameGraph DEF TypeOK
<1>2. dist' \in [LeftOrNil' -> 0..Inf] /\ queue' \in Seq(LeftOrNil') /\ path' \in Seq(Loops')
  BY SameGraph
<1>3. v' \in 1..Size(e') + 1
  BY DEF Size, Lefts
<1>4. AheadOK'
  BY DEF AheadOK, Neighbours, Rights
<1>5. QED BY <1>1, <1>2, <1>3, <1>4 DEF TypeOK

LEMMA SamePair ==
    ASSUME TypeOK, UNCHANGED <<e, pair>>
    PROVE  PairOK'
BY SameGraph DEF TypeOK, PairOK

LEMMA TypeReset == ASSUME HInv, Reset PROVE TypeOK'
<1> USE DEF HInv
<1>1. Left = 1..Size(e) /\ Size(e) \in Nat /\ LeftOrNil = {Nil} \cup Left
  BY GraphShape, Bounds DEF TypeOK, LeftOrNil
<1>2. dist' \in [LeftOrNil -> 0..Inf]
  <2>1. dist \in [LeftOrNil -> 0..Inf] /\ Nil \in LeftOrNil /\ Inf \in 0..Inf /\ 0 \in 0..Inf
    BY <1>1, InfIs DEF TypeOK
  <2>2. \A x : dist' = [dist EXCEPT ![x] = 0] \/ dist' = [dist EXCEPT ![x] = Inf]
           => dist' \in [LeftOrNil -> 0..Inf]
    BY <2>1
  <2>3. \E x : dist' = [dist EXCEPT ![x] = 0] \/ dist' = [dist EXCEPT ![x] = Inf]
    BY DEF Reset, NilIsFar
  <2>4. QED BY <2>2, <2>3
<1>3. v' \in 1..Size(e) + 1
  BY <1>1 DEF Reset, TypeOK, Left
<1>4. queue' \in Seq(LeftOrNil)
  <2>1. queue \in Seq(LeftOrNil)
    BY DEF TypeOK
  <2>2. v \in Left => Append(queue, v) \in Seq(LeftOrNil)
    BY <2>1, <1>1
  <2>3. queue' = queue \/ (v \in Left /\ queue' = Append(queue, v))
    BY DEF Reset, Left
  <2>4. QED BY <2>1, <2>2, <2>3
<1>5. at' \in {"reset", "bfs", "dfs", "augment", "execute", "done"}
  BY DEF Reset, TypeOK
<1>6. UNCHANGED <<e, pair, path, matching>>
  BY DEF Reset
<1>7. QED BY <1>2, <1>3, <1>4, <1>5, <1>6, TypeFrom, SamePair DEF TypeOK, AheadOK

LEMMA TypeTakeFront == ASSUME HInv, TakeFront PROVE TypeOK'
<1> USE DEF HInv
<1>1. queue \in Seq(LeftOrNil) /\ queue # <<>>
  BY DEF TakeFront, TypeOK
<1>2. Head(queue) \in LeftOrNil /\ Tail(queue) \in Seq(LeftOrNil)
  BY <1>1
<1>3. CASE Head(queue) = Nil
  <2>1. path' = <<>> /\ queue' = Tail(queue) /\ UNCHANGED <<e, pair, dist, at, v, matching>>
    BY <1>3 DEF TakeFront
  <2>2. path' \in Seq(Loops) /\ DOMAIN path' = {}
    BY <2>1
  <2>3. QED BY <1>2, <2>1, <2>2, TypeFrom, SamePair DEF TypeOK
<1>4. CASE Head(queue) # Nil
  <2>1. path' = <<Loop(Head(queue))>> /\ queue' = Tail(queue) /\ UNCHANGED <<e, pair, dist, at, v, matching>>
    BY <1>4 DEF TakeFront
  <2>2. Head(queue) \in Left
    BY <1>2, <1>4 DEF LeftOrNil
  <2>3. Loop(Head(queue)) \in Loops /\ Loop(Head(queue)).ahead = Neighbours(Loop(Head(queue)).of)
    BY <2>2, LoopIs
  <2>4. path' \in Seq(Loops) /\ \A i \in DOMAIN path' : path'[i] = Loop(Head(queue))
    BY <2>1, <2>3
  <2>5. \A i \in DOMAIN path' : path'[i].ahead \subseteq Neighbours(path'[i].of)
    BY <2>3, <2>4
  <2>6. QED BY <1>2, <2>1, <2>4, <2>5, TypeFrom, SamePair DEF TypeOK
<1>5. QED BY <1>3, <1>4

\* A vertex that bfs has reached is nearer than there are vertices on the left.
LEMMA NearIsBounded ==
    ASSUME TypeOK, InSteps, NEW x \in Left, dist[x] # Inf
    PROVE  dist[x] \in Nat /\ dist[x] + 1 \in 0..Inf - 1
<1>1. Left = 1..Size(e) /\ Size(e) \in 0..MaxLeft /\ IsFiniteSet(Left)
  BY GraphShape DEF TypeOK
<1>2. \A z \in Left : z \in LeftOrNil /\ dist[z] \in Nat /\ dist[z] <= Inf
  BY InfIs DEF TypeOK, LeftOrNil
<1> DEFINE d == dist[x]
           M == {j \in 0..d : \A z \in Left : dist[z] # d - j}
<1>3. d \in Nat /\ d < Inf
  BY <1>2, InfIs
<1>4. M = {}
  <2>1. SUFFICES ASSUME M # {} PROVE FALSE
    OBVIOUS
  <2>2. M \in SUBSET Nat
    BY <1>3
  <2>3. PICK k \in M : \A j \in M : k <= j
    BY <2>1, <2>2, LeastNumber
  <2>4. k # 0
    BY <1>3
  <2>5. k - 1 \in 0..d /\ k - 1 \notin M
    BY <2>3, <2>4, <1>3
  <2>6. PICK z \in Left : dist[z] = d - (k - 1)
    BY <2>5
  <2>7. dist[z] # 0 /\ dist[z] # Inf
    BY <2>3, <2>6, <1>3, InfIs
  <2>8. PICK y \in Left : dist[y] = dist[z] - 1
    BY <2>7, <1>2 DEF InSteps
  <2>9. dist[y] = d - k
    BY <2>3, <2>6, <2>8, <1>3
  <2>10. QED BY <2>3, <2>9
<1>5. \A k \in 0..d : \E z \in Left : dist[z] = k
  <2>1. ASSUME NEW k \in 0..d PROVE \E z \in Left : dist[z] = k
    <3>1. d - k \in 0..d /\ d - (d - k) = k
      BY <1>3
    <3>2. QED BY <1>4, <3>1
  <2>2. QED BY <2>1
<1> DEFINE T == {dist[z] : z \in Left}
           f == [z \in Left |-> dist[z]]
<1>6. IsFiniteSet(T) /\ Cardinality(T) <= Cardinality(Left)
  <2>1. f \in Surjection(Left, T)
    BY DEF Surjection
  <2>2. QED BY <2>1, <1>1, FS_Surjection
<1>7. 0..d \subseteq T
  BY <1>5
<1>8. Cardinality(0..d) <= Cardinality(T)
  BY <1>6, <1>7, FS_Subset
<1>9. Cardinality(0..d) = d + 1
  BY <1>3, FS_Interval
<1>10. Cardinality(Left) = Size(e)
  BY DEF Left, Size
<1>11. Cardinality(T) \in Nat
  BY <1>6, FS_CardinalityType
<1> HIDE DEF d, T
<1>12. d + 1 <= Size(e)
  BY <1>6, <1>8, <1>9, <1>10, <1>11, <1>3, <1>1
<1>13. d + 1 \in 0..Inf - 1
  BY <1>12, <1>3, <1>1, Bounds, InfIs
<1>14. QED BY <1>13, <1>3 DEF d

\* The next edge of a vertex taken out of the queue.
LEMMA SpreadIs ==
    ASSUME TypeOK, at = "bfs", path # <<>>, Len(path) <= 1
    PROVE  /\ Head(path) = path[1] /\ path = <<path[1]>> /\ path[1] \in Loops /\ path[1].of \in Left
           /\ path[1].of \in LeftOrNil
           /\ path[1].ahead \subseteq Neighbours(path[1].of)
           /\ path[1].ahead # {} =>
                 /\ Second(path[1]) \in path[1].ahead
                 /\ Second(path[1]) \in Right
                 /\ pair[Second(path[1])] \in LeftOrNil
<1>1. Len(path) = 1 /\ DOMAIN path = 1..1 /\ Last = path[1]
  BY TopIs DEF Last
<1>2. path = <<path[1]>> /\ Head(path) = path[1]
  BY <1>1 DEF TypeOK
<1>3. QED BY <1>1, <1>2, TopIs, SecondAhead DEF TypeOK, LeftOrNil

LEMMA TypeSpread == ASSUME HInv, Spread PROVE TypeOK'
<1> USE DEF HInv
<1> DEFINE loop == path[1]
           near == pair[Second(path[1])]
<1>1. at = "bfs" /\ path # <<>> /\ Len(path) <= 1 /\ TypeOK
  BY DEF Spread, Calls
<1>2. /\ Head(path) = loop /\ loop \in Loops /\ loop.of \in Left /\ loop.of \in LeftOrNil
      /\ loop.ahead \subseteq Neighbours(loop.of)
      /\ loop.ahead # {} => near \in LeftOrNil
  BY <1>1, SpreadIs
<1>3. UNCHANGED <<e, pair, at, v, matching>>
  BY DEF Spread
<1>4. PairOK'
  BY <1>1, <1>3, SamePair
<1>5. CASE loop.ahead = {}
  <2>1. path' = <<>> /\ UNCHANGED <<dist, queue>>
    BY <1>2, <1>5 DEF Spread
  <2>2. path' \in Seq(Loops) /\ DOMAIN path' = {}
    BY <2>1
  <2>3. QED BY <1>1, <1>3, <1>4, <2>1, <2>2, TypeFrom DEF TypeOK
<1>6. CASE loop.ahead # {}
  <2>1. path' = <<Passed(loop)>>
    BY <1>2, <1>6 DEF Spread
  <2>2. Passed(loop) \in Loops /\ Passed(loop).ahead \subseteq Neighbours(Passed(loop).of)
    BY <1>2, PassedIs
  <2>3. path' \in Seq(Loops) /\ \A i \in DOMAIN path' : path'[i] = Passed(loop)
    BY <2>1, <2>2
  <2>4. \A i \in DOMAIN path' : path'[i].ahead \subseteq Neighbours(path'[i].of)
    BY <2>2, <2>3
  <2>5. dist' \in [LeftOrNil -> 0..Inf] /\ queue' \in Seq(LeftOrNil)
    <3>1. dist \in [LeftOrNil -> 0..Inf] /\ queue \in Seq(LeftOrNil)
      BY <1>1 DEF TypeOK
    <3>2. dist[loop.of] + 1 \in 0..Inf
      <4>1. InSteps /\ dist[loop.of] # Inf
        BY <1>1 DEF Search
      <4>2. QED BY <1>1, <1>2, <4>1, NearIsBounded, InfIs
    <3>3. Append(queue, near) \in Seq(LeftOrNil)
      BY <3>1, <1>2, <1>6
    <3>4. [dist EXCEPT ![near] = dist[loop.of] + 1] \in [LeftOrNil -> 0..Inf]
      BY <3>1, <3>2
    <3>5. \/ UNCHANGED <<dist, queue>>
          \/ dist' = [dist EXCEPT ![near] = dist[loop.of] + 1] /\ queue' = Append(queue, near)
      BY <1>2, <1>6 DEF Spread
    <3>6. QED BY <3>1, <3>3, <3>4, <3>5
  <2>6. QED BY <1>1, <1>3, <1>4, <2>3, <2>4, <2>5, TypeFrom DEF TypeOK
<1>7. QED BY <1>5, <1>6

LEMMA TypeBfsReturns == ASSUME HInv, BfsReturns PROVE TypeOK'
<1> USE DEF HInv
<1>1. UNCHANGED <<e, pair, dist, queue, path, matching>> /\ at' \in {"execute", "done"} /\ v' = 1
  BY DEF BfsReturns
<1>2. 1 \in 1..Size(e) + 1
  BY GraphShape, Bounds DEF TypeOK
<1>3. QED BY <1>1, <1>2, TypeFrom, SamePair DEF TypeOK, AheadOK

\* What execute and the returns of dfs do to the loop over the left side.
LEMMA LeftHasNext == ASSUME TypeOK PROVE 1 \in 1..Size(e) + 1 /\ (v \in Left => v + 1 \in 1..Size(e) + 1)
BY GraphShape, Bounds DEF TypeOK

LEMMA TypeExecute == ASSUME HInv, Execute PROVE TypeOK'
<1> USE DEF HInv
<1>1. UNCHANGED <<e, pair, dist, queue, matching>> /\ at' \in {"dfs", "execute", "reset"}
  BY DEF Execute
<1>2. v' \in 1..Size(e) + 1
  <2>1. v' = v \/ v' = 1 \/ (v \in Left /\ v' = v + 1)
    BY DEF Execute, Left
  <2>2. QED BY <2>1, LeftHasNext DEF TypeOK
<1>3. path' \in Seq(Loops) /\ \A i \in DOMAIN path' : path'[i].ahead \subseteq Neighbours(path'[i].of)
  <2>1. CASE UNCHANGED path
    BY <2>1 DEF TypeOK, AheadOK
  <2>2. CASE v \in Left /\ path' = <<Loop(v)>>
    <3>1. Loop(v) \in Loops /\ Loop(v).ahead = Neighbours(Loop(v).of)
      BY <2>2, LoopIs
    <3>2. path' \in Seq(Loops) /\ \A i \in DOMAIN path' : path'[i] = Loop(v)
      BY <2>2, <3>1
    <3>3. QED BY <3>1, <3>2
  <2>3. QED BY <2>1, <2>2 DEF Execute, Left
<1>4. QED BY <1>1, <1>2, <1>3, TypeFrom, SamePair DEF TypeOK

LEMMA TypeDfs == ASSUME HInv, Dfs PROVE TypeOK'
<1> USE DEF HInv
<1>1. UNCHANGED <<e, pair, dist, v, queue, matching>> /\ at' \in {"dfs", "augment"}
  BY DEF Dfs
<1>2. TypeOK /\ path # <<>> /\ Last.ahead # {}
  BY DEF Dfs, Calls
<1>3. path' \in Seq(Loops) /\ \A i \in DOMAIN path' : path'[i].ahead \subseteq Neighbours(path'[i].of)
  <2>1. CASE UNCHANGED path
    BY <2>1 DEF TypeOK, AheadOK
  <2>2. CASE path' = Append(Below, Passed(Last))
    BY <1>2, <2>2, PathPassed
  <2>3. CASE pair[Second(Last)] # Nil /\ path' = Append(path, Loop(pair[Second(Last)]))
    <3> DEFINE l == Loop(pair[Second(Last)])
    <3>1. pair[Second(Last)] \in Left
      BY <1>2, <2>3, TopIs DEF LeftOrNil
    <3>2. l \in Loops /\ l.ahead = Neighbours(l.of)
      BY <3>1, LoopIs
    <3> HIDE DEF l
    <3>3. path \in Seq(Loops) /\ AheadOK
      BY <1>2 DEF TypeOK
    <3>4. path' = Append(path, l)
      BY <2>3 DEF l
    <3>5. /\ path' \in Seq(Loops) /\ DOMAIN path' = 1..Len(path) + 1 /\ DOMAIN path = 1..Len(path)
          /\ path'[Len(path) + 1] = l
          /\ \A i \in 1..Len(path) : path'[i] = path[i]
      BY <3>2, <3>3, <3>4
    <3>6. \A i \in DOMAIN path' : i \in 1..Len(path) \/ i = Len(path) + 1
      BY <3>5, <3>3
    <3>7. QED BY <3>2, <3>3, <3>5, <3>6 DEF AheadOK
  <2>4. QED BY <2>1, <2>2, <2>3 DEF Dfs
<1>4. QED BY <1>1, <1>3, TypeFrom, SamePair DEF TypeOK

\* The loop over the left side when a call of dfs returns.
LEMMA ResumesIs ==
    ASSUME HInv, at \in {"dfs", "augment"}, Resumes
    PROVE  /\ v \in Left /\ v' \in 1..Size(e) + 1 /\ at' \in {at, "execute"}
           /\ at' = "execute" <=> Len(path) = 1
           /\ Len(path) # 1 => UNCHANGED <<at, v>>
<1>1. path # <<>> /\ path[1].of = v /\ TypeOK
  BY DEF HInv, Calls
<1>2. v \in Left
  <2>1. 1 \in DOMAIN path /\ path \in Seq(Loops)
    BY <1>1, TopIs DEF TypeOK
  <2>2. path[1] \in Loops
    BY <2>1
  <2>3. QED BY <1>1, <2>2 DEF Loops
<1>3. QED BY <1>1, <1>2, LeftHasNext DEF Resumes, TypeOK

LEMMA TypeFail == ASSUME HInv, Fail PROVE TypeOK'
<1>1. TypeOK /\ path # <<>> /\ at = "dfs" /\ UNCHANGED <<e, pair, queue, matching>>
  BY DEF Fail, HInv, Calls
<1>2. v' \in 1..Size(e) + 1 /\ at' \in {"dfs", "execute"}
  BY <1>1, ResumesIs DEF Fail
<1>3. path' \in Seq(Loops) /\ \A i \in DOMAIN path' : path'[i].ahead \subseteq Neighbours(path'[i].of)
  BY <1>1, PathFailed DEF Fail
<1>4. dist' \in [LeftOrNil -> 0..Inf]
  <2>1. Inf \in 0..Inf
    BY InfIs
  <2>2. dist' = [dist EXCEPT ![Last.of] = Inf]
    BY DEF Fail
  <2>3. QED BY <1>1, <2>1, <2>2 DEF TypeOK
<1>5. QED BY <1>1, <1>2, <1>3, <1>4, TypeFrom, SamePair DEF TypeOK

\* The edge that comes into the matching.
LEMMA Turns ==
    ASSUME HInv, Augment
    PROVE  /\ TypeOK /\ path # <<>> /\ Last.ahead # {}
           /\ Last.of \in Left /\ Turning \in Right /\ <<Last.of, Turning>> \in e
           /\ Left \cap Right = {} /\ Nil \notin Left /\ Nil \notin Right
           /\ DOMAIN pair' = {Nil} \cup Left \cup Right /\ DOMAIN pair = {Nil} \cup Left \cup Right
           /\ pair'[Last.of] = Turning /\ pair'[Turning] = Last.of
           /\ \A z \in {Nil} \cup Left \cup Right : z # Last.of /\ z # Turning => pair'[z] = pair[z]
<1>1. TypeOK /\ path # <<>> /\ Last.ahead # {} /\ at = "augment"
  BY DEF HInv, Augment, Calls
<1>2. /\ Last.of \in Left /\ Turning \in Right /\ <<Last.of, Turning>> \in e
      /\ Left \cap Right = {} /\ Nil \notin Left /\ Nil \notin Right
  BY <1>1, TopIs, GraphShape DEF TypeOK, Turning
<1>3. pair' = [pair EXCEPT ![Turning] = Last.of, ![Last.of] = Turning]
  BY DEF Augment, Paired, Turning
<1>4. DOMAIN pair = {Nil} \cup Left \cup Right
  BY <1>1 DEF TypeOK, PairOK
<1>5. QED BY <1>1, <1>2, <1>3, <1>4

LEMMA TypeAugment == ASSUME HInv, Augment PROVE TypeOK'
<1>1. TypeOK /\ path # <<>> /\ at = "augment" /\ Last.ahead # {} /\ UNCHANGED <<e, dist, queue>>
  BY DEF Augment, HInv, Calls
<1>2. v' \in 1..Size(e) + 1 /\ at' \in {"augment", "execute"}
  BY <1>1, ResumesIs DEF Augment
<1>3. path' \in Seq(Loops) /\ \A i \in DOMAIN path' : path'[i].ahead \subseteq Neighbours(path'[i].of)
  BY <1>1, TopIs, PathBelow DEF Augment
<1>4. PairOK'
  <2>1. /\ pair \in [{Nil} \cup Left \cup Right -> {Nil} \cup Left \cup Right]
        /\ pair[Nil] = Nil
        /\ \A x \in Left : pair[x] \in {Nil} \cup Right
        /\ \A y \in Right : pair[y] \in {Nil} \cup Left
    BY <1>1 DEF TypeOK, PairOK, LeftOrNil
  <2>2. Left' = Left /\ Right' = Right /\ LeftOrNil' = {Nil} \cup Left
    BY <1>1, SameGraph DEF LeftOrNil
  <2>3. pair'[Nil] = Nil
    BY <2>1, Turns
  <2>4. \A x \in Left : pair'[x] \in {Nil} \cup Right
    BY <2>1, Turns
  <2>5. \A y \in Right : pair'[y] \in {Nil} \cup Left
    BY <2>1, Turns
  <2>6. pair' = [z \in {Nil} \cup Left \cup Right |-> pair'[z]]
    BY <2>1 DEF Augment, Paired
  <2>7. pair' \in [{Nil} \cup Left \cup Right -> {Nil} \cup Left \cup Right]
    BY <2>3, <2>4, <2>5, <2>6
  <2>8. QED BY <2>2, <2>3, <2>4, <2>5, <2>7 DEF PairOK
<1>5. matching' \in Nat
  BY <1>1 DEF Augment, TypeOK
<1>6. QED BY <1>1, <1>2, <1>3, <1>4, <1>5, TypeFrom DEF TypeOK

-----------------------------------------------------------------------------
(* The matching is kept.                                                   *)

LEMMA MutualKept ==
    ASSUME HInv, UNCHANGED <<e, pair>>, at # "augment", at' # "augment"
    PROVE  Mutual'
<1>1. LeftKnown /\ RightKnown(Right)
  BY DEF HInv, Mutual
<1>2. LeftKnown' /\ RightKnown(Right)'
  BY <1>1, SameGraph DEF LeftKnown, RightKnown
<1>3. QED BY <1>2 DEF Mutual

LEMMA CountKept ==
    ASSUME HInv, UNCHANGED <<e, pair, matching>>
    PROVE  Counted'
BY SameGraph DEF HInv, Counted, Partnered

LEMMA MutualDfs == ASSUME HInv, Dfs PROVE Mutual'
<1>1. UNCHANGED <<e, pair>> /\ at = "dfs" /\ TypeOK /\ path # <<>> /\ Last.ahead # {}
  BY DEF Dfs, HInv, Calls
<1>2. CASE at' # "augment"
  BY <1>1, <1>2, MutualKept
<1>3. CASE at' = "augment"
  <2>1. pair[Turning] = Nil /\ UNCHANGED path
    BY <1>1, <1>3 DEF Dfs, Turning
  <2>2. LeftKnown /\ RightKnown(Right)
    BY <1>1 DEF HInv, Mutual
  <2>3. Nil \notin Left /\ \A x \in Left : pair[x] \in {Nil} \cup Right
    BY <1>1, GraphShape DEF TypeOK, PairOK
  <2>4. Turning \in Right /\ Nil \notin Right
    BY <1>1, TopIs, GraphShape DEF TypeOK, Turning
  <2>5. \A x \in Left : pair[x] # Turning
    BY <2>1, <2>2, <2>3, <2>4 DEF LeftKnown
  <2>6. \A i \in DOMAIN path : path[i].of \in Left
    <3>1. \A i \in DOMAIN path : path[i] \in Loops
      BY <1>1, TopIs DEF TypeOK
    <3>2. QED BY <3>1 DEF Loops
  <2>7. Turning' = Turning
    BY <2>1 DEF Turning, Last, Second
  <2>8. LeftKnown' /\ RightKnown(Right \ {Turning})'
    BY <1>1, <2>2, <2>7, SameGraph DEF LeftKnown, RightKnown
  <2>9. (\A x \in Left : pair[x] # Turning)'
    BY <1>1, <2>5, <2>7, SameGraph
  <2>10. (\A i \in DOMAIN path : pair[Turning] # path[i].of)'
    BY <1>1, <2>1, <2>3, <2>6, <2>7
  <2>11. QED BY <1>3, <2>8, <2>9, <2>10 DEF Mutual
<1>4. QED BY <1>2, <1>3

\* The edges of different calls have different ends on the left, and the end of an edge on
\* the right was the partner of the next call.
LEMMA Alternates ==
    ASSUME HInv, Augment
    PROVE  /\ \A i, j \in DOMAIN path : i # j => path[i].of # path[j].of
           /\ \A i \in 1..Len(path) - 1 :
                 /\ path[i].ahead # {} /\ Second(path[i]) \in Right /\ path[i].of \in Left
                 /\ Second(path[i]) # Turning
                 /\ pair[Second(path[i])] = path[i + 1].of
           /\ DOMAIN path = 1..Len(path) /\ Len(path) \in Nat /\ Len(path) >= 1
           /\ Last = path[Len(path)]
<1>1. /\ TypeOK /\ path # <<>> /\ at = "augment"
      /\ \A i \in 1..Len(path) - 1 :
            path[i].ahead # {} /\ pair[Second(path[i])] = path[i + 1].of
      /\ \A i, j \in DOMAIN path : i < j => dist[path[i].of] < dist[path[j].of]
      /\ \A i \in DOMAIN path : pair[Turning] # path[i].of
  BY DEF HInv, Augment, Calls, Mutual
<1>2. DOMAIN path = 1..Len(path) /\ Len(path) \in Nat /\ Len(path) >= 1
  BY <1>1, TopIs
<1>3. \A i \in DOMAIN path : path[i] \in Loops
  BY <1>1, <1>2 DEF TypeOK
<1>4. \A i \in DOMAIN path : path[i].of \in Left /\ dist[path[i].of] \in Nat
  BY <1>1, <1>3, InfIs DEF TypeOK, Loops, LeftOrNil
<1>5. ASSUME NEW i \in DOMAIN path, NEW j \in DOMAIN path, i # j PROVE path[i].of # path[j].of
  <2>1. i < j \/ j < i
    BY <1>2, <1>5
  <2>2. dist[path[i].of] # dist[path[j].of]
    BY <1>1, <1>4, <2>1
  <2>3. QED BY <2>2
<1>6. ASSUME NEW i \in 1..Len(path) - 1
      PROVE  Second(path[i]) \in Right /\ Second(path[i]) # Turning /\ path[i].of \in Left
  <2>1. i \in DOMAIN path /\ i + 1 \in DOMAIN path /\ path[i].ahead # {}
    <3>1. i \in 1..Len(path) /\ i + 1 \in 1..Len(path)
      BY <1>2
    <3>2. QED BY <1>1, <1>2, <3>1
  <2>2. Second(path[i]) \in path[i].ahead
    BY <1>1, <1>3, <2>1, SecondAhead DEF TypeOK
  <2>3. path[i].ahead \subseteq Right
    BY <1>3, <2>1 DEF Loops
  <2>4. Second(path[i]) # Turning
    BY <1>1, <2>1
  <2>5. QED BY <2>2, <2>3, <2>4, <2>1, <1>4
<1>7. QED BY <1>1, <1>2, <1>5, <1>6 DEF Last

LEMMA MutualAugment == ASSUME HInv, Augment PROVE Mutual'
<1> DEFINE n == Len(path)
           x == Last.of
           y == Turning
<1>1. /\ at = "augment" /\ path[1].of = v /\ pair[v] = Nil
      /\ LeftKnown /\ RightKnown(Right \ {y})
      /\ \A z \in Left : pair[z] # y
  BY DEF HInv, Augment, Calls, Mutual
<1>2. /\ Left' = Left /\ Right' = Right
      /\ \A z \in Left : pair[z] \in {Nil} \cup Right
      /\ \A w \in Right : pair[w] \in {Nil} \cup Left
  BY SameGraph DEF Augment, HInv, TypeOK, PairOK, LeftOrNil
<1>3. /\ x \in Left /\ y \in Right /\ <<x, y>> \in e
      /\ Left \cap Right = {} /\ Nil \notin Left /\ Nil \notin Right
      /\ pair'[x] = y /\ pair'[y] = x
      /\ \A z \in Left \cup Right : z # x /\ z # y => pair'[z] = pair[z]
  BY Turns
<1>4. n \in Nat /\ n >= 1 /\ DOMAIN path = 1..n /\ x = path[n].of
  BY Alternates
<1>5. path' = Below /\ e' = e
  BY DEF Augment
<1> HIDE DEF n, x, y
<1>6. LeftKnown'
  <2>1. ASSUME NEW z \in Left, pair'[z] # Nil
        PROVE  pair'[pair'[z]] = z /\ <<z, pair'[z]>> \in e
    <3>1. CASE z = x
      BY <1>3, <3>1
    <3>2. CASE z # x
      <4>1. pair'[z] = pair[z] /\ pair[z] \in Right /\ pair[pair[z]] = z /\ <<z, pair[z]>> \in e
        BY <1>1, <1>2, <1>3, <2>1, <3>2 DEF LeftKnown
      <4>2. pair[z] # y /\ pair[z] # x
        BY <1>1, <1>3, <4>1
      <4>3. QED BY <1>3, <4>1, <4>2
    <3>3. QED BY <3>1, <3>2
  <2>2. QED BY <2>1, <1>2, <1>5 DEF LeftKnown
<1>7. CASE n = 1
  <2>1. pair[x] = Nil /\ at' = "execute"
    BY <1>1, <1>4, <1>7 DEF Augment, Resumes, n
  <2>2. ASSUME NEW w \in Right, pair'[w] # Nil PROVE pair'[pair'[w]] = w
    <3>1. CASE w = y
      BY <1>3, <3>1
    <3>2. CASE w # y
      <4>1. pair'[w] = pair[w] /\ pair[w] \in Left /\ pair[pair[w]] = w
        BY <1>1, <1>2, <1>3, <2>2, <3>2 DEF RightKnown
      <4>2. pair[w] # x /\ pair[w] # y
        BY <1>3, <2>1, <4>1
      <4>3. QED BY <1>3, <4>1, <4>2
    <3>3. QED BY <3>1, <3>2
  <2>3. RightKnown(Right)'
    BY <2>2, <1>2 DEF RightKnown
  <2>4. QED BY <1>6, <2>1, <2>3 DEF Mutual
<1>8. CASE n # 1
  <2> DEFINE y2 == Second(path[n - 1])
  <2>1. n - 1 \in 1..n - 1 /\ at' = "augment"
    BY <1>4, <1>8, <1>1 DEF Augment, Resumes, n
  <2>2. y2 \in Right /\ y2 # y /\ pair[y2] = x
    <3>1. /\ Second(path[n - 1]) \in Right /\ Second(path[n - 1]) # Turning
          /\ pair[Second(path[n - 1])] = path[(n - 1) + 1].of
      BY <2>1, Alternates DEF n
    <3>2. (n - 1) + 1 = n
      BY <1>4
    <3>3. QED BY <3>1, <3>2, <1>4 DEF y
  <2>3. pair[x] = y2
    BY <1>1, <1>3, <2>2 DEF RightKnown
  <2>4. Turning' = y2 /\ \A i \in DOMAIN path' : i \in 1..n - 1 /\ path'[i] = path[i]
    <3>1. /\ Len(path') = n - 1 /\ DOMAIN path' = 1..n - 1
          /\ \A i \in 1..n - 1 : path'[i] = path[i]
      BY <1>5, TopIs, Turns DEF n
    <3>2. Last' = path[n - 1]
      BY <3>1, <2>1 DEF Last
    <3>3. QED BY <3>1, <3>2 DEF Turning, Second
  <2> HIDE DEF y2
  <2>5. ASSUME NEW w \in Right \ {y2}, pair'[w] # Nil PROVE pair'[pair'[w]] = w
    <3>1. CASE w = y
      BY <1>3, <3>1
    <3>2. CASE w # y
      <4>1. pair'[w] = pair[w] /\ pair[w] \in Left /\ pair[pair[w]] = w
        BY <1>1, <1>2, <1>3, <2>5, <3>2 DEF RightKnown
      <4>2. pair[w] # x /\ pair[w] # y
        BY <1>3, <2>3, <4>1
      <4>3. QED BY <1>3, <4>1, <4>2
    <3>3. QED BY <3>1, <3>2
  <2>6. RightKnown(Right \ {Turning})'
    BY <2>4, <2>5, <1>2 DEF RightKnown
  <2>7. ASSUME NEW z \in Left PROVE pair'[z] # y2
    <3>1. CASE z = x
      BY <1>3, <2>2, <3>1
    <3>2. CASE z # x
      <4>1. pair'[z] = pair[z]
        BY <1>3, <3>2
      <4>2. pair[z] = y2 => pair[y2] = z
        BY <1>1, <1>3, <2>2 DEF LeftKnown
      <4>3. QED BY <2>2, <3>2, <4>1, <4>2
    <3>3. QED BY <3>1, <3>2
  <2>8. pair'[y2] = x
    BY <1>3, <2>2
  <2>9. ASSUME NEW i \in DOMAIN path' PROVE x # path'[i].of
    <3>1. i \in DOMAIN path /\ n \in DOMAIN path /\ i # n /\ path'[i] = path[i]
      BY <1>4, <2>4, <2>9
    <3>2. path[i].of # path[n].of
      BY <3>1, Alternates
    <3>3. QED BY <3>1, <3>2, <1>4
  <2>10. (\A z \in Left : pair[z] # Turning)'
    BY <1>2, <2>4, <2>7
  <2>11. (\A i \in DOMAIN path : pair[Turning] # path[i].of)'
    BY <2>4, <2>8, <2>9
  <2>12. QED BY <1>6, <2>1, <2>6, <2>10, <2>11 DEF Mutual
<1>9. QED BY <1>7, <1>8

LEMMA CountAugment == ASSUME HInv, Augment PROVE Counted'
<1> DEFINE n == Len(path)
           x == Last.of
<1>1. /\ at = "augment" /\ path[1].of = v /\ pair[v] = Nil
      /\ RightKnown(Right \ {Turning}) /\ matching = Cardinality(Partnered)
  BY DEF HInv, Augment, Calls, Mutual, Counted
<1>2. x \in Left /\ Turning \in Right /\ Nil \notin Right /\ Nil \notin Left
      /\ pair'[x] = Turning /\ \A z \in Left : z # x => pair'[z] = pair[z]
  BY Turns
<1>3. Left' = Left
  BY SameGraph DEF Augment
<1>4. n \in Nat /\ n >= 1 /\ x = path[n].of
  BY Alternates
<1>5. Partnered' = Partnered \cup {x}
  BY <1>2, <1>3 DEF Partnered
<1>6. IsFiniteSet(Partnered)
  <2>1. IsFiniteSet(Left)
    BY GraphShape DEF HInv, TypeOK
  <2>2. QED BY <2>1, FS_Subset DEF Partnered
<1>7. CASE n = 1
  <2>1. x \notin Partnered /\ matching' = matching + 1
    BY <1>1, <1>4, <1>7 DEF Partnered, Augment
  <2>2. QED BY <1>1, <1>5, <1>6, <2>1, FS_AddElement DEF Counted
<1>8. CASE n # 1
  <2>1. n - 1 \in 1..n - 1 /\ (n - 1) + 1 = n
    <3> HIDE DEF n
    <3>1. QED BY <1>4, <1>8
  <2>2. /\ Second(path[n - 1]) \in Right \ {Turning}
        /\ pair[Second(path[n - 1])] = x
    BY <2>1, <1>4, Alternates
  <2>3. pair[x] = Second(path[n - 1])
    BY <2>2, <1>1, <1>2 DEF RightKnown
  <2>4. x \in Partnered /\ matching' = matching
    BY <2>2, <2>3, <1>2, <1>8 DEF Partnered, Augment
  <2>5. Partnered' = Partnered
    BY <1>5, <2>4
  <2>6. QED BY <1>1, <2>4, <2>5 DEF Counted
<1>9. QED BY <1>7, <1>8

-----------------------------------------------------------------------------
(* The calls under way.                                                    *)

\* Outside dfs.
LEMMA CallsElsewhere ==
    ASSUME at' \notin {"dfs", "augment"},
           at' = "bfs" => Len(path') <= 1,
           at' \in {"reset", "execute", "done"} => path' = <<>>
    PROVE  Calls'
BY DEF Calls

LEMMA CallsBfs ==
    ASSUME HInv, Reset \/ TakeFront \/ Spread \/ BfsReturns
    PROVE  Calls'
<1>1. at \in {"reset", "bfs"} /\ (at = "reset" => path = <<>>) /\ Len(<<>>) <= 1
  BY DEF HInv, Calls, Reset, TakeFront, Spread, BfsReturns
<1>2. at' \notin {"dfs", "augment"}
  BY <1>1 DEF Reset, TakeFront, Spread, BfsReturns
<1>3. \A l : Len(<<l>>) <= 1
  OBVIOUS
<1>4. at' = "bfs" => Len(path') <= 1
  BY <1>1, <1>3 DEF Reset, TakeFront, Spread, BfsReturns
<1>5. at' \in {"reset", "execute", "done"} => path' = <<>>
  BY <1>1 DEF Reset, TakeFront, Spread, BfsReturns
<1>6. QED BY <1>2, <1>4, <1>5, CallsElsewhere

LEMMA CallsExecute == ASSUME HInv, Execute PROVE Calls'
<1>1. path = <<>> /\ at = "execute" /\ UNCHANGED <<e, pair, dist>>
  BY DEF HInv, Calls, Execute
<1>2. CASE v \in Lefts(e) /\ pair[v] = Nil
  <2>1. path' = <<Loop(v)>> /\ at' = "dfs" /\ v' = v
    BY <1>1, <1>2 DEF Execute
  <2>2. /\ path' # <<>> /\ Len(path') = 1 /\ DOMAIN path' = 1..1 /\ path'[1].of = v
    BY <2>1 DEF Loop
  <2>3. QED BY <1>1, <1>2, <2>1, <2>2 DEF Calls
<1>3. CASE ~(v \in Lefts(e) /\ pair[v] = Nil)
  <2>1. path' = <<>> /\ at' \in {"execute", "reset"}
    BY <1>1, <1>3 DEF Execute
  <2>2. QED BY <2>1, CallsElsewhere
<1>4. QED BY <1>2, <1>3

\* The calls of dfs, by the places of the path.
LEMMA CallsAre ==
    ASSUME HInv, at \in {"dfs", "augment"}
    PROVE  /\ TypeOK /\ path # <<>> /\ path[1].of = v /\ pair[v] = Nil
           /\ Len(path) \in Nat /\ Len(path) >= 1 /\ DOMAIN path = 1..Len(path)
           /\ \A i \in 1..Len(path) - 1 :
                 path[i].ahead # {} /\ pair[Second(path[i])] = path[i + 1].of
           /\ \A i, j \in 1..Len(path) : i < j => dist[path[i].of] < dist[path[j].of]
           /\ \A i \in 1..Len(path) :
                 path[i].of \in Left /\ path[i].of \in LeftOrNil /\ dist[path[i].of] \in Nat
           /\ \A i \in 1..Len(path) - 1 : path[i].of # Last.of
           /\ Last = path[Len(path)]
<1>1. /\ TypeOK /\ path # <<>> /\ path[1].of = v /\ pair[v] = Nil
      /\ \A i \in 1..Len(path) - 1 :
            path[i].ahead # {} /\ pair[Second(path[i])] = path[i + 1].of
      /\ \A i, j \in DOMAIN path : i < j => dist[path[i].of] < dist[path[j].of]
  BY DEF HInv, Calls
<1>2. DOMAIN path = 1..Len(path) /\ Len(path) \in Nat /\ Len(path) >= 1
  BY <1>1, TopIs
<1>3. \A i \in 1..Len(path) : path[i] \in Loops
  BY <1>1, <1>2 DEF TypeOK
<1>4. \A i \in 1..Len(path) :
         path[i].of \in Left /\ path[i].of \in LeftOrNil /\ dist[path[i].of] \in Nat
  BY <1>1, <1>3, InfIs DEF TypeOK, Loops, LeftOrNil
<1>5. ASSUME NEW i \in 1..Len(path) - 1 PROVE path[i].of # Last.of
  <2>1. i \in 1..Len(path) /\ Len(path) \in 1..Len(path) /\ i < Len(path)
    BY <1>2
  <2>2. dist[path[i].of] < dist[path[Len(path)].of]
    BY <1>1, <1>2, <2>1
  <2>3. dist[path[i].of] # dist[path[Len(path)].of]
    BY <1>4, <2>1, <2>2
  <2>4. QED BY <2>3 DEF Last
<1>6. QED BY <1>1, <1>2, <1>4, <1>5 DEF Last

\* A path whose calls are still where they were, with the same distances.
LEMMA CallsOn ==
    ASSUME at' \in {"dfs", "augment"},
           NEW n \in Nat, n >= 1,
           path' # <<>>, Len(path') = n, DOMAIN path' = 1..n,
           path'[1].of = v', pair'[v'] = Nil,
           \A i \in 1..n - 1 : path'[i].ahead # {} /\ pair'[Second(path'[i])] = path'[i + 1].of,
           \A i, j \in 1..n : i < j => dist'[path'[i].of] < dist'[path'[j].of],
           at' = "augment" => path'[n].ahead # {}
    PROVE  Calls'
<1>1. \A l : Second(l)' = Second(l)
  BY DEF Second
<1>2. \A i \in 1..Len(path') - 1 : path'[i].ahead # {} /\ (pair[Second(path[i])])' = path'[i + 1].of
  BY <1>1
<1>3. at' = "augment" => Last'.ahead # {}
  BY DEF Last
<1>4. QED BY <1>2, <1>3 DEF Calls

LEMMA CallsDfs == ASSUME HInv, Dfs PROVE Calls'
<1>1. /\ at = "dfs" /\ UNCHANGED <<e, pair, dist, v>> /\ Last.ahead # {}
  BY DEF Dfs
<1> DEFINE n == Len(path)
<1>2. /\ TypeOK /\ path # <<>> /\ path[1].of = v /\ pair[v] = Nil
      /\ n \in Nat /\ n >= 1 /\ DOMAIN path = 1..n
      /\ \A i \in 1..n - 1 : path[i].ahead # {} /\ pair[Second(path[i])] = path[i + 1].of
      /\ \A i, j \in 1..n : i < j => dist[path[i].of] < dist[path[j].of]
      /\ \A i \in 1..n : path[i].of \in LeftOrNil /\ dist[path[i].of] \in Nat
      /\ Last = path[n]
  BY <1>1, CallsAre
<1>3. CASE at' = "augment"
  <2>1. UNCHANGED path
    BY <1>1, <1>3 DEF Dfs
  <2>2. QED BY <1>1, <1>2, <1>3, <2>1, CallsOn
<1>4. CASE at' = "dfs" /\ path' = Append(Below, Passed(Last))
  <2>1. /\ Len(path') = n /\ DOMAIN path' = 1..n
        /\ \A i \in 1..n - 1 : path'[i] = path[i]
        /\ path'[n].of = path[n].of
    BY <1>2, <1>4, PathPassed
  <2> HIDE DEF n
  <2>2. \A i \in 1..n : path'[i].of = path[i].of
    <3>1. \A i \in 1..n : i = n \/ i \in 1..n - 1
      BY <1>2
    <3>2. QED BY <2>1, <3>1
  <2>3. path' # <<>> /\ 1 \in 1..n /\ \A i \in 1..n - 1 : i + 1 \in 1..n
    BY <1>2, <2>1
  <2>4. path'[1].of = v' /\ pair'[v'] = Nil
    BY <1>1, <1>2, <2>2, <2>3
  <2>5. \A i \in 1..n - 1 : path'[i].ahead # {} /\ pair'[Second(path'[i])] = path'[i + 1].of
    BY <1>1, <1>2, <2>1, <2>2, <2>3
  <2>6. \A i, j \in 1..n : i < j => dist'[path'[i].of] < dist'[path'[j].of]
    BY <1>1, <1>2, <2>2
  <2>7. at' # "augment"
    BY <1>4
  <2>8. QED BY <1>2, <1>4, <2>1, <2>3, <2>4, <2>5, <2>6, <2>7, CallsOn
<1>5. CASE at' = "dfs" /\ path' # Append(Below, Passed(Last))
  <2> DEFINE next == pair[Second(Last)]
             l == Loop(next)
  <2>1. path' = Append(path, l) /\ dist[next] = dist[Last.of] + 1 /\ next # Nil
    BY <1>1, <1>5 DEF Dfs
  <2>2. next \in Left
    BY <1>1, <1>2, <2>1, TopIs DEF LeftOrNil
  <2>3. l \in Loops /\ l.of = next
    BY <2>2, LoopIs
  <2> HIDE DEF l
  <2>4. /\ Len(path') = n + 1 /\ DOMAIN path' = 1..n + 1 /\ path' # <<>>
        /\ \A i \in 1..n : path'[i] = path[i]
        /\ path'[n + 1] = l
    BY <1>2, <2>1, <2>3 DEF TypeOK
  <2>5. pair[Second(path[n])] = path'[n + 1].of /\ path[n].ahead # {}
        /\ dist[path[n].of] < dist[path'[n + 1].of]
    BY <1>1, <1>2, <2>1, <2>3, <2>4
  <2> HIDE DEF n
  <2>6. \A i \in 1..(n + 1) - 1 : path'[i].ahead # {} /\ pair[Second(path'[i])] = path'[i + 1].of
    <3>1. \A i \in 1..(n + 1) - 1 : i \in 1..n /\ (i = n \/ (i \in 1..n - 1 /\ i + 1 \in 1..n))
      BY <1>2
    <3>2. QED BY <3>1, <1>2, <2>4, <2>5
  <2>7. ASSUME NEW i \in 1..n + 1, NEW j \in 1..n + 1, i < j
        PROVE  dist[path'[i].of] < dist[path'[j].of]
    <3>1. i \in 1..n
      BY <1>2, <2>7
    <3>2. CASE j \in 1..n
      BY <1>2, <2>4, <2>7, <3>1, <3>2
    <3>3. CASE j = n + 1
      <4>1. n \in 1..n /\ (i = n \/ i < n)
        BY <1>2, <3>1
      <4>2. CASE i = n
        BY <3>1, <3>3, <4>2, <2>4, <2>5
      <4>3. CASE i < n
        <5>1. dist[path[i].of] < dist[path[n].of] /\ dist[path[i].of] \in Nat /\ dist[path[n].of] \in Nat
          BY <1>2, <3>1, <4>1, <4>3
        <5>2. dist[path'[n + 1].of] = dist[path[n].of] + 1
          BY <1>2, <2>1, <2>3, <2>4
        <5>3. QED BY <2>4, <3>1, <3>3, <5>1, <5>2
      <4>4. QED BY <4>1, <4>2, <4>3
    <3>4. QED BY <2>7, <3>2, <3>3, <1>2
  <2>8. n + 1 \in Nat /\ n + 1 >= 1 /\ path'[1].of = v
    BY <1>2, <2>4
  <2>9. QED BY <1>1, <1>2, <1>5, <2>4, <2>6, <2>7, <2>8, CallsOn
<1>6. QED BY <1>1, <1>3, <1>4, <1>5 DEF Dfs

LEMMA CallsFail == ASSUME HInv, Fail PROVE Calls'
<1>1. /\ at = "dfs" /\ UNCHANGED <<e, pair>> /\ Resumes
      /\ dist' = [dist EXCEPT ![Last.of] = Inf]
  BY DEF Fail
<1> DEFINE n == Len(path)
<1>2. /\ TypeOK /\ path # <<>> /\ path[1].of = v /\ pair[v] = Nil
      /\ n \in Nat /\ n >= 1
      /\ \A i \in 1..n - 1 : path[i].ahead # {} /\ pair[Second(path[i])] = path[i + 1].of
      /\ \A i, j \in 1..n : i < j => dist[path[i].of] < dist[path[j].of]
      /\ \A i \in 1..n - 1 : path[i].of # Last.of
  BY <1>1, CallsAre
<1>3. /\ path' \in Seq(Loops) /\ Len(path') = n - 1 /\ DOMAIN path' = 1..n - 1
      /\ \A i \in 1..n - 1 : path'[i].of = path[i].of /\ (i < n - 1 => path'[i] = path[i])
  BY <1>2, PathFailed DEF Fail
<1>4. CASE n = 1
  <2>1. path' = <<>> /\ at' = "execute"
    BY <1>1, <1>3, <1>4 DEF Resumes
  <2>2. QED BY <2>1, CallsElsewhere
<1>5. CASE n # 1
  <2>1. at' = "dfs" /\ v' = v
    BY <1>1, <1>5 DEF Resumes
  <2>2. dist \in [LeftOrNil -> 0..Inf]
    BY <1>2 DEF TypeOK
  <2> HIDE DEF n
  <2>3. n - 1 \in Nat /\ n - 1 >= 1 /\ path' # <<>>
    BY <1>2, <1>3, <1>5
  <2>4. \A i \in 1..n - 1 : dist'[path'[i].of] = dist[path[i].of]
    BY <1>1, <1>2, <1>3, <2>2
  <2>5. \A i, j \in 1..n - 1 : i < j => dist'[path'[i].of] < dist'[path'[j].of]
    <3>1. \A i \in 1..n - 1 : i \in 1..n
      BY <1>2
    <3>2. QED BY <3>1, <2>4, <1>2
  <2>6. \A i \in 1..(n - 1) - 1 : path'[i].ahead # {} /\ pair'[Second(path'[i])] = path'[i + 1].of
    <3>1. \A i \in 1..(n - 1) - 1 : i \in 1..n - 1 /\ i < n - 1 /\ i + 1 \in 1..n - 1
      BY <1>2
    <3>2. QED BY <3>1, <1>1, <1>2, <1>3
  <2>7. path'[1].of = v
    BY <1>2, <1>3, <2>3
  <2>8. QED BY <1>1, <1>2, <1>3, <2>1, <2>3, <2>5, <2>6, <2>7, CallsOn
<1>6. QED BY <1>4, <1>5

LEMMA CallsAugment == ASSUME HInv, Augment PROVE Calls'
<1>1. at = "augment" /\ UNCHANGED <<e, dist>> /\ Resumes /\ path' = Below
  BY DEF Augment
<1> DEFINE n == Len(path)
<1>2. /\ TypeOK /\ path # <<>> /\ path[1].of = v /\ pair[v] = Nil
      /\ n \in Nat /\ n >= 1
      /\ \A i \in 1..n - 1 : path[i].ahead # {} /\ pair[Second(path[i])] = path[i + 1].of
      /\ \A i, j \in 1..n : i < j => dist[path[i].of] < dist[path[j].of]
      /\ \A i \in 1..n : path[i].of \in Left
      /\ \A i \in 1..n - 1 : path[i].of # Last.of
  BY <1>1, CallsAre
<1>3. /\ Len(path') = n - 1 /\ DOMAIN path' = 1..n - 1 /\ path' \in Seq(Loops)
      /\ \A i \in 1..n - 1 : path'[i] = path[i]
  BY <1>1, <1>2, TopIs
<1>4. CASE n = 1
  <2>1. path' = <<>> /\ at' = "execute"
    BY <1>1, <1>3, <1>4 DEF Resumes
  <2>2. QED BY <2>1, CallsElsewhere
<1>5. CASE n # 1
  <2>1. at' = "augment" /\ v' = v
    BY <1>1, <1>5 DEF Resumes
  <2>2. \A i \in 1..n - 1 : Second(path[i]) \in Right /\ Second(path[i]) # Turning
    BY Alternates
  <2>3. /\ Last.of \in Left /\ Turning \in Right /\ Left \cap Right = {}
        /\ \A z \in {Nil} \cup Left \cup Right : z # Last.of /\ z # Turning => pair'[z] = pair[z]
    BY Turns
  <2> HIDE DEF n
  <2>4. n - 1 \in Nat /\ n - 1 >= 1 /\ path' # <<>> /\ 1 \in 1..n - 1
    BY <1>2, <1>3, <1>5
  <2>5. path'[1].of = v /\ pair'[v] = Nil
    <3>1. path[1].of = v /\ v # Last.of /\ v \in Left
      BY <1>2, <2>4
    <3>2. v # Turning
      BY <2>3, <3>1
    <3>3. QED BY <1>2, <1>3, <2>3, <2>4, <3>1, <3>2
  <2>6. \A i \in 1..(n - 1) - 1 : path'[i].ahead # {} /\ pair'[Second(path'[i])] = path'[i + 1].of
    <3>1. \A i \in 1..(n - 1) - 1 : i \in 1..n - 1 /\ i + 1 \in 1..n - 1
      BY <1>2
    <3>2. \A i \in 1..n - 1 : pair'[Second(path[i])] = pair[Second(path[i])]
      BY <2>2, <2>3
    <3>3. QED BY <3>1, <3>2, <1>2, <1>3
  <2>7. \A i, j \in 1..n - 1 : i < j => dist'[path'[i].of] < dist'[path'[j].of]
    <3>1. \A i \in 1..n - 1 : i \in 1..n
      BY <1>2
    <3>2. QED BY <3>1, <1>1, <1>2, <1>3
  <2>8. path'[n - 1].ahead # {}
    <3>1. n - 1 \in 1..n - 1
      BY <2>4
    <3>2. QED BY <3>1, <1>2, <1>3
  <2>9. QED BY <1>3, <2>1, <2>4, <2>5, <2>6, <2>7, <2>8, CallsOn
<1>6. QED BY <1>4, <1>5

-----------------------------------------------------------------------------
(* The search.                                                             *)

LEMMA SearchReset == ASSUME HInv, Reset PROVE Search'
<1>1. /\ at = "reset" /\ TypeOK /\ UNCHANGED <<e, pair, path>> /\ path = <<>>
      /\ \A x \in Left : x < v => dist[x] = IF pair[x] = Nil THEN 0 ELSE Inf
      /\ Waiting = {x \in Left : x < v /\ pair[x] = Nil}
  BY DEF HInv, Reset, Calls, Search
<1>2. /\ Left = 1..Size(e) /\ Size(e) \in Nat /\ v \in 1..Size(e) + 1 /\ Nil \notin Left
      /\ Left' = Left /\ LeftOrNil' = LeftOrNil
      /\ dist \in [LeftOrNil -> 0..Inf] /\ LeftOrNil = {Nil} \cup Left
      /\ queue \in Seq(LeftOrNil)
  BY <1>1, GraphShape, SameGraph, Bounds DEF TypeOK, LeftOrNil
<1>3. CASE v \in Left
  <2>1. /\ dist' = [dist EXCEPT ![v] = IF pair[v] = Nil THEN 0 ELSE Inf]
        /\ queue' = IF pair[v] = Nil THEN Append(queue, v) ELSE queue
        /\ v' = v + 1 /\ at' = "reset"
    BY <1>1, <1>3 DEF Reset, Left
  <2>2. \A x \in Left : x < v + 1 => x < v \/ x = v
    BY <1>2
  <2>3. \A x \in Left : x < v' => dist'[x] = IF pair[x] = Nil THEN 0 ELSE Inf
    BY <1>1, <1>2, <1>3, <2>1, <2>2
  <2>4. Waiting' = {x \in Left : x < v' /\ pair[x] = Nil}
    <3>1. CASE pair[v] = Nil
      <4>1. Waiting' = Waiting \cup {v}
        <5>1. queue' = Append(queue, v) /\ DOMAIN queue = 1..Len(queue) /\ Len(queue) \in Nat
          BY <1>2, <2>1, <3>1
        <5>2. /\ DOMAIN queue' = 1..Len(queue) + 1
              /\ \A i \in 1..Len(queue) : queue'[i] = queue[i]
              /\ queue'[Len(queue) + 1] = v
          BY <1>2, <1>3, <5>1
        <5>3. \A i \in 1..Len(queue) + 1 : i \in 1..Len(queue) \/ i = Len(queue) + 1
          BY <5>1
        <5>4. Len(queue) + 1 \in 1..Len(queue) + 1 /\ \A i \in 1..Len(queue) : i \in 1..Len(queue) + 1
          BY <5>1
        <5>5. QED BY <5>1, <5>2, <5>3, <5>4 DEF Waiting
      <4>2. {x \in Left : x < v' /\ pair[x] = Nil} = {x \in Left : x < v /\ pair[x] = Nil} \cup {v}
        BY <1>2, <1>3, <2>1, <3>1
      <4>3. QED BY <1>1, <4>1, <4>2
    <3>2. CASE pair[v] # Nil
      <4>1. Waiting' = Waiting
        BY <2>1, <3>2 DEF Waiting
      <4>2. {x \in Left : x < v' /\ pair[x] = Nil} = {x \in Left : x < v /\ pair[x] = Nil}
        BY <1>2, <1>3, <2>1, <3>2
      <4>3. QED BY <1>1, <4>1, <4>2
    <3>3. QED BY <3>1, <3>2
  <2>5. QED BY <1>1, <1>2, <2>1, <2>3, <2>4 DEF Search
<1>4. CASE v \notin Left
  <2>1. dist' = [dist EXCEPT ![Nil] = Inf] /\ at' = "bfs" /\ queue' = queue
    BY <1>1, <1>4 DEF Reset, Left, NilIsFar
  <2>2. \A x \in Left : x < v
    BY <1>2, <1>4
  <2>3. \A x \in Left : dist'[x] = IF pair[x] = Nil THEN 0 ELSE Inf
    BY <1>1, <1>2, <2>1, <2>2
  <2>4. dist'[Nil] = Inf
    BY <1>2, <2>1
  <2>5. FreeIsNear' /\ InSteps'
    BY <1>1, <1>2, <2>3, <2>4, InfIs DEF FreeIsNear, InSteps
  <2>6. Waiting' = {x \in Left : pair[x] = Nil}
    BY <1>1, <2>1, <2>2 DEF Waiting
  <2>7. \A x \in Waiting' : dist'[x] # Inf
    BY <2>3, <2>6, InfIs
  <2>8. \A x \in Left : dist'[x] # Inf => x \in Waiting'
    BY <2>3, <2>6, InfIs
  <2>9. path' = <<>>
    BY <1>1
  <2>10. QED BY <1>1, <1>2, <2>1, <2>5, <2>7, <2>8, <2>9 DEF Search
<1>5. QED BY <1>3, <1>4

\* What the search holds while bfs goes through the queue, for any state it has left.
BfsHolds ==
    /\ FreeIsNear /\ InSteps
    /\ \A x \in Waiting : dist[x] # Inf
    /\ path # <<>> => dist[path[1].of] # Inf
    /\ \A x \in Left : dist[x] # Inf =>
          \/ x \in Waiting
          \/ SeenFrom(x, Neighbours(x))
          \/ path # <<>> /\ path[1].of = x /\ SeenFrom(x, Neighbours(x) \ path[1].ahead)

LEMMA SearchInBfs ==
    /\ Search /\ at = "bfs" => BfsHolds
    /\ BfsHolds' /\ at' = "bfs" => Search'
BY DEF Search, BfsHolds

LEMMA BfsOn ==
    ASSUME UNCHANGED e, at' = "bfs", FreeIsNear', InSteps',
           \A x \in Waiting' : dist'[x] # Inf,
           path' # <<>> => dist'[path'[1].of] # Inf,
           \A x \in Left : dist'[x] # Inf =>
              \/ x \in Waiting'
              \/ \A y \in Neighbours(x) : dist'[pair'[y]] # Inf
              \/ /\ path' # <<>> /\ path'[1].of = x
                 /\ \A y \in Neighbours(x) \ path'[1].ahead : dist'[pair'[y]] # Inf
    PROVE  Search'
<1>1. Left' = Left /\ \A x : Neighbours(x)' = Neighbours(x)
  BY SameGraph
<1>2. ASSUME NEW x \in Left', dist'[x] # Inf
      PROVE  \/ x \in Waiting'
             \/ SeenFrom(x, Neighbours(x))'
             \/ /\ path' # <<>> /\ path'[1].of = x
                /\ SeenFrom(x, Neighbours(x) \ path[1].ahead)'
  BY <1>1, <1>2 DEF SeenFrom
<1>3. BfsHolds'
  BY <1>2 DEF BfsHolds
<1>4. QED BY <1>3, SearchInBfs

LEMMA SearchTakeFront == ASSUME HInv, TakeFront PROVE Search'
<1>1. /\ at = "bfs" /\ at' = "bfs" /\ TypeOK /\ UNCHANGED <<e, pair, dist>>
      /\ path = <<>> /\ queue # <<>> /\ queue' = Tail(queue)
      /\ path' = IF Head(queue) = Nil THEN <<>> ELSE <<Loop(Head(queue))>>
  BY DEF HInv, TakeFront
<1>2. BfsHolds
  BY <1>1, SearchInBfs DEF HInv
<1>3. /\ queue \in Seq(LeftOrNil) /\ Nil \notin Left /\ LeftOrNil = {Nil} \cup Left
  BY <1>1, GraphShape DEF TypeOK, LeftOrNil
<1>4. Head(queue) \in Waiting /\ Waiting' \subseteq Waiting /\ Waiting \subseteq Waiting' \cup {Head(queue)}
  <2>1. /\ Len(queue) \in Nat /\ Len(queue) >= 1 /\ DOMAIN queue = 1..Len(queue)
        /\ DOMAIN queue' = 1..Len(queue) - 1 /\ \A i \in 1..Len(queue) - 1 : queue'[i] = queue[i + 1]
        /\ Head(queue) = queue[1]
    BY <1>1, <1>3
  <2>2. \A i \in 1..Len(queue) : i = 1 \/ (i - 1 \in 1..Len(queue) - 1 /\ (i - 1) + 1 = i)
    BY <2>1
  <2>3. 1 \in 1..Len(queue) /\ \A i \in 1..Len(queue) - 1 : i + 1 \in 1..Len(queue)
    BY <2>1
  <2>4. Head(queue) \in Waiting
    BY <2>1, <2>3 DEF Waiting
  <2>5. Waiting' \subseteq Waiting
    BY <2>1, <2>3 DEF Waiting
  <2>6. ASSUME NEW i \in 1..Len(queue), i # 1 PROVE queue[i] \in Waiting'
    <3>1. i - 1 \in DOMAIN queue' /\ queue'[i - 1] = queue[i]
      BY <2>1, <2>2, <2>6
    <3>2. QED BY <3>1 DEF Waiting
  <2>7. Waiting \subseteq Waiting' \cup {Head(queue)}
    BY <2>1, <2>6 DEF Waiting
  <2>8. QED BY <2>4, <2>5, <2>7
<1>5. FreeIsNear' /\ InSteps'
  BY <1>1, <1>2, SameGraph DEF BfsHolds, FreeIsNear, InSteps
<1>6. \A x \in Waiting' : dist'[x] # Inf
  BY <1>1, <1>2, <1>4 DEF BfsHolds
<1>7. \A x \in Left : dist[x] # Inf =>
         x \in Waiting' \/ x = Head(queue) \/ \A y \in Neighbours(x) : dist[pair[y]] # Inf
  BY <1>1, <1>2, <1>4 DEF BfsHolds, SeenFrom
<1>8. CASE Head(queue) = Nil
  <2>1. path' = <<>>
    BY <1>1, <1>8
  <2>2. \A x \in Left : x # Head(queue)
    BY <1>3, <1>8
  <2>3. QED BY <1>1, <1>5, <1>6, <1>7, <2>1, <2>2, BfsOn
<1>9. CASE Head(queue) # Nil
  <2>1. path' = <<Loop(Head(queue))>> /\ Head(queue) \in Left
    BY <1>1, <1>3, <1>4, <1>9 DEF BfsHolds
  <2>2. path' # <<>> /\ path'[1] = Loop(Head(queue))
    BY <2>1
  <2>3. path'[1].of = Head(queue) /\ path'[1].ahead = Neighbours(Head(queue))
    BY <2>1, <2>2, LoopIs
  <2>4. dist'[path'[1].of] # Inf
    BY <1>1, <1>2, <1>4, <2>3 DEF BfsHolds
  <2>5. QED BY <1>1, <1>5, <1>6, <1>7, <2>2, <2>3, <2>4, BfsOn
<1>10. QED BY <1>8, <1>9

LEMMA SearchSpread == ASSUME HInv, Spread PROVE Search'
<1> DEFINE loop == path[1]
           y0 == Second(path[1])
           near == pair[y0]
<1>1. /\ at = "bfs" /\ at' = "bfs" /\ TypeOK /\ UNCHANGED <<e, pair>>
      /\ path # <<>> /\ Len(path) <= 1
  BY DEF HInv, Spread, Calls
<1>2. BfsHolds
  BY <1>1, SearchInBfs DEF HInv
<1>3. /\ Head(path) = loop /\ loop \in Loops /\ loop.of \in Left /\ loop.of \in LeftOrNil
      /\ loop.ahead \subseteq Neighbours(loop.of)
      /\ loop.ahead # {} => y0 \in loop.ahead /\ near \in LeftOrNil
  BY <1>1, SpreadIs
<1>4. /\ queue \in Seq(LeftOrNil) /\ dist \in [LeftOrNil -> 0..Inf] /\ LeftOrNil = {Nil} \cup Left
      /\ Left' = Left /\ LeftOrNil' = LeftOrNil
  BY <1>1, SameGraph DEF TypeOK, LeftOrNil
<1>5. dist[loop.of] # Inf /\ dist[loop.of] \in Nat /\ dist[loop.of] + 1 \in 0..Inf - 1
  BY <1>1, <1>2, <1>3, NearIsBounded DEF BfsHolds
<1>6. \A x \in Left : dist[x] # Inf =>
         \/ x \in Waiting
         \/ \A y \in Neighbours(x) : dist[pair[y]] # Inf
         \/ x = loop.of /\ \A y \in Neighbours(x) \ loop.ahead : dist[pair[y]] # Inf
  BY <1>2 DEF BfsHolds, SeenFrom
<1>7. CASE loop.ahead = {}
  <2>1. path' = <<>> /\ UNCHANGED <<dist, queue>>
    BY <1>3, <1>7 DEF Spread
  <2>2. FreeIsNear' /\ InSteps' /\ Waiting' = Waiting
    BY <1>1, <1>2, <2>1, SameGraph DEF BfsHolds, FreeIsNear, InSteps, Waiting
  <2>3. \A x \in Waiting' : dist'[x] # Inf
    BY <1>2, <2>1, <2>2 DEF BfsHolds
  <2>4. \A x \in Left : dist'[x] # Inf =>
           x \in Waiting' \/ \A y \in Neighbours(x) : dist'[pair'[y]] # Inf
    BY <1>1, <1>6, <1>7, <2>1, <2>2
  <2>5. QED BY <1>1, <2>1, <2>2, <2>3, <2>4, BfsOn
<1>8. CASE loop.ahead # {}
  <2>1. path' = <<Passed(loop)>>
    BY <1>3, <1>8 DEF Spread
  <2>2. /\ path' # <<>> /\ path'[1].of = loop.of /\ path'[1].ahead = loop.ahead \ {y0}
    BY <1>3, <2>1, PassedIs
  <2>3. near \in LeftOrNil /\ y0 \in loop.ahead
    BY <1>3, <1>8
  <2> HIDE DEF loop, y0, near
  <2>4. CASE dist[near] # Inf
    <3>1. UNCHANGED <<dist, queue>>
      BY <1>3, <1>8, <2>4 DEF Spread, loop, near, y0
    <3>2. FreeIsNear' /\ InSteps' /\ Waiting' = Waiting
      BY <1>1, <1>2, <3>1, SameGraph DEF BfsHolds, FreeIsNear, InSteps, Waiting
    <3>3. \A x \in Waiting' : dist'[x] # Inf
      BY <1>2, <3>1, <3>2 DEF BfsHolds
    <3>4. dist'[path'[1].of] # Inf
      BY <1>5, <2>2, <3>1
    <3>5. dist[pair[y0]] # Inf
      BY <2>4 DEF near
    <3>6. \A x \in Left : dist'[x] # Inf =>
             \/ x \in Waiting'
             \/ \A y \in Neighbours(x) : dist'[pair'[y]] # Inf
             \/ /\ path' # <<>> /\ path'[1].of = x
                /\ \A y \in Neighbours(x) \ path'[1].ahead : dist'[pair'[y]] # Inf
      BY <1>1, <1>6, <2>2, <3>1, <3>2, <3>5
    <3>7. QED BY <1>1, <3>2, <3>3, <3>4, <3>6, BfsOn
  <2>5. CASE dist[near] = Inf
    <3> DEFINE d == dist[loop.of] + 1
    <3>1. dist' = [dist EXCEPT ![near] = d] /\ queue' = Append(queue, near)
      BY <1>3, <1>8, <2>5 DEF Spread, loop, near, y0
    <3>2. d \in Nat /\ d # Inf /\ d - 1 = dist[loop.of] /\ near # loop.of
      BY <1>5, <2>5, InfIs
    <3> HIDE DEF d
    <3>3. dist'[near] = d /\ \A x \in LeftOrNil : x # near => dist'[x] = dist[x]
      BY <1>4, <2>3, <3>1
    <3>4. \A x \in LeftOrNil : dist[x] # Inf => dist'[x] = dist[x] /\ dist'[x] # Inf
      BY <2>5, <3>3
    <3>5. \A y \in Right : pair[y] \in LeftOrNil
      BY <1>1 DEF TypeOK, PairOK
    <3>6. \A x \in Left : x \in LeftOrNil /\ Neighbours(x) \subseteq Right
      BY <1>4 DEF Neighbours, Right
    <3>7. Waiting' = Waiting \cup {near}
      <4>1. /\ Len(queue) \in Nat /\ DOMAIN queue = 1..Len(queue)
            /\ DOMAIN queue' = 1..Len(queue) + 1
            /\ \A i \in 1..Len(queue) : queue'[i] = queue[i]
            /\ queue'[Len(queue) + 1] = near
        BY <1>4, <2>3, <3>1
      <4>2. \A i \in 1..Len(queue) + 1 : i \in 1..Len(queue) \/ i = Len(queue) + 1
        BY <4>1
      <4>3. Len(queue) + 1 \in 1..Len(queue) + 1 /\ \A i \in 1..Len(queue) : i \in 1..Len(queue) + 1
        BY <4>1
      <4>4. QED BY <4>1, <4>2, <4>3 DEF Waiting
    <3>8. FreeIsNear'
      BY <1>1, <1>2, <1>4, <3>4, <3>6 DEF BfsHolds, FreeIsNear
    <3>9. InSteps'
      <4>1. ASSUME NEW x \in LeftOrNil, dist'[x] # Inf, dist'[x] # 0
            PROVE  \E z \in Left : dist'[z] = dist'[x] - 1
        <5>1. CASE x = near
          <6>1. dist'[loop.of] = dist'[x] - 1
            BY <1>3, <3>2, <3>3, <5>1
          <6>2. QED BY <6>1, <1>3
        <5>2. CASE x # near
          <6>1. dist'[x] = dist[x] /\ dist[x] # Inf /\ dist[x] # 0 /\ dist[x] \in Nat /\ dist[x] <= Inf
            BY <1>4, <3>3, <4>1, <5>2, InfIs
          <6>2. PICK z \in Left : dist[z] = dist[x] - 1
            BY <1>2, <6>1 DEF BfsHolds, InSteps
          <6>3. dist[z] # Inf
            BY <6>1, <6>2, InfIs
          <6>4. QED BY <3>4, <3>6, <6>1, <6>2, <6>3
        <5>3. QED BY <5>1, <5>2
      <4>2. QED BY <4>1, <1>4 DEF InSteps
    <3>10. \A x \in Waiting' : dist'[x] # Inf
      <4>1. Waiting \subseteq LeftOrNil
        BY <1>4 DEF Waiting
      <4>2. QED BY <1>2, <3>2, <3>3, <3>4, <3>7, <4>1 DEF BfsHolds
    <3>11. dist'[path'[1].of] # Inf
      BY <1>3, <1>5, <2>2, <3>4
    <3>12. \A y \in Right : dist[pair[y]] # Inf => dist'[pair[y]] # Inf
      BY <3>4, <3>5
    <3>13. dist'[pair[y0]] # Inf
      BY <3>2, <3>3 DEF near
    <3>14. \A x \in Left : dist'[x] # Inf =>
              \/ x \in Waiting'
              \/ \A y \in Neighbours(x) : dist'[pair'[y]] # Inf
              \/ /\ path' # <<>> /\ path'[1].of = x
                 /\ \A y \in Neighbours(x) \ path'[1].ahead : dist'[pair'[y]] # Inf
      <4>1. ASSUME NEW x \in Left, dist'[x] # Inf, x \notin Waiting'
            PROVE  \/ \A y \in Neighbours(x) : dist'[pair'[y]] # Inf
                   \/ /\ path' # <<>> /\ path'[1].of = x
                      /\ \A y \in Neighbours(x) \ path'[1].ahead : dist'[pair'[y]] # Inf
        <5>1. x \notin Waiting /\ x # near /\ dist[x] # Inf
          BY <3>3, <3>6, <3>7, <4>1
        <5>2. CASE \A y \in Neighbours(x) : dist[pair[y]] # Inf
          BY <1>1, <3>6, <3>12, <5>2
        <5>3. CASE x = loop.of /\ \A y \in Neighbours(x) \ loop.ahead : dist[pair[y]] # Inf
          BY <1>1, <2>2, <3>6, <3>12, <3>13, <5>3
        <5>4. QED BY <1>6, <5>1, <5>2, <5>3
      <4>2. QED BY <4>1
    <3>15. QED BY <1>1, <3>8, <3>9, <3>10, <3>11, <3>14, BfsOn
  <2>6. QED BY <2>4, <2>5
<1>9. QED BY <1>7, <1>8

LEMMA SearchBfsReturns == ASSUME HInv, BfsReturns PROVE Search'
<1>1. /\ at = "bfs" /\ path = <<>> /\ queue = <<>> /\ UNCHANGED <<e, pair, dist, queue>>
      /\ at' = IF dist[Nil] # Inf THEN "execute" ELSE "done"
  BY DEF BfsReturns
<1>2. BfsHolds /\ Waiting = {}
  BY <1>1, SearchInBfs DEF HInv, Waiting
<1>3. FreeIsNear /\ \A x \in Left : dist[x] # Inf => SeenFrom(x, Neighbours(x))
  BY <1>1, <1>2 DEF BfsHolds
<1>4. FreeIsNear'
  BY <1>1, <1>3, SameGraph DEF FreeIsNear
<1>5. ASSUME NEW x \in Left', dist'[x] # Inf PROVE SeenFrom(x, Neighbours(x))'
  BY <1>1, <1>3, <1>5, SameGraph DEF SeenFrom
<1>6. at' = "done" => dist'[Nil] = Inf
  BY <1>1
<1>7. QED BY <1>1, <1>4, <1>5, <1>6 DEF Search

LEMMA SearchExecute == ASSUME HInv, Execute PROVE Search'
<1>1. queue' = <<>> /\ at' \in {"dfs", "execute", "reset"} /\ UNCHANGED <<e, pair, dist>>
  BY DEF HInv, Search, Execute
<1>2. CASE at' = "reset"
  <2>1. v' = 1
    BY <1>2 DEF Execute
  <2>2. \A x \in Left' : ~(x < v')
    BY <2>1, <1>1, SameGraph, GraphShape DEF HInv, TypeOK
  <2>3. Waiting' = {}
    BY <1>1 DEF Waiting
  <2>4. QED BY <1>2, <2>2, <2>3 DEF Search
<1>3. CASE at' # "reset"
  BY <1>1, <1>3 DEF Search
<1>4. QED BY <1>2, <1>3

LEMMA SearchDfs == ASSUME HInv, Dfs \/ Fail \/ Augment PROVE Search'
<1>1. at \in {"dfs", "augment"} /\ queue' = queue
  BY DEF Dfs, Fail, Augment
<1>2. queue = <<>>
  BY <1>1 DEF HInv, Search
<1>3. at' \in {"dfs", "augment", "execute"}
  BY <1>1, ResumesIs DEF Dfs, Fail, Augment
<1>4. QED BY <1>1, <1>2, <1>3 DEF Search

-----------------------------------------------------------------------------
(* The theorem.                                                            *)

LEMMA InvInit == Init => HInv
<1> SUFFICES ASSUME Init PROVE HInv
  OBVIOUS
<1>1. /\ e \in Graphs /\ pair = [x \in {Nil} \cup Left \cup Right |-> Nil]
      /\ dist = [x \in LeftOrNil |-> 0] /\ at = "reset" /\ v = 1 /\ queue = <<>> /\ path = <<>>
      /\ matching = 0
  BY DEF Init, Left, Right, LeftOrNil
<1>2. /\ Left = 1..Size(e) /\ Size(e) \in Nat
  BY <1>1, GraphShape, Bounds
<1>3. DOMAIN path = {} /\ path \in Seq(Loops) /\ queue \in Seq(LeftOrNil) /\ DOMAIN queue = {}
  BY <1>1
<1>4. PairOK
  BY <1>1 DEF PairOK, LeftOrNil
<1>5. TypeOK
  <2>1. dist \in [LeftOrNil -> 0..Inf]
    BY <1>1, InfIs
  <2>2. v \in 1..Size(e) + 1
    BY <1>1, <1>2
  <2>3. QED BY <1>1, <1>3, <1>4, <2>1, <2>2 DEF TypeOK, AheadOK
<1>6. LeftKnown /\ RightKnown(Right)
  BY <1>1 DEF LeftKnown, RightKnown
<1>7. Mutual
  BY <1>1, <1>6 DEF Mutual
<1>8. Counted
  <2>1. Partnered = {}
    BY <1>1 DEF Partnered
  <2>2. QED BY <1>1, <2>1, FS_EmptySet DEF Counted
<1>9. Calls
  BY <1>1 DEF Calls
<1>10. Search
  <2>1. \A x \in Left : ~(x < v)
    BY <1>1, <1>2
  <2>2. QED BY <1>1, <1>3, <2>1 DEF Search, Waiting
<1>11. QED BY <1>5, <1>7, <1>8, <1>9, <1>10 DEF HInv

LEMMA InvStep == HInv /\ [Next]_vars => HInv'
<1> SUFFICES ASSUME HInv, [Next]_vars PROVE HInv'
  OBVIOUS
<1>1. CASE Reset
  <2>1. UNCHANGED <<e, pair, matching>> /\ at = "reset" /\ at' # "augment"
    BY <1>1 DEF Reset
  <2>2. QED BY <1>1, <2>1, TypeReset, MutualKept, CountKept, CallsBfs, SearchReset DEF HInv
<1>2. CASE TakeFront
  <2>1. UNCHANGED <<e, pair, matching>> /\ at = "bfs" /\ at' = "bfs"
    BY <1>2 DEF TakeFront
  <2>2. QED BY <1>2, <2>1, TypeTakeFront, MutualKept, CountKept, CallsBfs, SearchTakeFront DEF HInv
<1>3. CASE Spread
  <2>1. UNCHANGED <<e, pair, matching>> /\ at = "bfs" /\ at' = "bfs"
    BY <1>3 DEF Spread
  <2>2. QED BY <1>3, <2>1, TypeSpread, MutualKept, CountKept, CallsBfs, SearchSpread DEF HInv
<1>4. CASE BfsReturns
  <2>1. UNCHANGED <<e, pair, matching>> /\ at = "bfs" /\ at' # "augment"
    BY <1>4 DEF BfsReturns
  <2>2. QED BY <1>4, <2>1, TypeBfsReturns, MutualKept, CountKept, CallsBfs, SearchBfsReturns DEF HInv
<1>5. CASE Execute
  <2>1. UNCHANGED <<e, pair, matching>> /\ at = "execute" /\ at' # "augment"
    BY <1>5 DEF Execute
  <2>2. QED BY <1>5, <2>1, TypeExecute, MutualKept, CountKept, CallsExecute, SearchExecute DEF HInv
<1>6. CASE Dfs
  <2>1. UNCHANGED <<e, pair, matching>>
    BY <1>6 DEF Dfs
  <2>2. QED BY <1>6, <2>1, TypeDfs, MutualDfs, CountKept, CallsDfs, SearchDfs DEF HInv
<1>7. CASE Fail
  <2>1. UNCHANGED <<e, pair, matching>> /\ at = "dfs" /\ at' # "augment"
    BY <1>7, ResumesIs DEF Fail
  <2>2. QED BY <1>7, <2>1, TypeFail, MutualKept, CountKept, CallsFail, SearchDfs DEF HInv
<1>8. CASE Augment
  BY <1>8, TypeAugment, MutualAugment, CountAugment, CallsAugment, SearchDfs DEF HInv
<1>9. CASE UNCHANGED vars
  <2>1. /\ Left' = Left /\ Right' = Right /\ LeftOrNil' = LeftOrNil /\ Loops' = Loops
    BY <1>9, SameGraph DEF vars
  <2>2. HInv' = HInv
    BY <1>9 DEF vars, HInv, TypeOK, PairOK, AheadOK, Mutual, LeftKnown, RightKnown, Turning, Last,
                Second, Counted, Partnered, Calls, Search, FreeIsNear, InSteps, SeenFrom, Waiting,
                Left, Right, LeftOrNil, Loops, Neighbours, Graphs
  <2>3. QED BY <2>2
<1>10. QED BY <1>1, <1>2, <1>3, <1>4, <1>5, <1>6, <1>7, <1>8, <1>9 DEF Next

\* An edge of any matching leads to a vertex on the left that has a partner: the one the
\* search has not reached, or the partner of the other end.  No two edges lead to the same.
LEMMA NoneIsLarger ==
    ASSUME HInv, at = "done", NEW m \in SUBSET e, IsMatching(m)
    PROVE  Cardinality(m) <= matching
<1>1. /\ TypeOK /\ LeftKnown /\ RightKnown(Right) /\ matching = Cardinality(Partnered)
      /\ FreeIsNear /\ dist[Nil] = Inf
      /\ \A x \in Left : dist[x] # Inf => SeenFrom(x, Neighbours(x))
  BY DEF HInv, Mutual, Counted, Search
<1>2. \A a \in m : a = <<a[1], a[2]>> /\ a \in e /\ a[1] \in Left /\ a[2] \in Right
  BY <1>1, GraphShape DEF TypeOK
<1>3. Nil \notin Left /\ Nil \notin Right /\ IsFiniteSet(Left)
      /\ \A w \in Right : pair[w] \in {Nil} \cup Left
  BY <1>1, GraphShape DEF TypeOK, PairOK, LeftOrNil
<1> DEFINE To(a) == IF dist[a[1]] # Inf THEN pair[a[2]] ELSE a[1]
           f == [a \in m |-> To(a)]
<1>4. ASSUME NEW a \in m, dist[a[1]] # Inf
      PROVE  pair[a[2]] \in Partnered /\ dist[pair[a[2]]] # Inf /\ pair[pair[a[2]]] = a[2]
  <2>1. a[2] \in Neighbours(a[1])
    BY <1>2 DEF Neighbours, Right
  <2>2. dist[pair[a[2]]] # Inf
    BY <1>1, <1>2, <1>4, <2>1 DEF SeenFrom
  <2>3. pair[a[2]] # Nil
    BY <1>1, <2>2
  <2>4. pair[a[2]] \in Left /\ pair[pair[a[2]]] = a[2]
    BY <1>1, <1>2, <1>3, <2>3 DEF RightKnown
  <2>5. QED BY <1>2, <1>3, <2>2, <2>4 DEF Partnered
<1>5. \A a \in m : dist[a[1]] = Inf => a[1] \in Partnered
  BY <1>1, <1>2 DEF FreeIsNear, Partnered
<1>6. \A a \in m : To(a) \in Partnered
  BY <1>4, <1>5
<1>7. ASSUME NEW a \in m, NEW b \in m, a # b PROVE To(a) # To(b)
  <2>1. a[1] # b[1] /\ a[2] # b[2]
    BY <1>7 DEF IsMatching
  <2>2. CASE dist[a[1]] # Inf /\ dist[b[1]] # Inf
    BY <1>4, <2>1, <2>2
  <2>3. CASE dist[a[1]] = Inf /\ dist[b[1]] = Inf
    BY <2>1, <2>3
  <2>4. CASE dist[a[1]] # Inf /\ dist[b[1]] = Inf
    BY <1>4, <2>4
  <2>5. CASE dist[a[1]] = Inf /\ dist[b[1]] # Inf
    BY <1>4, <2>5
  <2>6. QED BY <2>2, <2>3, <2>4, <2>5
<1> HIDE DEF To
<1>8. f \in Injection(m, Partnered)
  BY <1>6, <1>7 DEF Injection, IsInjective
<1>9. IsFiniteSet(Partnered)
  BY <1>3, FS_Subset DEF Partnered
<1>10. QED BY <1>1, <1>8, <1>9, FS_Injection

\* Outside the time in which a path is turned over.
LEMMA MatchedAre ==
    ASSUME HInv, at # "augment"
    PROVE  /\ IsMatching(Matched)
           /\ matching = Cardinality(Matched)
           /\ \A x \in DOMAIN pair \ {Nil} : pair[x] # Nil =>
                 pair[pair[x]] = x /\ (<<x, pair[x]>> \in e \/ <<pair[x], x>> \in e)
<1>1. /\ TypeOK /\ LeftKnown /\ RightKnown(Right) /\ matching = Cardinality(Partnered)
  BY DEF HInv, Mutual, Counted
<1>2. \A a \in e : a = <<a[1], a[2]>> /\ a[1] \in Left /\ a[2] \in Right
  BY <1>1, GraphShape DEF TypeOK
<1>3. /\ Nil \notin Left /\ Nil \notin Right /\ IsFiniteSet(Left) /\ IsFiniteSet(e)
      /\ DOMAIN pair = {Nil} \cup Left \cup Right
      /\ \A z \in Left : pair[z] \in {Nil} \cup Right
      /\ \A w \in Right : pair[w] \in {Nil} \cup Left
  BY <1>1, GraphShape DEF TypeOK, PairOK, LeftOrNil
<1>4. \A a \in Matched : a \in e /\ pair[a[1]] = a[2] /\ pair[a[2]] = a[1]
  BY <1>1, <1>2, <1>3 DEF Matched, LeftKnown
<1>5. IsMatching(Matched)
  <2>1. ASSUME NEW a \in Matched, NEW b \in Matched, a # b PROVE a[1] # b[1] /\ a[2] # b[2]
    BY <1>2, <1>4, <2>1
  <2>2. QED BY <2>1 DEF IsMatching
<1>6. matching = Cardinality(Matched)
  <2> DEFINE f == [x \in Partnered |-> <<x, pair[x]>>]
  <2>1. \A x \in Partnered : <<x, pair[x]>> \in Matched
    BY <1>1 DEF Partnered, Matched, LeftKnown
  <2>2. f \in [Partnered -> Matched] /\ \A x \in Partnered : f[x][1] = x
    BY <2>1
  <2>3. \A a \in Matched : a[1] \in Partnered /\ f[a[1]] = a
    BY <1>2, <1>3, <1>4 DEF Partnered
  <2>4. f \in Bijection(Partnered, Matched)
    <3> HIDE DEF f
    <3>1. f \in Injection(Partnered, Matched)
      BY <2>2 DEF Injection, IsInjective
    <3>2. f \in Surjection(Partnered, Matched)
      BY <2>2, <2>3 DEF Surjection
    <3>3. QED BY <3>1, <3>2 DEF Bijection
  <2>5. IsFiniteSet(Partnered)
    BY <1>3, FS_Subset DEF Partnered
  <2>6. ExistsBijection(Partnered, Matched)
    BY <2>4 DEF ExistsBijection
  <2>7. QED BY <1>1, <2>5, <2>6, FS_Bijection
<1>7. ASSUME NEW x \in Left \cup Right, pair[x] # Nil
      PROVE  pair[pair[x]] = x /\ (<<x, pair[x]>> \in e \/ <<pair[x], x>> \in e)
  <2>1. CASE x \in Left
    BY <1>1, <1>7, <2>1 DEF LeftKnown
  <2>2. CASE x \in Right
    <3>1. pair[x] \in Left /\ pair[pair[x]] = x
      BY <1>1, <1>3, <1>7, <2>2 DEF RightKnown
    <3>2. <<pair[x], pair[pair[x]]>> \in e
      BY <1>1, <1>3, <2>2, <3>1 DEF LeftKnown
    <3>3. QED BY <3>1, <3>2
  <2>3. QED BY <1>7, <2>1, <2>2
<1>8. QED BY <1>3, <1>5, <1>6, <1>7

\* execute leaves a matching that no other is larger than, and returns its number of edges;
\* the partners agree with each other whenever dfs is not turning a path over.
THEOREM MatchingCorrect == Spec => []MatchingIsMaximum
<1>1. HInv => MatchingIsMaximum
  <2>1. SUFFICES ASSUME HInv PROVE MatchingIsMaximum
    OBVIOUS
  <2>2. at = "done" => \A m \in SUBSET e : IsMatching(m) => Cardinality(m) <= matching
    BY <2>1, NoneIsLarger
  <2>3. QED BY <2>1, <2>2, MatchedAre DEF MatchingIsMaximum
<1>2. QED BY <1>1, InvInit, InvStep, PTL DEF Spec

-----------------------------------------------------------------------------
(* tarjan_strongly_cc.                                                     *)

\* The vertices whose calls of tarjan are under way.
Called == {calls[k] : k \in DOMAIN calls}

\* The vertices on the stack.
Open == {u \in SCC!Visited : comps[u] = SCC!Inf}

TarjanOK ==
    /\ digraph \in SCC!Graphs
    /\ indexi \in [SCC!Vertices -> 0..SCC!Inf]
    /\ comps \in [SCC!Vertices -> 0..SCC!Inf]
    /\ lowlink \in [SCC!Vertices -> Nat]
    /\ stack \in Seq(SCC!Vertices) /\ calls \in Seq(SCC!Vertices)
    /\ index \in Nat /\ comp \in Nat /\ visiting \in Nat
    /\ ahead \in SUBSET digraph

Indexed ==
    /\ index = Cardinality(SCC!Visited)
    /\ \A u \in SCC!Visited : indexi[u] < index

\* The ends of an edge that was passed are visited, and only calls have edges ahead.
EdgesPassed ==
    /\ \A a \in digraph \ ahead : a[1] \in SCC!Visited /\ a[2] \in SCC!Visited
    /\ \A a \in ahead : a[1] \in SCC!Visited => a[1] \in Called

Stacked ==
    /\ \A k \in DOMAIN stack : stack[k] \in Open
    /\ \A u \in Open : \E k \in DOMAIN stack : stack[k] = u
    /\ \A j, k \in DOMAIN stack : j < k => indexi[stack[j]] < indexi[stack[k]]

Nested ==
    /\ \A k \in DOMAIN calls : calls[k] \in Open
    /\ \A j, k \in DOMAIN calls : j < k => indexi[calls[j]] < indexi[calls[k]]
    /\ \A k \in 1..Len(calls) - 1 : <<calls[k], calls[k + 1]>> \in digraph
    /\ calls # <<>> => calls[1] = visiting
    /\ \A u \in SCC!Vertices : u < visiting => u \in SCC!Visited

\* The last call that was begun before x was reached.
Owns(g, x) == indexi[g] <= indexi[x] /\ \A h \in Called : indexi[g] < indexi[h] => indexi[x] < indexi[h]

\* lowlink_ of a call is the index of a vertex on the stack that it leads to, and none of
\* the edges passed from the vertices reached during the call leads to a smaller one.
Low ==
    /\ \A g \in Called :
          lowlink[g] <= indexi[g] /\ \E z \in Open : indexi[z] = lowlink[g] /\ z \in SCC!Leads(g)
    /\ \A g \in Called, a \in digraph \ ahead :
          a[1] \in Open /\ a[2] \in Open /\ Owns(g, a[1]) => lowlink[g] <= indexi[a[2]]

\* On the stack the earlier leads to the later, and everything back to a call.
Linked ==
    /\ \A x, y \in Open : indexi[x] <= indexi[y] => y \in SCC!Leads(x)
    /\ \A y \in Open : \E g \in Called : indexi[g] <= indexi[y] /\ g \in SCC!Leads(y)

Exact ==
    /\ \A u \in SCC!Closed, w \in SCC!Vertices :
          (w \in SCC!Closed /\ comps[u] = comps[w]) <=> (w \in SCC!Leads(u) /\ u \in SCC!Leads(w))
    /\ {comps[u] : u \in SCC!Closed} = 0..comp - 1
    /\ \A x \in digraph : x[1] \in SCC!Closed => x[2] \in SCC!Closed /\ comps[x[1]] >= comps[x[2]]

TInv == TarjanOK /\ Indexed /\ EdgesPassed /\ Stacked /\ Nested /\ Low /\ Linked /\ Exact

-----------------------------------------------------------------------------
(* The directed graph.                                                     *)

LEMMA NoIndexIs == SCC!Inf \in Nat /\ SCC!Inf > 0 /\ SCC!Inf = Inf
BY SMT DEF SCC!Inf, Inf

LEMMA DigraphShape ==
    ASSUME digraph \in SCC!Graphs
    PROVE  /\ SCC!Vertices \subseteq Nat /\ IsFiniteSet(SCC!Vertices)
           /\ Cardinality(SCC!Vertices) \in Nat /\ Cardinality(SCC!Vertices) < SCC!Inf
           /\ \A a \in digraph : a = <<a[1], a[2]>> /\ a[1] \in SCC!Vertices /\ a[2] \in SCC!Vertices
<1>1. PICK n \in 0..MaxVertices : UNION {{x[1], x[2]} : x \in digraph} = 0..n - 1
  BY DEF SCC!Graphs
<1>2. SCC!Vertices = UNION {{x[1], x[2]} : x \in digraph}
  BY DEF SCC!Vertices
<1>3. SCC!Vertices = 0..n - 1 /\ n \in Nat
  BY <1>1, <1>2, VerticesAssumption
<1>4. IsFiniteSet(SCC!Vertices) /\ Cardinality(SCC!Vertices) = n
  BY <1>3, FS_Interval
<1>5. n < SCC!Inf
  BY VerticesAssumption, NoIndexIs, <1>3
<1>6. \A a \in digraph : a = <<a[1], a[2]>>
  BY DEF SCC!Graphs, SCC!Arcs
<1>7. QED BY <1>3, <1>4, <1>5, <1>6 DEF SCC!Vertices

LEMMA LeadsSelf == ASSUME NEW u \in SCC!Vertices PROVE u \in SCC!Leads(u)
BY DEF SCC!Leads

LEMMA LeadsOn == ASSUME NEW x, NEW y \in SCC!Leads(x), NEW z \in SCC!Leads(y) PROVE z \in SCC!Leads(x)
BY DEF SCC!Leads

LEMMA LeadsEdge ==
    ASSUME digraph \in SCC!Graphs, NEW x, NEW y, <<x, y>> \in digraph
    PROVE  y \in SCC!Leads(x)
<1>1. y \in SCC!Vertices
  BY DEF SCC!Vertices
<1>2. \A S : x \in S /\ SCC!KeepsIn(S) => y \in S
  BY DEF SCC!KeepsIn
<1>3. QED BY <1>1, <1>2 DEF SCC!Leads

LEMMA LeadsWithin ==
    ASSUME NEW S \in SUBSET SCC!Vertices, SCC!KeepsIn(S), NEW u \in S
    PROVE  SCC!Leads(u) \subseteq S
BY DEF SCC!Leads

LEMMA SameDigraph ==
    ASSUME UNCHANGED digraph
    PROVE  /\ SCC!Vertices' = SCC!Vertices /\ SCC!Graphs' = SCC!Graphs
           /\ \A x : SCC!Leads(x)' = SCC!Leads(x)
BY DEF SCC!Vertices, SCC!Graphs, SCC!Leads, SCC!KeepsIn

\* The last calls.
LEMMA TarjanCalls ==
    ASSUME TarjanOK, Nested, calls # <<>>
    PROVE  /\ Len(calls) \in Nat /\ Len(calls) >= 1
           /\ SCC!Top \in Called /\ Called \subseteq Open /\ Open \subseteq SCC!Vertices
           /\ \A h \in Called : h # SCC!Top => indexi[h] < indexi[SCC!Top]
           /\ Len(calls) = 1 => Called = {SCC!Top} /\ SCC!Top = visiting
           /\ Len(calls) # 1 =>
                 /\ SCC!Caller \in Called /\ SCC!Caller # SCC!Top /\ <<SCC!Caller, SCC!Top>> \in digraph
                 /\ \A h \in Called : h # SCC!Top /\ h # SCC!Caller => indexi[h] < indexi[SCC!Caller]
           /\ SCC!Below \in Seq(SCC!Vertices) /\ Len(SCC!Below) = Len(calls) - 1
           /\ \A k \in 1..Len(calls) - 1 : SCC!Below[k] = calls[k]
           /\ {SCC!Below[k] : k \in DOMAIN SCC!Below} = Called \ {SCC!Top}
<1> DEFINE n == Len(calls)
<1>1. calls \in Seq(SCC!Vertices) /\ n \in Nat /\ n >= 1 /\ DOMAIN calls = 1..n
  BY DEF TarjanOK
<1>2. Called \subseteq Open /\ Open \subseteq SCC!Vertices
  BY DEF Nested, Called, Open, SCC!Visited
<1>3. \A u \in Open : indexi[u] \in Nat
  BY <1>2, NoIndexIs DEF TarjanOK
<1>4. /\ SCC!Below \in Seq(SCC!Vertices) /\ Len(SCC!Below) = n - 1 /\ DOMAIN SCC!Below = 1..n - 1
      /\ \A k \in 1..n - 1 : SCC!Below[k] = calls[k]
  BY <1>1 DEF SCC!Below
<1>5. SCC!Top = calls[n] /\ SCC!Caller = calls[n - 1]
  BY DEF SCC!Top, SCC!Caller
<1>6. \A j, k \in 1..n : j < k => indexi[calls[j]] < indexi[calls[k]]
  BY <1>1 DEF Nested
<1>7. \A k \in 1..n : calls[k] \in Called /\ indexi[calls[k]] \in Nat
  BY <1>1, <1>2, <1>3 DEF Called
<1>8. \A h \in Called : \E k \in 1..n : h = calls[k]
  BY <1>1 DEF Called
<1>9. \A k \in 1..n - 1 : <<calls[k], calls[k + 1]>> \in digraph
  BY DEF Nested
<1>10. n = 1 => calls[1] = visiting
  BY DEF Nested
<1> HIDE DEF n
<1>11. n \in 1..n /\ \A k \in 1..n : k = n \/ (k \in 1..n - 1 /\ k < n)
  BY <1>1
<1>12. \A k \in 1..n - 1 : k \in 1..n /\ k < n
  BY <1>1
<1>13. \A h \in Called : h # SCC!Top => indexi[h] < indexi[SCC!Top]
  BY <1>5, <1>6, <1>8, <1>11
<1>14. n = 1 => Called = {SCC!Top} /\ SCC!Top = visiting
  <2>1. n = 1 => \A k \in 1..n : k = n
    BY <1>1
  <2>2. QED BY <2>1, <1>5, <1>7, <1>8, <1>10, <1>11
<1>15. ASSUME n # 1
       PROVE  /\ SCC!Caller \in Called /\ SCC!Caller # SCC!Top /\ <<SCC!Caller, SCC!Top>> \in digraph
              /\ \A h \in Called : h # SCC!Top /\ h # SCC!Caller => indexi[h] < indexi[SCC!Caller]
  <2>1. n - 1 \in 1..n - 1 /\ (n - 1) + 1 = n /\ n - 1 \in 1..n /\ n - 1 < n
    BY <1>1, <1>15
  <2>2. SCC!Caller \in Called /\ <<SCC!Caller, SCC!Top>> \in digraph /\ indexi[SCC!Caller] < indexi[SCC!Top]
    BY <1>5, <1>6, <1>7, <1>9, <1>11, <2>1
  <2>3. \A k \in 1..n : k = n \/ k = n - 1 \/ k < n - 1
    BY <1>1
  <2>4. \A h \in Called : h # SCC!Top /\ h # SCC!Caller => indexi[h] < indexi[SCC!Caller]
    BY <1>5, <1>6, <1>8, <2>1, <2>3
  <2>5. QED BY <1>5, <1>7, <1>11, <2>2, <2>4
<1>16. {SCC!Below[k] : k \in DOMAIN SCC!Below} = Called \ {SCC!Top}
  <2>1. \A k \in 1..n - 1 : calls[k] # SCC!Top
    BY <1>5, <1>6, <1>7, <1>11, <1>12
  <2>2. \A k \in 1..n - 1 : SCC!Below[k] \in Called \ {SCC!Top}
    BY <1>4, <1>7, <1>12, <2>1
  <2>3. ASSUME NEW h \in Called \ {SCC!Top} PROVE h \in {SCC!Below[k] : k \in 1..n - 1}
    <3>1. PICK k \in 1..n : h = calls[k]
      BY <1>8
    <3>2. k \in 1..n - 1
      BY <1>5, <1>11, <3>1
    <3>3. QED BY <1>4, <3>1, <3>2
  <2>4. QED BY <1>4, <2>2, <2>3
<1>17. QED BY <1>1, <1>2, <1>4, <1>5, <1>7, <1>11, <1>13, <1>14, <1>15, <1>16 DEF n

\* What the state tells of vertices.
LEMMA Shape ==
    ASSUME TInv
    PROVE  /\ SCC!Visited \subseteq SCC!Vertices /\ IsFiniteSet(SCC!Visited)
           /\ Open \subseteq SCC!Visited /\ SCC!Closed = SCC!Visited \ Open
           /\ \A u \in SCC!Vertices : indexi[u] \in 0..SCC!Inf /\ comps[u] \in 0..SCC!Inf /\ lowlink[u] \in Nat
           /\ \A u \in SCC!Visited : indexi[u] \in Nat /\ indexi[u] < index
           /\ index \in Nat /\ comp \in Nat
           /\ \A a \in digraph : a = <<a[1], a[2]>> /\ a[1] \in SCC!Vertices /\ a[2] \in SCC!Vertices
           /\ digraph \in SCC!Graphs /\ Called \subseteq Open
           /\ \A g, h \in Called : Owns(g, h) <=> g = h
<1>1. /\ digraph \in SCC!Graphs
      /\ \A u \in SCC!Vertices : indexi[u] \in 0..SCC!Inf /\ comps[u] \in 0..SCC!Inf /\ lowlink[u] \in Nat
      /\ index \in Nat /\ comp \in Nat
  BY DEF TInv, TarjanOK
<1>2. SCC!Visited \subseteq SCC!Vertices /\ Open \subseteq SCC!Visited /\ SCC!Closed = SCC!Visited \ Open
  BY DEF SCC!Visited, Open, SCC!Closed
<1>3. IsFiniteSet(SCC!Visited)
  BY <1>1, <1>2, DigraphShape, FS_Subset
<1>4. \A u \in SCC!Vertices : indexi[u] \in Nat
  BY <1>1, NoIndexIs
<1>5. \A u \in SCC!Visited : indexi[u] \in Nat /\ indexi[u] < index
  BY <1>2, <1>4 DEF TInv, Indexed
<1>6. Called \subseteq Open
  BY DEF TInv, Nested, Called
<1>7. ASSUME NEW g \in Called, NEW h \in Called PROVE Owns(g, h) <=> g = h
  <2>1. PICK j \in DOMAIN calls : calls[j] = g
    BY DEF Called
  <2>2. PICK k \in DOMAIN calls : calls[k] = h
    BY DEF Called
  <2>3. j \in Nat /\ k \in Nat
    BY <2>1, <2>2 DEF TInv, TarjanOK
  <2>4. indexi[g] \in Nat /\ indexi[h] \in Nat
    BY <1>2, <1>5, <1>6
  <2>5. (j < k => indexi[g] < indexi[h]) /\ (k < j => indexi[h] < indexi[g])
    BY <2>1, <2>2 DEF TInv, Nested
  <2>6. g # h => indexi[g] # indexi[h]
    BY <2>1, <2>2, <2>3, <2>4, <2>5
  <2>7. \A x \in Called : indexi[x] \in Nat
    BY <1>2, <1>5, <1>6
  <2>8. CASE g = h
    BY <2>4, <2>8 DEF Owns
  <2>9. CASE g # h
    BY <2>4, <2>6, <2>9 DEF Owns
  <2>10. QED BY <2>8, <2>9
<1>8. \A a \in digraph : a = <<a[1], a[2]>> /\ a[1] \in SCC!Vertices /\ a[2] \in SCC!Vertices
  BY <1>1, DigraphShape
<1>9. QED BY <1>1, <1>2, <1>3, <1>5, <1>6, <1>7, <1>8

\* No two vertices on the stack have the same index.
LEMMA OpenDistinct ==
    ASSUME TInv, NEW x \in Open, NEW y \in Open, indexi[x] = indexi[y]
    PROVE  x = y
<1>1. PICK j \in DOMAIN stack : stack[j] = x
  BY DEF TInv, Stacked
<1>2. PICK k \in DOMAIN stack : stack[k] = y
  BY DEF TInv, Stacked
<1>3. j \in Nat /\ k \in Nat
  BY <1>1, <1>2 DEF TInv, TarjanOK
<1>4. indexi[x] \in Nat
  BY Shape
<1>5. ~(j < k) /\ ~(k < j)
  BY <1>1, <1>2, <1>4 DEF TInv, Stacked
<1>6. QED BY <1>1, <1>2, <1>3, <1>5

-----------------------------------------------------------------------------
(* A call begins.                                                          *)

LEMMA EnterKeeps ==
    ASSUME TInv, NEW w \in SCC!Vertices, indexi[w] = SCC!Inf, SCC!Enter(w),
           \/ calls = <<>> /\ w = visiting
           \/ calls # <<>> /\ <<SCC!Top, w>> \in digraph
    PROVE  TInv'
<1>1. /\ SCC!Visited \subseteq SCC!Vertices /\ IsFiniteSet(SCC!Visited)
      /\ Open \subseteq SCC!Visited /\ SCC!Closed = SCC!Visited \ Open
      /\ \A u \in SCC!Vertices : indexi[u] \in 0..SCC!Inf /\ comps[u] \in 0..SCC!Inf /\ lowlink[u] \in Nat
      /\ \A u \in SCC!Visited : indexi[u] \in Nat /\ indexi[u] < index
      /\ index \in Nat /\ comp \in Nat
      /\ \A a \in digraph : a = <<a[1], a[2]>> /\ a[1] \in SCC!Vertices /\ a[2] \in SCC!Vertices
      /\ digraph \in SCC!Graphs /\ Called \subseteq Open
  BY Shape
<1>2. /\ SCC!Vertices' = SCC!Vertices /\ SCC!Graphs' = SCC!Graphs /\ \A x : SCC!Leads(x)' = SCC!Leads(x)
      /\ digraph' = digraph /\ comp' = comp /\ ahead' = ahead /\ visiting' = visiting
  BY SameDigraph DEF SCC!Enter
<1>3. w \notin SCC!Visited
  BY DEF SCC!Visited
<1>4. index < SCC!Inf /\ IsFiniteSet(SCC!Visited \cup {w}) /\ Cardinality(SCC!Visited \cup {w}) = index + 1
  <2>1. IsFiniteSet(SCC!Visited \cup {w}) /\ Cardinality(SCC!Visited \cup {w}) = Cardinality(SCC!Visited) + 1
    BY <1>1, <1>3, FS_AddElement
  <2>2. Cardinality(SCC!Visited \cup {w}) <= Cardinality(SCC!Vertices)
    BY <1>1, DigraphShape, FS_Subset
  <2>3. /\ Cardinality(SCC!Vertices) \in Nat
        /\ Cardinality(SCC!Vertices) < SCC!Inf
        /\ index = Cardinality(SCC!Visited)
    BY <1>1, DigraphShape DEF TInv, Indexed
  <2>4. QED BY <1>1, <2>1, <2>2, <2>3, NoIndexIs
<1>5. /\ indexi' \in [SCC!Vertices -> 0..SCC!Inf] /\ indexi'[w] = index
      /\ \A u \in SCC!Vertices : u # w => indexi'[u] = indexi[u]
  <2>1. /\ indexi \in [SCC!Vertices -> 0..SCC!Inf]
        /\ indexi' = [indexi EXCEPT ![w] = index]
        /\ index \in 0..SCC!Inf
    BY <1>1, <1>4, NoIndexIs DEF TInv, TarjanOK, SCC!Enter
  <2>2. QED BY <2>1
<1>6. /\ comps' \in [SCC!Vertices -> 0..SCC!Inf] /\ comps'[w] = SCC!Inf
      /\ \A u \in SCC!Vertices : u # w => comps'[u] = comps[u]
  <2>1. /\ comps \in [SCC!Vertices -> 0..SCC!Inf]
        /\ comps' = [comps EXCEPT ![w] = SCC!Inf]
        /\ SCC!Inf \in 0..SCC!Inf
    BY NoIndexIs DEF TInv, TarjanOK, SCC!Enter
  <2>2. QED BY <2>1
<1>7. /\ lowlink' \in [SCC!Vertices -> Nat] /\ lowlink'[w] = index
      /\ \A u \in SCC!Vertices : u # w => lowlink'[u] = lowlink[u]
  <2>1. lowlink \in [SCC!Vertices -> Nat] /\ lowlink' = [lowlink EXCEPT ![w] = index]
    BY DEF TInv, TarjanOK, SCC!Enter
  <2>2. QED BY <1>1, <2>1
<1>8. SCC!Visited' = SCC!Visited \cup {w} /\ Open' = Open \cup {w} /\ SCC!Closed' = SCC!Closed
  <2>1. \A u \in SCC!Vertices : u \in SCC!Visited' <=> u \in SCC!Visited \/ u = w
    BY <1>2, <1>4, <1>5, <1>1 DEF SCC!Visited
  <2>2. SCC!Visited' \subseteq SCC!Vertices
    BY <1>2 DEF SCC!Visited
  <2>3. SCC!Visited' = SCC!Visited \cup {w}
    BY <1>1, <2>1, <2>2
  <2>4. QED BY <1>1, <1>3, <1>6, <2>3 DEF Open, SCC!Closed
<1>9. /\ stack' \in Seq(SCC!Vertices) /\ DOMAIN stack' = 1..Len(stack) + 1 /\ stack'[Len(stack) + 1] = w
      /\ \A k \in 1..Len(stack) : stack'[k] = stack[k]
      /\ DOMAIN stack = 1..Len(stack) /\ Len(stack) \in Nat
  BY DEF TInv, TarjanOK, SCC!Enter
<1>10. /\ calls' \in Seq(SCC!Vertices) /\ DOMAIN calls' = 1..Len(calls) + 1 /\ Len(calls') = Len(calls) + 1
       /\ calls'[Len(calls) + 1] = w
       /\ \A k \in 1..Len(calls) : calls'[k] = calls[k]
       /\ DOMAIN calls = 1..Len(calls) /\ Len(calls) \in Nat
  BY DEF TInv, TarjanOK, SCC!Enter
<1>11. Called' = Called \cup {w}
  <2>1. Called = {calls[k] : k \in 1..Len(calls)} /\ Called' = {calls'[k] : k \in 1..Len(calls) + 1}
    BY <1>10 DEF Called
  <2>2. 1..Len(calls) + 1 = 1..Len(calls) \cup {Len(calls) + 1}
    BY <1>10
  <2>3. QED BY <1>10, <2>1, <2>2
<1>12. TarjanOK'
  <2>1. /\ index' \in Nat
        /\ digraph' \in SCC!Graphs'
        /\ ahead' \in SUBSET digraph'
        /\ visiting' \in Nat
        /\ comp' \in Nat
    BY <1>1, <1>2 DEF TInv, TarjanOK, SCC!Enter
  <2>2. QED BY <1>2, <1>5, <1>6, <1>7, <1>9, <1>10, <2>1 DEF TarjanOK
<1>13. \A u \in SCC!Visited : u # w /\ indexi'[u] = indexi[u] /\ comps'[u] = comps[u] /\ lowlink'[u] = lowlink[u]
  BY <1>1, <1>3, <1>5, <1>6, <1>7
<1>14. Indexed'
  <2>1. index' = index + 1
    BY DEF SCC!Enter
  <2>2. \A u \in SCC!Visited' : indexi'[u] < index'
    BY <1>1, <1>5, <1>8, <1>13, <2>1
  <2>3. QED BY <1>4, <1>8, <2>1, <2>2 DEF Indexed
<1>15. EdgesPassed'
  BY <1>2, <1>8, <1>11 DEF TInv, EdgesPassed
<1>16. Stacked'
  <2>1. \A k \in 1..Len(stack) : stack[k] \in Open /\ stack'[k] = stack[k] /\ stack'[k] \in SCC!Visited
    BY <1>1, <1>9 DEF TInv, Stacked
  <2>2. \A k \in 1..Len(stack) + 1 : k \in 1..Len(stack) \/ k = Len(stack) + 1
    BY <1>9
  <2>3. \A k \in DOMAIN stack' : stack'[k] \in Open'
    BY <1>8, <1>9, <2>1, <2>2
  <2>4. ASSUME NEW u \in Open' PROVE \E k \in DOMAIN stack' : stack'[k] = u
    <3>1. CASE u = w
      <4>1. Len(stack) + 1 \in DOMAIN stack'
        BY <1>9
      <4>2. QED BY <1>9, <3>1, <4>1
    <3>2. CASE u \in Open
      <4>1. PICK k \in DOMAIN stack : stack[k] = u
        BY <3>2 DEF TInv, Stacked
      <4>2. k \in DOMAIN stack'
        BY <1>9, <4>1
      <4>3. QED BY <1>9, <4>1, <4>2
    <3>3. QED BY <1>8, <3>1, <3>2
  <2>5. ASSUME NEW j \in DOMAIN stack', NEW k \in DOMAIN stack', j < k
        PROVE  indexi'[stack'[j]] < indexi'[stack'[k]]
    <3>1. j \in 1..Len(stack)
      BY <1>9, <2>5
    <3>2. CASE k \in 1..Len(stack)
      <4>1. indexi[stack[j]] < indexi[stack[k]]
        BY <1>9, <2>5, <3>1, <3>2 DEF TInv, Stacked
      <4>2. QED BY <1>1, <1>13, <2>1, <3>1, <3>2, <4>1
    <3>3. CASE k = Len(stack) + 1
      <4>1. stack[j] \in SCC!Visited /\ stack'[j] = stack[j]
        BY <1>1, <2>1, <3>1
      <4>2. QED BY <1>1, <1>5, <1>9, <1>13, <3>3, <4>1
    <3>4. QED BY <1>9, <2>2, <3>2, <3>3
  <2>6. QED BY <2>3, <2>4, <2>5 DEF Stacked
<1>17. \A k \in 1..Len(calls) : calls[k] \in Open /\ calls'[k] = calls[k] /\ calls'[k] \in SCC!Visited
  BY <1>1, <1>10 DEF TInv, Nested
<1>18. Nested'
  <2>2. \A k \in 1..Len(calls) + 1 : k \in 1..Len(calls) \/ k = Len(calls) + 1
    BY <1>10
  <2>3. \A k \in DOMAIN calls' : calls'[k] \in Open'
    BY <1>8, <1>10, <1>17, <2>2
  <2>4. ASSUME NEW j \in DOMAIN calls', NEW k \in DOMAIN calls', j < k
        PROVE  indexi'[calls'[j]] < indexi'[calls'[k]]
    <3>1. j \in 1..Len(calls)
      BY <1>10, <2>4
    <3>2. CASE k \in 1..Len(calls)
      <4>1. indexi[calls[j]] < indexi[calls[k]]
        BY <1>10, <2>4, <3>1, <3>2 DEF TInv, Nested
      <4>2. QED BY <1>1, <1>13, <1>17, <3>1, <3>2, <4>1
    <3>3. CASE k = Len(calls) + 1
      <4>1. calls[j] \in SCC!Visited /\ calls'[j] = calls[j]
        BY <1>1, <1>17, <3>1
      <4>2. QED BY <1>1, <1>5, <1>10, <1>13, <3>3, <4>1
    <3>4. QED BY <1>10, <2>2, <3>2, <3>3
  <2>5. ASSUME NEW k \in 1..Len(calls') - 1 PROVE <<calls'[k], calls'[k + 1]>> \in digraph'
    <3>1. k \in 1..Len(calls) /\ k + 1 \in 1..Len(calls) + 1 /\ Len(calls) >= 1
      BY <1>10
    <3>2. CASE k = Len(calls)
      <4>1. calls # <<>>
        BY <3>1
      <4>2. <<SCC!Top, w>> \in digraph /\ SCC!Top = calls[Len(calls)]
        BY <4>1 DEF SCC!Top
      <4>3. QED BY <1>2, <1>10, <1>17, <3>1, <3>2, <4>2
    <3>3. CASE k # Len(calls)
      <4>0. Len(calls) \in Nat
        BY <1>10
      <4>1. k \in 1..Len(calls) - 1 /\ k + 1 \in 1..Len(calls)
        BY <3>1, <3>3, <4>0
      <4>2. <<calls[k], calls[k + 1]>> \in digraph
        BY <4>1 DEF TInv, Nested
      <4>3. QED BY <1>2, <1>17, <3>1, <4>1, <4>2
    <3>4. QED BY <3>2, <3>3
  <2>6. calls'[1] = visiting'
    <3>1. CASE calls = <<>>
      BY <1>2, <1>10, <3>1
    <3>2. CASE calls # <<>>
      <4>1. 1 \in 1..Len(calls) /\ calls[1] = visiting
        BY <3>2, <1>10 DEF TInv, Nested, TarjanOK
      <4>2. QED BY <1>2, <1>10, <4>1
    <3>3. QED BY <3>1, <3>2
  <2>7. \A u \in SCC!Vertices' : u < visiting' => u \in SCC!Visited'
    BY <1>2, <1>8 DEF TInv, Nested
  <2>8. QED BY <2>3, <2>4, <2>5, <2>6, <2>7 DEF Nested
<1>19. Low'
  <2>1. ASSUME NEW g \in Called'
        PROVE  lowlink'[g] <= indexi'[g] /\ \E z \in Open' : indexi'[z] = lowlink'[g] /\ z \in SCC!Leads(g)'
    <3>1. CASE g = w
      <4>1. g \in SCC!Leads(g)
        BY <3>1, LeadsSelf
      <4>2. QED BY <1>1, <1>2, <1>5, <1>7, <1>8, <3>1, <4>1
    <3>2. CASE g \in Called
      <4>1. PICK z \in Open : indexi[z] = lowlink[g] /\ z \in SCC!Leads(g)
        BY <3>2 DEF TInv, Low
      <4>2. lowlink[g] <= indexi[g]
        BY <3>2 DEF TInv, Low
      <4>3. g \in SCC!Visited /\ z \in SCC!Visited /\ z \in Open'
        BY <1>1, <1>8, <3>2
      <4>4. QED BY <1>2, <1>13, <4>1, <4>2, <4>3
    <3>3. QED BY <1>11, <3>1, <3>2
  <2>2. ASSUME NEW g \in Called', NEW a \in digraph' \ ahead',
               a[1] \in Open', a[2] \in Open', Owns(g, a[1])'
        PROVE  lowlink'[g] <= indexi'[a[2]]
    <3>1. a \in digraph \ ahead /\ a[1] \in SCC!Visited /\ a[2] \in SCC!Visited
      BY <1>2 DEF TInv, EdgesPassed
    <3>2. a[1] \in Open /\ a[2] \in Open
      BY <1>3, <1>8, <2>2, <3>1
    <3>3. indexi'[g] <= indexi'[a[1]] /\ \A h \in Called' : indexi'[g] < indexi'[h] => indexi'[a[1]] < indexi'[h]
      BY <2>2 DEF Owns
    <3>4. indexi'[a[1]] = indexi[a[1]] /\ indexi[a[1]] < index /\ indexi[a[1]] \in Nat
      BY <1>1, <1>13, <3>1
    <3>5. g # w
      BY <1>1, <1>5, <3>3, <3>4
    <3>6. g \in Called /\ g \in SCC!Visited
      BY <1>1, <1>11, <3>5
    <3>7. \A h \in Called : h \in Called' /\ h \in SCC!Visited
      BY <1>1, <1>11
    <3>8. Owns(g, a[1])
      BY <1>13, <3>3, <3>4, <3>6, <3>7 DEF Owns
    <3>9. lowlink[g] <= indexi[a[2]]
      BY <3>1, <3>2, <3>6, <3>8 DEF TInv, Low
    <3>10. QED BY <1>13, <3>1, <3>6, <3>9
  <2>3. QED BY <2>1, <2>2 DEF Low
<1>20. Linked'
  <2>1. ASSUME NEW x \in Open PROVE w \in SCC!Leads(x)
    <3>1. PICK g \in Called : indexi[g] <= indexi[x] /\ g \in SCC!Leads(x)
      BY DEF TInv, Linked
    <3>2. calls # <<>>
      BY DEF Called
    <3>3. SCC!Top \in Called /\ \A h \in Called : h # SCC!Top => indexi[h] < indexi[SCC!Top]
      BY <3>2, TarjanCalls DEF TInv
    <3>4. g \in Open /\ SCC!Top \in Open /\ indexi[g] \in Nat /\ indexi[SCC!Top] \in Nat
      BY <1>1, <3>1, <3>3
    <3>5. indexi[g] <= indexi[SCC!Top]
      BY <3>3, <3>4
    <3>6. SCC!Top \in SCC!Leads(g)
      BY <3>4, <3>5 DEF TInv, Linked
    <3>7. w \in SCC!Leads(SCC!Top)
      BY <1>1, <3>2, LeadsEdge
    <3>8. SCC!Top \in SCC!Leads(x)
      BY <3>1, <3>6, LeadsOn
    <3>9. QED BY <3>7, <3>8, LeadsOn
  <2>2. ASSUME NEW x \in Open', NEW y \in Open', indexi'[x] <= indexi'[y] PROVE y \in SCC!Leads(x)
    <3>1. CASE x = w /\ y = w
      BY <3>1, LeadsSelf
    <3>2. CASE x \in Open /\ y = w
      BY <2>1, <3>2
    <3>3. CASE x = w /\ y \in Open
      <4>1. y \in SCC!Visited
        BY <1>1, <3>3
      <4>2. indexi'[y] < index /\ indexi'[x] = index /\ indexi'[y] \in Nat
        BY <1>1, <1>5, <1>13, <3>3, <4>1
      <4>3. QED BY <1>1, <2>2, <4>2
    <3>4. CASE x \in Open /\ y \in Open
      BY <1>1, <1>13, <2>2, <3>4 DEF TInv, Linked
    <3>5. QED BY <1>8, <3>1, <3>2, <3>3, <3>4
  <2>3. ASSUME NEW y \in Open' PROVE \E g \in Called' : indexi'[g] <= indexi'[y] /\ g \in SCC!Leads(y)
    <3>1. CASE y = w
      <4>1. w \in SCC!Leads(w) /\ indexi'[w] <= indexi'[w] /\ w \in Called'
        BY <1>1, <1>5, <1>11, LeadsSelf
      <4>2. QED BY <3>1, <4>1
    <3>2. CASE y \in Open
      <4>1. PICK g \in Called : indexi[g] <= indexi[y] /\ g \in SCC!Leads(y)
        BY <3>2 DEF TInv, Linked
      <4>2. g \in SCC!Visited /\ y \in SCC!Visited /\ g \in Called'
        BY <1>1, <1>11, <3>2
      <4>3. QED BY <1>13, <4>1, <4>2
    <3>3. QED BY <1>8, <3>1, <3>2
  <2>4. QED BY <1>2, <2>2, <2>3 DEF Linked
<1>21. Exact'
  <2>1. \A u \in SCC!Closed : u \in SCC!Visited /\ comps'[u] = comps[u]
    BY <1>1, <1>13
  <2>2. w \notin SCC!Closed
    BY <1>1, <1>3
  <2>3. {comps'[u] : u \in SCC!Closed'} = 0..comp' - 1
    <3>1. {comps'[u] : u \in SCC!Closed} = {comps[u] : u \in SCC!Closed}
      BY <2>1
    <3>2. QED BY <1>2, <1>8, <3>1 DEF TInv, Exact
  <2>4. \A u \in SCC!Closed', x \in SCC!Vertices' :
          (x \in SCC!Closed' /\ comps'[u] = comps'[x]) <=> (x \in SCC!Leads(u)' /\ u \in SCC!Leads(x)')
    BY <1>2, <1>8, <2>1 DEF TInv, Exact
  <2>5. \A x \in digraph' : x[1] \in SCC!Closed' => x[2] \in SCC!Closed' /\ comps'[x[1]] >= comps'[x[2]]
    BY <1>2, <1>8, <2>1 DEF TInv, Exact
  <2>6. QED BY <2>3, <2>4, <2>5 DEF Exact
<1>22. QED BY <1>12, <1>14, <1>15, <1>16, <1>18, <1>19, <1>20, <1>21 DEF TInv

-----------------------------------------------------------------------------
(* A call passes an edge to a vertex visited before, or a search goes on   *)
(* to the next vertex.                                                     *)

LEMMA SamePlaces ==
    ASSUME UNCHANGED <<digraph, indexi, comps, calls>>
    PROVE  /\ SCC!Vertices' = SCC!Vertices /\ SCC!Graphs' = SCC!Graphs /\ \A x : SCC!Leads(x)' = SCC!Leads(x)
           /\ SCC!Visited' = SCC!Visited /\ Open' = Open /\ SCC!Closed' = SCC!Closed /\ Called' = Called
           /\ \A g, x : Owns(g, x)' <=> Owns(g, x)
<1>1. SCC!Vertices' = SCC!Vertices /\ SCC!Graphs' = SCC!Graphs /\ \A x : SCC!Leads(x)' = SCC!Leads(x)
  BY SameDigraph
<1>2. SCC!Visited' = SCC!Visited
  BY <1>1 DEF SCC!Visited
<1>3. Open' = Open /\ SCC!Closed' = SCC!Closed /\ Called' = Called
  BY <1>2 DEF Open, SCC!Closed, Called
<1>4. \A g, x : Owns(g, x)' <=> Owns(g, x)
  BY <1>3 DEF Owns
<1>5. QED BY <1>1, <1>2, <1>3, <1>4

LEMMA SkipKeeps ==
    ASSUME TInv, calls = <<>>, visiting \in SCC!Vertices, indexi[visiting] # SCC!Inf,
           visiting' = visiting + 1,
           UNCHANGED <<digraph, indexi, comps, lowlink, stack, index, comp, calls, ahead>>
    PROVE  TInv'
<1>1. /\ SCC!Vertices' = SCC!Vertices /\ SCC!Graphs' = SCC!Graphs /\ \A x : SCC!Leads(x)' = SCC!Leads(x)
      /\ SCC!Visited' = SCC!Visited /\ Open' = Open /\ SCC!Closed' = SCC!Closed /\ Called' = Called
      /\ \A g, x : Owns(g, x)' <=> Owns(g, x)
  BY SamePlaces
<1>2. visiting \in Nat
  BY DEF TInv, TarjanOK
<1>3. TarjanOK'
  BY <1>1, <1>2 DEF TInv, TarjanOK
<1>4. Indexed' /\ EdgesPassed' /\ Stacked'
  BY <1>1 DEF TInv, Indexed, EdgesPassed, Stacked
<1>5. Nested'
  <2>1. \A u \in SCC!Vertices : u \in Nat
    BY DigraphShape DEF TInv, TarjanOK
  <2>2. \A u \in SCC!Vertices : u < visiting + 1 => u < visiting \/ u = visiting
    BY <1>2, <2>1
  <2>3. \A u \in SCC!Vertices' : u < visiting' => u \in SCC!Visited'
    BY <1>1, <2>2 DEF TInv, Nested, SCC!Visited
  <2>4. calls' = <<>> /\ DOMAIN calls' = {} /\ Len(calls') = 0
    OBVIOUS
  <2>5. QED BY <2>3, <2>4 DEF Nested
<1>6. Low'
  BY <1>1 DEF TInv, Low
<1>7. Linked'
  BY <1>1 DEF TInv, Linked
<1>8. Exact'
  BY <1>1 DEF TInv, Exact
<1>9. QED BY <1>3, <1>4, <1>5, <1>6, <1>7, <1>8 DEF TInv

LEMMA LookKeeps ==
    ASSUME TInv, calls # <<>>, NEW w \in SCC!Vertices, <<SCC!Top, w>> \in ahead, indexi[w] # SCC!Inf,
           lowlink' = IF SCC!OnStack(w)
                      THEN [lowlink EXCEPT ![SCC!Top] = SCC!Smaller(@, indexi[w])] ELSE lowlink,
           ahead' = ahead \ {<<SCC!Top, w>>},
           UNCHANGED <<digraph, indexi, comps, stack, index, comp, calls, visiting>>
    PROVE  TInv'
<1>1. /\ SCC!Vertices' = SCC!Vertices /\ SCC!Graphs' = SCC!Graphs /\ \A x : SCC!Leads(x)' = SCC!Leads(x)
      /\ SCC!Visited' = SCC!Visited /\ Open' = Open /\ SCC!Closed' = SCC!Closed /\ Called' = Called
      /\ \A g, x : Owns(g, x)' <=> Owns(g, x)
  BY SamePlaces
<1>2. /\ SCC!Visited \subseteq SCC!Vertices /\ Open \subseteq SCC!Visited /\ SCC!Closed = SCC!Visited \ Open
      /\ \A u \in SCC!Vertices : lowlink[u] \in Nat
      /\ \A u \in SCC!Visited : indexi[u] \in Nat /\ indexi[u] < index
      /\ digraph \in SCC!Graphs /\ Called \subseteq Open
      /\ \A g, h \in Called : Owns(g, h) <=> g = h
  BY Shape
<1>3. SCC!Top \in Called /\ SCC!Top \in SCC!Vertices
  BY <1>2, TarjanCalls DEF TInv
<1>4. w \in SCC!Visited /\ (SCC!OnStack(w) <=> w \in Open)
  BY DEF SCC!Visited, Open, SCC!OnStack
<1>5. /\ lowlink' \in [SCC!Vertices -> Nat]
      /\ \A g \in SCC!Vertices : lowlink'[g] <= lowlink[g] /\ (g # SCC!Top => lowlink'[g] = lowlink[g])
      /\ w \in Open => lowlink'[SCC!Top] <= indexi[w] /\ lowlink'[SCC!Top] \in {lowlink[SCC!Top], indexi[w]}
      /\ w \notin Open => lowlink'[SCC!Top] = lowlink[SCC!Top]
  <2>1. lowlink \in [SCC!Vertices -> Nat]
    BY DEF TInv, TarjanOK
  <2>2. CASE w \in Open
    <3>1. lowlink' = [lowlink EXCEPT ![SCC!Top] = SCC!Smaller(lowlink[SCC!Top], indexi[w])]
      BY <1>4, <2>2
    <3>2. /\ SCC!Smaller(lowlink[SCC!Top], indexi[w]) \in {lowlink[SCC!Top], indexi[w]}
          /\ SCC!Smaller(lowlink[SCC!Top], indexi[w]) <= lowlink[SCC!Top]
          /\ SCC!Smaller(lowlink[SCC!Top], indexi[w]) <= indexi[w]
      BY <1>2, <1>3, <1>4 DEF SCC!Smaller
    <3>3. QED BY <1>2, <1>3, <1>4, <2>1, <2>2, <3>1, <3>2
  <2>3. CASE w \notin Open
    BY <1>2, <1>4, <2>1, <2>3
  <2>4. QED BY <2>2, <2>3
<1>6. <<SCC!Top, w>> \in digraph
  BY DEF TInv, TarjanOK
<1>7. TarjanOK'
  BY <1>1, <1>5 DEF TInv, TarjanOK
<1>8. Indexed' /\ Stacked' /\ Nested'
  BY <1>1 DEF TInv, Indexed, Stacked, Nested
<1>9. EdgesPassed'
  BY <1>1, <1>2, <1>3, <1>4 DEF TInv, EdgesPassed
<1>10. Low'
  <2>1. ASSUME NEW g \in Called
        PROVE  lowlink'[g] <= indexi[g] /\ \E z \in Open : indexi[z] = lowlink'[g] /\ z \in SCC!Leads(g)
    <3>1. PICK z \in Open : indexi[z] = lowlink[g] /\ z \in SCC!Leads(g)
      BY DEF TInv, Low
    <3>2. lowlink[g] <= indexi[g] /\ g \in SCC!Vertices /\ indexi[g] \in Nat
      BY <1>2 DEF TInv, Low
    <3>3. lowlink'[g] <= indexi[g]
      BY <1>2, <1>5, <3>2
    <3>4. CASE lowlink'[g] = lowlink[g]
      BY <3>1, <3>3, <3>4
    <3>5. CASE lowlink'[g] # lowlink[g]
      <4>1. g = SCC!Top /\ w \in Open /\ lowlink'[g] = indexi[w]
        BY <1>5, <3>2, <3>5
      <4>2. w \in SCC!Leads(SCC!Top)
        BY <1>2, <1>6, LeadsEdge
      <4>3. QED BY <3>3, <4>1, <4>2
    <3>6. QED BY <3>4, <3>5
  <2>2. ASSUME NEW g \in Called, NEW a \in digraph \ ahead', a[1] \in Open, a[2] \in Open, Owns(g, a[1])
        PROVE  lowlink'[g] <= indexi[a[2]]
    <3>1. CASE a \in digraph \ ahead
      <4>1. lowlink[g] <= indexi[a[2]]
        BY <2>2, <3>1 DEF TInv, Low
      <4>2. lowlink'[g] <= lowlink[g] /\ lowlink'[g] \in Nat /\ lowlink[g] \in Nat /\ indexi[a[2]] \in Nat
        BY <1>2, <1>5, <2>2
      <4>3. QED BY <4>1, <4>2
    <3>2. CASE a = <<SCC!Top, w>>
      BY <1>2, <1>3, <1>5, <2>2, <3>2
    <3>3. QED BY <3>1, <3>2
  <2>3. QED BY <1>1, <2>1, <2>2 DEF Low
<1>11. Linked'
  BY <1>1 DEF TInv, Linked
<1>12. Exact'
  BY <1>1 DEF TInv, Exact
<1>13. QED BY <1>7, <1>8, <1>9, <1>10, <1>11, <1>12 DEF TInv

-----------------------------------------------------------------------------
(* A call returns.                                                         *)

\* What every return leaves alone, and what it does to the calls.
LEMMA ReturnShape ==
    ASSUME TInv, SCC!Return
    PROVE  /\ calls # <<>> /\ SCC!Top \in Called /\ SCC!Top \in Open
           /\ \A h \in Called : indexi[h] \in Nat /\ (h # SCC!Top => indexi[h] < indexi[SCC!Top])
           /\ Called' = Called \ {SCC!Top}
           /\ \A a \in ahead : a[1] # SCC!Top
           /\ ahead' \subseteq ahead
           /\ \A a \in digraph \ ahead' : a \in digraph \ ahead \/ (Len(calls) # 1 /\ a = <<SCC!Caller, SCC!Top>>)
           /\ Len(calls) # 1 =>
                 /\ SCC!Caller \in Called /\ SCC!Caller # SCC!Top /\ <<SCC!Caller, SCC!Top>> \in digraph
                 /\ \A h \in Called : h # SCC!Top /\ h # SCC!Caller => indexi[h] < indexi[SCC!Caller]
           /\ \A a \in digraph \ ahead' : a[1] \in SCC!Visited /\ a[2] \in SCC!Visited
           /\ \A a \in ahead' : a[1] \in SCC!Visited => a[1] \in Called'
           /\ calls' \in Seq(SCC!Vertices) /\ visiting' \in Nat
           /\ \A j, k \in DOMAIN calls' : j < k => indexi[calls'[j]] < indexi[calls'[k]]
           /\ \A k \in 1..Len(calls') - 1 : <<calls'[k], calls'[k + 1]>> \in digraph
           /\ calls' # <<>> => calls'[1] = visiting'
           /\ \A u \in SCC!Vertices : u < visiting' => u \in SCC!Visited
<1>1. /\ calls # <<>> /\ SCC!EndsAhead(SCC!Top) = {} /\ calls' = SCC!Below
      /\ Len(calls) = 1 => visiting' = visiting + 1 /\ ahead' = ahead
      /\ Len(calls) # 1 => visiting' = visiting /\ ahead' = ahead \ {<<SCC!Caller, SCC!Top>>}
  BY DEF SCC!Return
<1>2. /\ Len(calls) \in Nat /\ Len(calls) >= 1
      /\ SCC!Top \in Called /\ Called \subseteq Open /\ Open \subseteq SCC!Vertices
      /\ \A h \in Called : h # SCC!Top => indexi[h] < indexi[SCC!Top]
      /\ Len(calls) = 1 => Called = {SCC!Top} /\ SCC!Top = visiting
      /\ Len(calls) # 1 =>
            /\ SCC!Caller \in Called /\ SCC!Caller # SCC!Top /\ <<SCC!Caller, SCC!Top>> \in digraph
            /\ \A h \in Called : h # SCC!Top /\ h # SCC!Caller => indexi[h] < indexi[SCC!Caller]
      /\ SCC!Below \in Seq(SCC!Vertices) /\ Len(SCC!Below) = Len(calls) - 1
      /\ \A k \in 1..Len(calls) - 1 : SCC!Below[k] = calls[k]
      /\ {SCC!Below[k] : k \in DOMAIN SCC!Below} = Called \ {SCC!Top}
  BY <1>1, TarjanCalls DEF TInv
<1>3. /\ Open \subseteq SCC!Visited
      /\ \A u \in SCC!Visited : indexi[u] \in Nat /\ indexi[u] < index
      /\ \A a \in digraph : a = <<a[1], a[2]>> /\ a[1] \in SCC!Vertices /\ a[2] \in SCC!Vertices
  BY Shape
<1>4. Called' = Called \ {SCC!Top}
  BY <1>1, <1>2 DEF Called
<1>5. ahead \subseteq digraph /\ visiting \in Nat
  BY DEF TInv, TarjanOK
<1>6. \A a \in ahead : a[1] # SCC!Top
  BY <1>1, <1>3, <1>5 DEF SCC!EndsAhead
<1>7. /\ ahead' \subseteq ahead
      /\ \A a \in digraph \ ahead' : a \in digraph \ ahead \/ (Len(calls) # 1 /\ a = <<SCC!Caller, SCC!Top>>)
  BY <1>1
<1>8. \A a \in digraph \ ahead' : a[1] \in SCC!Visited /\ a[2] \in SCC!Visited
  <2>1. \A a \in digraph \ ahead : a[1] \in SCC!Visited /\ a[2] \in SCC!Visited
    BY DEF TInv, EdgesPassed
  <2>2. SCC!Top \in SCC!Visited /\ (Len(calls) # 1 => SCC!Caller \in SCC!Visited)
    BY <1>2, <1>3
  <2>3. QED BY <1>7, <2>1, <2>2
<1>9. \A a \in ahead' : a[1] \in SCC!Visited => a[1] \in Called'
  BY <1>4, <1>6, <1>7 DEF TInv, EdgesPassed
<1>10. DOMAIN calls' = 1..Len(calls) - 1 /\ Len(calls') = Len(calls) - 1
  BY <1>1, <1>2
<1>11. \A j, k \in DOMAIN calls' : j < k => indexi[calls'[j]] < indexi[calls'[k]]
  <2>1. \A k \in DOMAIN calls' : k \in DOMAIN calls /\ calls'[k] = calls[k]
    <3>1. \A k \in 1..Len(calls) - 1 : k \in 1..Len(calls)
      BY <1>2
    <3>2. DOMAIN calls = 1..Len(calls)
      BY DEF TInv, TarjanOK
    <3>3. QED BY <1>1, <1>2, <1>10, <3>1, <3>2
  <2>2. QED BY <2>1 DEF TInv, Nested
<1>12. \A k \in 1..Len(calls') - 1 : <<calls'[k], calls'[k + 1]>> \in digraph
  <2>1. \A k \in 1..Len(calls) - 1 - 1 : k \in 1..Len(calls) - 1 /\ k + 1 \in 1..Len(calls) - 1
    BY <1>2
  <2>2. QED BY <1>1, <1>2, <1>10, <2>1 DEF TInv, Nested
<1>13. ASSUME calls' # <<>> PROVE calls'[1] = visiting'
  <2>1. Len(calls) # 1
    BY <1>1, <1>2, <1>13
  <2>2. 1 \in 1..Len(calls) - 1
    BY <1>2, <2>1
  <2>3. QED BY <1>1, <1>2, <2>1, <2>2 DEF TInv, Nested
<1>14. \A u \in SCC!Vertices : u < visiting' => u \in SCC!Visited
  <2>1. \A u \in SCC!Vertices : u < visiting => u \in SCC!Visited
    BY DEF TInv, Nested
  <2>2. CASE Len(calls) # 1
    BY <1>1, <2>1, <2>2
  <2>3. CASE Len(calls) = 1
    <3>1. SCC!Top \in SCC!Visited /\ SCC!Top = visiting
      BY <1>2, <1>3, <2>3
    <3>2. \A u \in SCC!Vertices : u \in Nat
      BY DigraphShape DEF TInv, TarjanOK
    <3>3. \A u \in SCC!Vertices : u < visiting + 1 => u < visiting \/ u = visiting
      BY <1>5, <3>2
    <3>4. QED BY <1>1, <2>1, <2>3, <3>1, <3>3
  <2>4. QED BY <2>2, <2>3
<1>15. \A h \in Called : indexi[h] \in Nat
  BY <1>2, <1>3
<1>16. calls' \in Seq(SCC!Vertices) /\ visiting' \in Nat
  BY <1>1, <1>2, <1>5
<1>17. SCC!Top \in Open /\ \A h \in Called : indexi[h] \in Nat /\ (h # SCC!Top => indexi[h] < indexi[SCC!Top])
  BY <1>2, <1>15
<1>18. Len(calls) # 1 =>
          /\ SCC!Caller \in Called /\ SCC!Caller # SCC!Top /\ <<SCC!Caller, SCC!Top>> \in digraph
          /\ \A h \in Called : h # SCC!Top /\ h # SCC!Caller => indexi[h] < indexi[SCC!Caller]
  BY <1>2
<1>19. calls # <<>> /\ SCC!Top \in Called
  BY <1>1, <1>2
<1>20. QED BY <1>4, <1>6, <1>7, <1>8, <1>9, <1>11, <1>12, <1>13, <1>14, <1>16, <1>17, <1>18, <1>19

\* The call of a vertex that leads to an earlier one on the stack.
LEMMA LeaveKeeps ==
    ASSUME TInv, SCC!Return, ~SCC!IsRoot
    PROVE  TInv'
<1>1. /\ calls # <<>> /\ SCC!Top \in Called /\ SCC!Top \in Open
      /\ \A h \in Called : indexi[h] \in Nat /\ (h # SCC!Top => indexi[h] < indexi[SCC!Top])
      /\ Called' = Called \ {SCC!Top}
      /\ \A a \in digraph \ ahead' : a \in digraph \ ahead \/ (Len(calls) # 1 /\ a = <<SCC!Caller, SCC!Top>>)
      /\ Len(calls) # 1 =>
            /\ SCC!Caller \in Called /\ SCC!Caller # SCC!Top /\ <<SCC!Caller, SCC!Top>> \in digraph
            /\ \A h \in Called : h # SCC!Top /\ h # SCC!Caller => indexi[h] < indexi[SCC!Caller]
  BY ReturnShape
<1>2. /\ \A a \in digraph \ ahead' : a[1] \in SCC!Visited /\ a[2] \in SCC!Visited
      /\ \A a \in ahead' : a[1] \in SCC!Visited => a[1] \in Called'
      /\ calls' \in Seq(SCC!Vertices) /\ visiting' \in Nat /\ ahead' \subseteq ahead
      /\ \A j, k \in DOMAIN calls' : j < k => indexi[calls'[j]] < indexi[calls'[k]]
      /\ \A k \in 1..Len(calls') - 1 : <<calls'[k], calls'[k + 1]>> \in digraph
      /\ calls' # <<>> => calls'[1] = visiting'
      /\ \A u \in SCC!Vertices : u < visiting' => u \in SCC!Visited
  BY ReturnShape
<1>3. /\ digraph' = digraph
      /\ indexi' = indexi
      /\ comps' = comps
      /\ stack' = stack
      /\ index' = index
      /\ comp' = comp
      /\ Len(calls) # 1 => lowlink' = [lowlink EXCEPT ![SCC!Caller] = SCC!Smaller(@, lowlink[SCC!Top])]
      /\ lowlink[SCC!Top] # indexi[SCC!Top]
  BY DEF SCC!Return, SCC!IsRoot
<1>4. /\ SCC!Vertices' = SCC!Vertices /\ SCC!Graphs' = SCC!Graphs /\ \A x : SCC!Leads(x)' = SCC!Leads(x)
  BY <1>3, SameDigraph
<1>5. SCC!Visited' = SCC!Visited /\ Open' = Open /\ SCC!Closed' = SCC!Closed
  BY <1>3, <1>4 DEF SCC!Visited, Open, SCC!Closed
<1>6. /\ SCC!Visited \subseteq SCC!Vertices /\ Open \subseteq SCC!Visited
      /\ \A u \in SCC!Vertices : lowlink[u] \in Nat
      /\ \A u \in SCC!Visited : indexi[u] \in Nat
      /\ digraph \in SCC!Graphs /\ Called \subseteq Open
  BY Shape
<1>7. PICK z \in Open : indexi[z] = lowlink[SCC!Top] /\ z \in SCC!Leads(SCC!Top)
  BY <1>1 DEF TInv, Low
<1>8. indexi[z] < indexi[SCC!Top] /\ indexi[z] \in Nat /\ indexi[SCC!Top] \in Nat
  <2>1. lowlink[SCC!Top] <= indexi[SCC!Top]
    BY <1>1 DEF TInv, Low
  <2>2. QED BY <1>1, <1>3, <1>6, <1>7, <2>1
<1>9. PICK f \in Called : indexi[f] <= indexi[z] /\ f \in SCC!Leads(z)
  BY <1>7 DEF TInv, Linked
<1>10. f # SCC!Top
  BY <1>1, <1>8, <1>9
<1>11. Len(calls) # 1
  BY <1>1, <1>9, <1>10, TarjanCalls DEF TInv
<1>12. /\ SCC!Caller \in Called
       /\ SCC!Caller # SCC!Top
       /\ <<SCC!Caller, SCC!Top>> \in digraph
       /\ indexi[SCC!Caller] < indexi[SCC!Top]
  BY <1>1, <1>11
<1>13. /\ lowlink' \in [SCC!Vertices -> Nat]
       /\ \A g \in SCC!Vertices : lowlink'[g] <= lowlink[g] /\ (g # SCC!Caller => lowlink'[g] = lowlink[g])
       /\ lowlink'[SCC!Caller] <= lowlink[SCC!Top]
       /\ lowlink'[SCC!Caller] \in {lowlink[SCC!Caller], lowlink[SCC!Top]}
  <2>1. lowlink \in [SCC!Vertices -> Nat]
    BY DEF TInv, TarjanOK
  <2>2. lowlink' = [lowlink EXCEPT ![SCC!Caller] = SCC!Smaller(lowlink[SCC!Caller], lowlink[SCC!Top])]
    BY <1>3, <1>11
  <2>3. SCC!Caller \in SCC!Vertices /\ SCC!Top \in SCC!Vertices
    BY <1>1, <1>6, <1>12
  <2>4. /\ SCC!Smaller(lowlink[SCC!Caller], lowlink[SCC!Top]) \in {lowlink[SCC!Caller], lowlink[SCC!Top]}
        /\ SCC!Smaller(lowlink[SCC!Caller], lowlink[SCC!Top]) <= lowlink[SCC!Caller]
        /\ SCC!Smaller(lowlink[SCC!Caller], lowlink[SCC!Top]) <= lowlink[SCC!Top]
    BY <1>6, <2>3 DEF SCC!Smaller
  <2>5. QED BY <1>6, <2>1, <2>2, <2>3, <2>4
<1>14. TarjanOK'
  <2>1. digraph' \in SCC!Graphs' /\ ahead' \in SUBSET digraph' /\ comp' \in Nat /\ index' \in Nat
    BY <1>2, <1>3, <1>4 DEF TInv, TarjanOK
  <2>2. /\ indexi' \in [SCC!Vertices' -> 0..SCC!Inf] /\ comps' \in [SCC!Vertices' -> 0..SCC!Inf]
        /\ stack' \in Seq(SCC!Vertices')
    BY <1>3, <1>4 DEF TInv, TarjanOK
  <2>3. QED BY <1>2, <1>4, <1>13, <2>1, <2>2 DEF TarjanOK
<1>15. Indexed' /\ Stacked' /\ Exact'
  BY <1>3, <1>4, <1>5 DEF TInv, Indexed, Stacked, Exact
<1>16. EdgesPassed'
  BY <1>2, <1>3, <1>5 DEF EdgesPassed
<1>17. Nested'
  <2>1. \A k \in DOMAIN calls' : calls'[k] \in Open'
    <3>1. \A k \in DOMAIN calls' : calls'[k] \in Called'
      BY DEF Called
    <3>2. QED BY <1>1, <1>5, <1>6, <3>1
  <2>2. QED BY <1>2, <1>3, <1>4, <1>5, <2>1 DEF Nested
<1>18. Low'
  <2>1. ASSUME NEW g \in Called'
        PROVE  lowlink'[g] <= indexi[g] /\ \E y \in Open : indexi[y] = lowlink'[g] /\ y \in SCC!Leads(g)
    <3>1. g \in Called /\ g \in SCC!Vertices /\ indexi[g] \in Nat /\ lowlink[g] \in Nat
      BY <1>1, <1>6
    <3>2. lowlink[g] <= indexi[g] /\ \E y \in Open : indexi[y] = lowlink[g] /\ y \in SCC!Leads(g)
      BY <3>1 DEF TInv, Low
    <3>3. lowlink'[g] <= lowlink[g] /\ lowlink'[g] \in Nat
      BY <1>13, <3>1
    <3>4. CASE lowlink'[g] = lowlink[g]
      BY <3>2, <3>4
    <3>5. CASE lowlink'[g] # lowlink[g]
      <4>1. g = SCC!Caller /\ lowlink'[g] = lowlink[SCC!Top]
        BY <1>13, <3>1, <3>5
      <4>2. SCC!Top \in SCC!Leads(SCC!Caller)
        BY <1>6, <1>12, LeadsEdge
      <4>3. z \in SCC!Leads(SCC!Caller)
        BY <1>7, <4>2, LeadsOn
      <4>4. QED BY <1>7, <3>1, <3>2, <3>3, <4>1, <4>3
    <3>6. QED BY <3>4, <3>5
  <2>2. ASSUME NEW g \in Called', NEW a \in digraph \ ahead', a[1] \in Open, a[2] \in Open, Owns(g, a[1])'
        PROVE  lowlink'[g] <= indexi[a[2]]
    <3>1. /\ g \in Called /\ g # SCC!Top /\ g \in SCC!Vertices
          /\ indexi[g] \in Nat /\ lowlink[g] \in Nat /\ lowlink'[g] \in Nat
          /\ lowlink'[g] <= lowlink[g] /\ lowlink[g] <= indexi[g]
      BY <1>1, <1>6, <1>13 DEF TInv, Low
    <3>2. indexi[a[1]] \in Nat /\ indexi[a[2]] \in Nat
      BY <1>6, <2>2
    <3>3. indexi[g] <= indexi[a[1]] /\ \A h \in Called \ {SCC!Top} : indexi[g] < indexi[h] => indexi[a[1]] < indexi[h]
      BY <1>1, <1>3, <2>2 DEF Owns
    <3>4. CASE a = <<SCC!Caller, SCC!Top>>
      BY <1>1, <1>8, <3>1, <3>4
    <3>5. CASE a \in digraph \ ahead /\ Owns(g, a[1])
      <4>1. lowlink[g] <= indexi[a[2]]
        BY <2>2, <3>1, <3>5 DEF TInv, Low
      <4>2. QED BY <3>1, <3>2, <4>1
    <3>6. CASE a \in digraph \ ahead /\ ~Owns(g, a[1])
      <4>1. ~(indexi[a[1]] < indexi[SCC!Top])
        BY <1>1, <3>3, <3>6 DEF Owns
      <4>2. Owns(SCC!Top, a[1])
        BY <1>1, <1>8, <3>2, <4>1 DEF Owns
      <4>3. lowlink[SCC!Top] <= indexi[a[2]]
        BY <1>1, <2>2, <3>6, <4>2 DEF TInv, Low
      <4>4. g = SCC!Caller
        <5>1. SUFFICES ASSUME g # SCC!Caller PROVE FALSE
          OBVIOUS
        <5>2. indexi[g] < indexi[SCC!Caller] /\ SCC!Caller \in Called \ {SCC!Top}
          BY <1>1, <1>11, <3>1, <5>1
        <5>3. indexi[a[1]] < indexi[SCC!Caller]
          BY <3>3, <5>2
        <5>4. QED BY <1>1, <1>8, <1>12, <3>2, <4>1, <5>3
      <4>5. lowlink'[SCC!Caller] <= lowlink[SCC!Top] /\ lowlink[SCC!Top] \in Nat
        BY <1>7, <1>8, <1>13
      <4>6. QED BY <3>1, <3>2, <4>3, <4>4, <4>5
    <3>7. QED BY <1>1, <3>4, <3>5, <3>6
  <2>3. QED BY <1>3, <1>4, <1>5, <2>1, <2>2 DEF Low
<1>19. Linked'
  <2>1. ASSUME NEW y \in Open PROVE \E g \in Called' : indexi[g] <= indexi[y] /\ g \in SCC!Leads(y)
    <3>1. PICK g \in Called : indexi[g] <= indexi[y] /\ g \in SCC!Leads(y)
      BY DEF TInv, Linked
    <3>2. CASE g # SCC!Top
      BY <1>1, <3>1, <3>2
    <3>3. CASE g = SCC!Top
      <4>1. f \in SCC!Leads(y)
        BY <1>7, <1>9, <3>1, <3>3, LeadsOn
      <4>2. indexi[f] <= indexi[y]
        BY <1>1, <1>6, <1>8, <1>9, <3>1, <3>3
      <4>3. QED BY <1>1, <1>9, <1>10, <4>1, <4>2
    <3>4. QED BY <3>2, <3>3
  <2>2. \A x, y \in Open : indexi[x] <= indexi[y] => y \in SCC!Leads(x)
    BY DEF TInv, Linked
  <2>3. QED BY <1>3, <1>4, <1>5, <2>1, <2>2 DEF Linked
<1>20. QED BY <1>14, <1>15, <1>16, <1>17, <1>18, <1>19 DEF TInv

\* comp_ has not come to inf: there are no more components than vertices.
LEMMA CompIsSmall == ASSUME TInv PROVE comp \in Nat /\ comp < SCC!Inf
<1> DEFINE f == [u \in SCC!Closed |-> comps[u]]
<1>1. SCC!Closed \subseteq SCC!Vertices /\ comp \in Nat
  BY DEF TInv, TarjanOK, SCC!Closed, SCC!Visited
<1>2. IsFiniteSet(SCC!Vertices) /\ Cardinality(SCC!Vertices) \in Nat /\ Cardinality(SCC!Vertices) < SCC!Inf
  BY DigraphShape DEF TInv, TarjanOK
<1>3. /\ IsFiniteSet(SCC!Closed)
      /\ Cardinality(SCC!Closed) <= Cardinality(SCC!Vertices)
      /\ Cardinality(SCC!Closed) \in Nat
  BY <1>1, <1>2, FS_Subset, FS_CardinalityType
<1>4. {comps[u] : u \in SCC!Closed} = 0..comp - 1
  BY DEF TInv, Exact
<1>5. f \in Surjection(SCC!Closed, 0..comp - 1)
  BY <1>4 DEF Surjection
<1>6. Cardinality(0..comp - 1) <= Cardinality(SCC!Closed)
  BY <1>3, <1>5, FS_Surjection
<1>7. Cardinality(0..comp - 1) = comp
  BY <1>1, FS_Interval
<1>8. QED BY <1>1, <1>2, <1>3, <1>6, <1>7, NoIndexIs

\* What is taken off the stack.
OffStack == {x \in Open : indexi[SCC!Top] <= indexi[x]}

LEMMA PopShape ==
    ASSUME TInv, SCC!Top \in Open, SCC!PopComponent
    PROVE  /\ stack' \in Seq(SCC!Vertices)
           /\ \A k \in DOMAIN stack' : stack'[k] \in Open \ OffStack
           /\ \A u \in Open \ OffStack : \E k \in DOMAIN stack' : stack'[k] = u
           /\ \A j, k \in DOMAIN stack' : j < k => indexi[stack'[j]] < indexi[stack'[k]]
           /\ comps' = [w \in SCC!Vertices |-> IF w \in OffStack THEN comp ELSE comps[w]]
           /\ comp' = comp + 1
<1> DEFINE first == CHOOSE k \in DOMAIN stack : stack[k] = SCC!Top
<1>1. first \in DOMAIN stack /\ stack[first] = SCC!Top
  BY DEF TInv, Stacked
<1>2. /\ stack' = SubSeq(stack, 1, first - 1)
      /\ comps' = [w \in SCC!Vertices |-> IF \E k \in first..Len(stack) : stack[k] = w THEN comp ELSE comps[w]]
      /\ comp' = comp + 1
  BY DEF SCC!PopComponent
<1> HIDE DEF first
<1>3. stack \in Seq(SCC!Vertices) /\ DOMAIN stack = 1..Len(stack) /\ Len(stack) \in Nat
  BY DEF TInv, TarjanOK
<1>4. \A u \in Open : indexi[u] \in Nat
  BY Shape
<1>5. \A k \in DOMAIN stack : stack[k] \in Open
  BY DEF TInv, Stacked
<1>6. \A j, k \in DOMAIN stack : j < k => indexi[stack[j]] < indexi[stack[k]]
  BY DEF TInv, Stacked
<1>7. ASSUME NEW k \in DOMAIN stack PROVE stack[k] \in OffStack <=> k >= first
  <2>1. k \in Nat /\ first \in Nat
    BY <1>1, <1>3
  <2>2. indexi[stack[k]] \in Nat /\ indexi[SCC!Top] \in Nat
    BY <1>4, <1>5
  <2>3. CASE k < first
    <3>1. indexi[stack[k]] < indexi[SCC!Top]
      BY <1>1, <1>6, <2>3
    <3>2. QED BY <2>1, <2>2, <2>3, <3>1 DEF OffStack
  <2>4. CASE k = first
    BY <1>1, <1>5, <2>1, <2>2, <2>4 DEF OffStack
  <2>5. CASE k > first
    <3>1. indexi[SCC!Top] < indexi[stack[k]]
      BY <1>1, <1>6, <2>1, <2>5
    <3>2. QED BY <1>5, <2>1, <2>2, <2>5, <3>1 DEF OffStack
  <2>6. QED BY <2>1, <2>3, <2>4, <2>5
<1>8. /\ stack' \in Seq(SCC!Vertices) /\ DOMAIN stack' = 1..first - 1
      /\ \A k \in 1..first - 1 : k \in DOMAIN stack /\ stack'[k] = stack[k]
  BY <1>1, <1>2, <1>3
<1>9. \A k \in DOMAIN stack' : stack'[k] \in Open \ OffStack
  <2>1. \A k \in 1..first - 1 : ~(k >= first)
    BY <1>1, <1>3
  <2>2. QED BY <1>5, <1>7, <1>8, <2>1
<1>10. ASSUME NEW u \in Open \ OffStack PROVE \E k \in DOMAIN stack' : stack'[k] = u
  <2>1. PICK k \in DOMAIN stack : stack[k] = u
    BY DEF TInv, Stacked
  <2>2. ~(k >= first)
    BY <1>7, <1>10, <2>1
  <2>3. k \in 1..first - 1
    BY <1>1, <1>3, <2>1, <2>2
  <2>4. QED BY <1>8, <2>1, <2>3
<1>11. \A j, k \in DOMAIN stack' : j < k => indexi[stack'[j]] < indexi[stack'[k]]
  BY <1>6, <1>8
<1>12. comps' = [w \in SCC!Vertices |-> IF w \in OffStack THEN comp ELSE comps[w]]
  <2>1. ASSUME NEW w \in SCC!Vertices
        PROVE  (\E k \in first..Len(stack) : stack[k] = w) <=> w \in OffStack
    <3>1. \A k \in first..Len(stack) : k \in DOMAIN stack /\ k >= first
      BY <1>1, <1>3
    <3>2. ASSUME w \in OffStack PROVE \E k \in first..Len(stack) : stack[k] = w
      <4>1. PICK k \in DOMAIN stack : stack[k] = w
        BY <3>2 DEF TInv, Stacked, OffStack
      <4>2. k >= first
        BY <1>7, <3>2, <4>1
      <4>3. k \in first..Len(stack)
        BY <1>1, <1>3, <4>1, <4>2
      <4>4. QED BY <4>1, <4>3
    <3>3. QED BY <1>7, <3>1, <3>2
  <2>2. QED BY <1>2, <2>1
<1>13. QED BY <1>2, <1>8, <1>9, <1>10, <1>11, <1>12

\* They are a component: they lead to each other and, apart from themselves, only to
\* vertices that have one.
LEMMA RootShape ==
    ASSUME TInv, SCC!Top \in Called, SCC!IsRoot, \A a \in ahead : a[1] # SCC!Top,
           \A h \in Called : h # SCC!Top => indexi[h] < indexi[SCC!Top]
    PROVE  /\ SCC!Top \in OffStack /\ OffStack \subseteq Open
           /\ Called \cap OffStack = {SCC!Top}
           /\ \A x, y \in OffStack : y \in SCC!Leads(x)
           /\ SCC!KeepsIn(SCC!Closed) /\ SCC!KeepsIn(SCC!Closed \cup OffStack)
<1>1. /\ SCC!Visited \subseteq SCC!Vertices /\ Open \subseteq SCC!Visited /\ SCC!Closed = SCC!Visited \ Open
      /\ \A u \in SCC!Visited : indexi[u] \in Nat
      /\ digraph \in SCC!Graphs /\ Called \subseteq Open
  BY Shape
<1>2. SCC!Top \in OffStack /\ OffStack \subseteq Open /\ indexi[SCC!Top] \in Nat
  BY <1>1 DEF OffStack
<1>3. Called \cap OffStack = {SCC!Top}
  <2>1. \A h \in Called : h \in OffStack => h = SCC!Top
    BY <1>1, <1>2 DEF OffStack
  <2>2. QED BY <1>2, <2>1
<1>4. ASSUME NEW x \in OffStack, NEW y \in OffStack PROVE y \in SCC!Leads(x)
  <2>1. PICK g \in Called : indexi[g] <= indexi[x] /\ g \in SCC!Leads(x)
    BY <1>2 DEF TInv, Linked
  <2>2. indexi[g] <= indexi[SCC!Top]
    BY <1>1, <1>2, <2>1
  <2>3. SCC!Top \in SCC!Leads(g)
    BY <1>1, <2>2 DEF TInv, Linked
  <2>4. y \in SCC!Leads(SCC!Top)
    BY <1>1, <1>2 DEF TInv, Linked, OffStack
  <2>5. SCC!Top \in SCC!Leads(x)
    BY <2>1, <2>3, LeadsOn
  <2>6. QED BY <2>4, <2>5, LeadsOn
<1>5. SCC!KeepsIn(SCC!Closed)
  BY DEF TInv, Exact, SCC!KeepsIn
<1>6. SCC!KeepsIn(SCC!Closed \cup OffStack)
  <2>1. SUFFICES ASSUME NEW a \in digraph, a[1] \in OffStack PROVE a[2] \in SCC!Closed \cup OffStack
    BY <1>5 DEF SCC!KeepsIn
  <2>2. a[1] \in SCC!Visited /\ a[1] \in Open
    BY <1>1, <1>2, <2>1
  <2>3. a \notin ahead
    BY <1>3, <2>1, <2>2 DEF TInv, EdgesPassed
  <2>4. a[2] \in SCC!Visited
    BY <2>3 DEF TInv, EdgesPassed
  <2>5. CASE a[2] \in SCC!Closed
    BY <2>5
  <2>6. CASE a[2] \in Open
    <3>1. indexi[SCC!Top] <= indexi[a[1]]
      BY <2>1 DEF OffStack
    <3>2. Owns(SCC!Top, a[1])
      BY <1>1, <1>2, <3>1 DEF Owns
    <3>3. lowlink[SCC!Top] <= indexi[a[2]]
      BY <2>2, <2>3, <2>6, <3>2 DEF TInv, Low
    <3>4. QED BY <2>6, <3>3 DEF SCC!IsRoot, OffStack
  <2>7. QED BY <1>1, <2>4, <2>5, <2>6
<1>7. QED BY <1>2, <1>3, <1>4, <1>5, <1>6

\* The call of the first vertex of a component.
LEMMA RootKeeps ==
    ASSUME TInv, SCC!Return, SCC!IsRoot
    PROVE  TInv'
<1> DEFINE P == OffStack
<1>1. /\ calls # <<>> /\ SCC!Top \in Called /\ SCC!Top \in Open
      /\ \A h \in Called : indexi[h] \in Nat /\ (h # SCC!Top => indexi[h] < indexi[SCC!Top])
      /\ Called' = Called \ {SCC!Top}
      /\ \A a \in ahead : a[1] # SCC!Top
      /\ \A a \in digraph \ ahead' : a \in digraph \ ahead \/ (Len(calls) # 1 /\ a = <<SCC!Caller, SCC!Top>>)
      /\ Len(calls) # 1 => SCC!Caller \in Called /\ SCC!Caller # SCC!Top
  BY ReturnShape
<1>2. /\ \A a \in digraph \ ahead' : a[1] \in SCC!Visited /\ a[2] \in SCC!Visited
      /\ \A a \in ahead' : a[1] \in SCC!Visited => a[1] \in Called'
      /\ calls' \in Seq(SCC!Vertices) /\ visiting' \in Nat /\ ahead' \subseteq ahead
      /\ \A j, k \in DOMAIN calls' : j < k => indexi[calls'[j]] < indexi[calls'[k]]
      /\ \A k \in 1..Len(calls') - 1 : <<calls'[k], calls'[k + 1]>> \in digraph
      /\ calls' # <<>> => calls'[1] = visiting'
      /\ \A u \in SCC!Vertices : u < visiting' => u \in SCC!Visited
  BY ReturnShape
<1>3. /\ digraph' = digraph /\ indexi' = indexi /\ index' = index /\ SCC!PopComponent
      /\ Len(calls) = 1 => lowlink' = lowlink
      /\ Len(calls) # 1 => lowlink' = [lowlink EXCEPT ![SCC!Caller] = SCC!Smaller(@, lowlink[SCC!Top])]
      /\ lowlink[SCC!Top] = indexi[SCC!Top]
  BY DEF SCC!Return, SCC!IsRoot
<1>4. /\ stack' \in Seq(SCC!Vertices)
      /\ \A k \in DOMAIN stack' : stack'[k] \in Open \ P
      /\ \A u \in Open \ P : \E k \in DOMAIN stack' : stack'[k] = u
      /\ \A j, k \in DOMAIN stack' : j < k => indexi[stack'[j]] < indexi[stack'[k]]
      /\ comps' = [w \in SCC!Vertices |-> IF w \in P THEN comp ELSE comps[w]]
      /\ comp' = comp + 1
  BY <1>1, <1>3, PopShape
<1>5. /\ SCC!Top \in P /\ P \subseteq Open /\ Called \cap P = {SCC!Top}
      /\ \A x, y \in P : y \in SCC!Leads(x)
      /\ SCC!KeepsIn(SCC!Closed) /\ SCC!KeepsIn(SCC!Closed \cup P)
  BY <1>1, RootShape
<1>6. /\ SCC!Vertices' = SCC!Vertices /\ SCC!Graphs' = SCC!Graphs /\ \A x : SCC!Leads(x)' = SCC!Leads(x)
  BY <1>3, SameDigraph
<1>7. /\ SCC!Visited \subseteq SCC!Vertices /\ Open \subseteq SCC!Visited /\ SCC!Closed = SCC!Visited \ Open
      /\ \A u \in SCC!Vertices : lowlink[u] \in Nat
      /\ \A u \in SCC!Visited : indexi[u] \in Nat
      /\ digraph \in SCC!Graphs /\ Called \subseteq Open
  BY Shape
<1>8. comp \in Nat /\ comp < SCC!Inf
  BY CompIsSmall
<1>9. \A u \in Open \ P : indexi[u] < indexi[SCC!Top]
  BY <1>1, <1>7 DEF OffStack
<1> HIDE DEF P
<1>10. SCC!Visited' = SCC!Visited /\ Open' = Open \ P /\ SCC!Closed' = SCC!Closed \cup P
  <2>1. SCC!Visited' = SCC!Visited
    BY <1>3, <1>6 DEF SCC!Visited
  <2>2. \A u \in SCC!Vertices : comps'[u] = SCC!Inf <=> u \notin P /\ comps[u] = SCC!Inf
    BY <1>4, <1>8, NoIndexIs
  <2>3. Open' = Open \ P
    BY <1>7, <2>1, <2>2 DEF Open
  <2>4. SCC!Closed' = SCC!Closed \cup P
    BY <1>5, <1>7, <2>1, <2>2 DEF SCC!Closed
  <2>5. QED BY <2>1, <2>3, <2>4
<1>11. lowlink' \in [SCC!Vertices -> Nat] /\ \A g \in Called : lowlink'[g] = lowlink[g]
  <2>1. lowlink \in [SCC!Vertices -> Nat]
    BY DEF TInv, TarjanOK
  <2>2. CASE Len(calls) = 1
    BY <1>3, <2>1, <2>2
  <2>3. CASE Len(calls) # 1
    <3>1. /\ SCC!Caller \in SCC!Vertices
          /\ indexi[SCC!Caller] < indexi[SCC!Top]
          /\ lowlink[SCC!Caller] <= indexi[SCC!Caller]
      BY <1>1, <1>7, <2>3 DEF TInv, Low
    <3>2. lowlink[SCC!Caller] \in Nat /\ indexi[SCC!Caller] \in Nat /\ indexi[SCC!Top] \in Nat
      BY <1>1, <1>7, <2>3, <3>1
    <3>3. SCC!Smaller(lowlink[SCC!Caller], lowlink[SCC!Top]) = lowlink[SCC!Caller]
      BY <1>3, <3>1, <3>2 DEF SCC!Smaller
    <3>4. lowlink' = [lowlink EXCEPT ![SCC!Caller] = lowlink[SCC!Caller]]
      BY <1>3, <2>3, <3>3
    <3>5. QED BY <2>1, <3>1, <3>2, <3>4
  <2>4. QED BY <2>2, <2>3
<1>12. TarjanOK'
  <2>1. digraph' \in SCC!Graphs' /\ ahead' \in SUBSET digraph' /\ comp' \in Nat /\ index' \in Nat
    BY <1>2, <1>3, <1>4, <1>6, <1>8 DEF TInv, TarjanOK
  <2>2. comps' \in [SCC!Vertices -> 0..SCC!Inf]
    <3>1. comps \in [SCC!Vertices -> 0..SCC!Inf] /\ comp \in 0..SCC!Inf
      BY <1>8, NoIndexIs DEF TInv, TarjanOK
    <3>2. QED BY <1>4, <3>1
  <2>3. indexi' \in [SCC!Vertices' -> 0..SCC!Inf]
    BY <1>3, <1>6 DEF TInv, TarjanOK
  <2>4. QED BY <1>2, <1>4, <1>6, <1>11, <2>1, <2>2, <2>3 DEF TarjanOK
<1>13. Indexed'
  BY <1>3, <1>10 DEF TInv, Indexed
<1>14. EdgesPassed'
  BY <1>2, <1>3, <1>10 DEF EdgesPassed
<1>15. Stacked'
  BY <1>3, <1>4, <1>10 DEF Stacked
<1>16. Called' \subseteq Open \ P
  BY <1>1, <1>5, <1>7
<1>17. Nested'
  <2>1. \A k \in DOMAIN calls' : calls'[k] \in Open'
    <3>1. \A k \in DOMAIN calls' : calls'[k] \in Called'
      BY DEF Called
    <3>2. QED BY <1>10, <1>16, <3>1
  <2>2. QED BY <1>2, <1>3, <1>6, <1>10, <2>1 DEF Nested
<1>18. Low'
  <2>1. ASSUME NEW g \in Called'
        PROVE  lowlink'[g] <= indexi[g] /\ \E z \in Open \ P : indexi[z] = lowlink'[g] /\ z \in SCC!Leads(g)
    <3>1. g \in Called /\ lowlink'[g] = lowlink[g] /\ lowlink[g] <= indexi[g]
      BY <1>1, <1>11 DEF TInv, Low
    <3>2. PICK z \in Open : indexi[z] = lowlink[g] /\ z \in SCC!Leads(g)
      BY <3>1 DEF TInv, Low
    <3>3. indexi[g] < indexi[SCC!Top] /\ indexi[g] \in Nat /\ indexi[SCC!Top] \in Nat /\ indexi[z] \in Nat
      BY <1>1, <1>7, <3>2
    <3>4. ~(indexi[SCC!Top] <= indexi[z])
      BY <3>1, <3>2, <3>3
    <3>5. z \notin P
      BY <3>4 DEF P, OffStack
    <3>6. QED BY <3>1, <3>2, <3>5
  <2>2. ASSUME NEW g \in Called', NEW a \in digraph \ ahead',
               a[1] \in Open \ P, a[2] \in Open \ P, Owns(g, a[1])'
        PROVE  lowlink'[g] <= indexi[a[2]]
    <3>1. g \in Called /\ lowlink'[g] = lowlink[g]
      BY <1>1, <1>11
    <3>2. a \in digraph \ ahead
      BY <1>1, <1>5, <2>2
    <3>3. Owns(g, a[1])
      BY <1>1, <1>3, <1>9, <2>2 DEF Owns
    <3>4. QED BY <2>2, <3>1, <3>2, <3>3 DEF TInv, Low
  <2>3. QED BY <1>3, <1>6, <1>10, <2>1, <2>2 DEF Low
<1>19. Linked'
  <2>1. ASSUME NEW y \in Open \ P PROVE \E g \in Called' : indexi[g] <= indexi[y] /\ g \in SCC!Leads(y)
    <3>1. PICK g \in Called : indexi[g] <= indexi[y] /\ g \in SCC!Leads(y)
      BY DEF TInv, Linked
    <3>2. g # SCC!Top
      BY <1>1, <1>7, <1>9, <3>1
    <3>3. QED BY <1>1, <3>1, <3>2
  <2>2. \A x, y \in Open : indexi[x] <= indexi[y] => y \in SCC!Leads(x)
    BY DEF TInv, Linked
  <2>3. QED BY <1>3, <1>6, <1>10, <2>1, <2>2 DEF Linked
<1>20. Exact'
  <2>1. \A u \in P : u \in SCC!Vertices /\ u \notin SCC!Closed /\ comps'[u] = comp
    BY <1>4, <1>5, <1>7
  <2>2. \A u \in SCC!Closed : u \in SCC!Vertices /\ u \notin P /\ comps'[u] = comps[u] /\ comps[u] \in 0..comp - 1
    <3>1. \A u \in SCC!Closed : comps[u] \in 0..comp - 1
      BY DEF TInv, Exact
    <3>2. QED BY <1>4, <1>5, <1>7, <3>1
  <2>3. \A u \in SCC!Closed : comps[u] # comp /\ comp >= comps[u]
    BY <1>8, <2>2
  <2>4. \A u \in SCC!Closed : SCC!Leads(u) \subseteq SCC!Closed
    BY <1>5, <1>7, LeadsWithin
  <2>5. \A u \in P : SCC!Leads(u) \subseteq SCC!Closed \cup P
    BY <1>5, <1>7, LeadsWithin
  <2>6. ASSUME NEW u \in SCC!Closed \cup P, NEW w \in SCC!Vertices
        PROVE  (w \in SCC!Closed \cup P /\ comps'[u] = comps'[w]) <=> (w \in SCC!Leads(u) /\ u \in SCC!Leads(w))
    <3>1. CASE u \in SCC!Closed /\ w \notin P
      BY <2>2, <3>1 DEF TInv, Exact
    <3>2. CASE u \in SCC!Closed /\ w \in P
      BY <2>1, <2>2, <2>3, <2>4, <3>2
    <3>3. CASE u \in P /\ w \in P
      BY <1>5, <2>1, <3>3
    <3>4. CASE u \in P /\ w \in SCC!Closed
      BY <2>1, <2>2, <2>3, <2>4, <3>4
    <3>5. CASE u \in P /\ w \notin SCC!Closed \cup P
      BY <2>5, <3>5
    <3>6. QED BY <3>1, <3>2, <3>3, <3>4, <3>5
  <2>7. {comps'[u] : u \in SCC!Closed \cup P} = 0..comp
    <3>1. {comps[u] : u \in SCC!Closed} = 0..comp - 1
      BY DEF TInv, Exact
    <3>2. 0..comp = 0..comp - 1 \cup {comp}
      BY <1>8
    <3>3. QED BY <1>5, <2>1, <2>2, <3>1, <3>2
  <2>8. ASSUME NEW x \in digraph, x[1] \in SCC!Closed \cup P
        PROVE  x[2] \in SCC!Closed \cup P /\ comps'[x[1]] >= comps'[x[2]]
    <3>1. CASE x[1] \in SCC!Closed
      <4>1. x[2] \in SCC!Closed /\ comps[x[1]] >= comps[x[2]]
        BY <3>1 DEF TInv, Exact
      <4>2. QED BY <2>2, <3>1, <4>1
    <3>2. CASE x[1] \in P
      <4>1. x[2] \in SCC!Closed \cup P
        BY <1>5, <2>8 DEF SCC!KeepsIn
      <4>2. QED BY <1>8, <2>1, <2>2, <2>3, <3>2, <4>1
    <3>3. QED BY <2>8, <3>1, <3>2
  <2>9. comp' - 1 = comp
    BY <1>4, <1>8
  <2>10. QED BY <1>3, <1>6, <1>10, <2>6, <2>7, <2>8, <2>9 DEF Exact
<1>21. QED BY <1>12, <1>13, <1>14, <1>15, <1>17, <1>18, <1>19, <1>20 DEF TInv

-----------------------------------------------------------------------------
(* The specification.                                                      *)

LEMMA InitTarjan == SCC!Init => TInv
<1> SUFFICES ASSUME SCC!Init PROVE TInv
  OBVIOUS
<1>1. /\ digraph \in SCC!Graphs
      /\ indexi = [u \in SCC!Vertices |-> SCC!Inf] /\ comps = [u \in SCC!Vertices |-> 0]
      /\ lowlink = [u \in SCC!Vertices |-> 0]
      /\ stack = <<>> /\ calls = <<>> /\ index = 0 /\ comp = 0 /\ visiting = 0 /\ ahead = digraph
  BY DEF SCC!Init
<1>2. SCC!Visited = {} /\ Open = {} /\ SCC!Closed = {} /\ Called = {}
  BY <1>1 DEF SCC!Visited, Open, SCC!Closed, Called
<1>3. 0 \in 0..SCC!Inf /\ SCC!Inf \in 0..SCC!Inf
  BY NoIndexIs
<1>4. TarjanOK
  BY <1>1, <1>3 DEF TarjanOK
<1>5. Indexed
  BY <1>1, <1>2, FS_EmptySet DEF Indexed
<1>6. EdgesPassed /\ Stacked
  BY <1>1, <1>2 DEF EdgesPassed, Stacked
<1>7. Nested
  <2>1. \A u \in SCC!Vertices : u \in Nat
    BY <1>1, DigraphShape
  <2>2. \A u \in SCC!Vertices : ~(u < visiting)
    BY <1>1, <2>1
  <2>3. DOMAIN calls = {} /\ Len(calls) = 0
    BY <1>1
  <2>4. QED BY <1>1, <2>2, <2>3 DEF Nested
<1>8. Low /\ Linked
  BY <1>2 DEF Low, Linked
<1>9. Exact
  BY <1>1, <1>2 DEF Exact
<1>10. QED BY <1>4, <1>5, <1>6, <1>7, <1>8, <1>9 DEF TInv

LEMMA NextTarjan == TInv /\ [SCC!Next]_(SCC!vars) => TInv'
<1> SUFFICES ASSUME TInv, [SCC!Next]_(SCC!vars) PROVE TInv'
  OBVIOUS
<1>1. CASE SCC!Visit
  <2>1. CASE indexi[visiting] = SCC!Inf /\ SCC!Enter(visiting)
    BY <1>1, <2>1, EnterKeeps DEF SCC!Visit
  <2>2. CASE ~(indexi[visiting] = SCC!Inf /\ SCC!Enter(visiting))
    BY <1>1, <2>2, SkipKeeps DEF SCC!Visit
  <2>3. QED BY <2>1, <2>2
<1>2. CASE SCC!Look
  <2> DEFINE w == SCC!Least(SCC!EndsAhead(SCC!Top))
  <2>1. w \in SCC!EndsAhead(SCC!Top)
    <3>1. /\ SCC!EndsAhead(SCC!Top) \subseteq Nat
          /\ SCC!EndsAhead(SCC!Top) # {}
          /\ IsFiniteSet(SCC!EndsAhead(SCC!Top))
      <4>1. SCC!EndsAhead(SCC!Top) \subseteq SCC!Vertices
        BY DEF SCC!EndsAhead
      <4>2. SCC!Vertices \subseteq Nat /\ IsFiniteSet(SCC!Vertices)
        BY DigraphShape DEF TInv, TarjanOK
      <4>3. QED BY <1>2, <4>1, <4>2, FS_Subset DEF SCC!Look
    <3>2. \E u \in SCC!EndsAhead(SCC!Top) : \A x \in SCC!EndsAhead(SCC!Top) : u <= x
      BY <3>1, LeastNumber
    <3>3. QED BY <3>2 DEF SCC!Least
  <2>2. w \in SCC!Vertices /\ <<SCC!Top, w>> \in ahead
    BY <2>1 DEF SCC!EndsAhead
  <2>3. <<SCC!Top, w>> \in digraph
    BY <2>2 DEF TInv, TarjanOK
  <2>4. calls # <<>>
    BY <1>2 DEF SCC!Look
  <2>5. CASE indexi[w] = SCC!Inf /\ SCC!Enter(w)
    BY <2>2, <2>3, <2>4, <2>5, EnterKeeps
  <2>6. CASE ~(indexi[w] = SCC!Inf /\ SCC!Enter(w))
    BY <1>2, <2>2, <2>4, <2>6, LookKeeps DEF SCC!Look
  <2>7. QED BY <2>5, <2>6
<1>3. CASE SCC!Return
  BY <1>3, LeaveKeeps, RootKeeps
<1>4. CASE UNCHANGED SCC!vars
  <2>1. /\ SCC!Vertices' = SCC!Vertices /\ SCC!Graphs' = SCC!Graphs /\ \A x : SCC!Leads(x)' = SCC!Leads(x)
        /\ SCC!Visited' = SCC!Visited /\ Open' = Open /\ SCC!Closed' = SCC!Closed /\ Called' = Called
        /\ \A g, x : Owns(g, x)' <=> Owns(g, x)
    BY <1>4, SamePlaces DEF SCC!vars
  <2>2. /\ digraph' = digraph /\ indexi' = indexi /\ comps' = comps /\ lowlink' = lowlink /\ stack' = stack
        /\ index' = index /\ comp' = comp /\ calls' = calls /\ ahead' = ahead /\ visiting' = visiting
    BY <1>4 DEF SCC!vars
  <2>3. TarjanOK' /\ Indexed' /\ EdgesPassed' /\ Stacked' /\ Nested'
    BY <2>1, <2>2 DEF TInv, TarjanOK, Indexed, EdgesPassed, Stacked, Nested
  <2>4. Low'
    BY <2>1, <2>2 DEF TInv, Low
  <2>5. Linked' /\ Exact'
    BY <2>1, <2>2 DEF TInv, Linked, Exact
  <2>6. QED BY <2>3, <2>4, <2>5 DEF TInv
<1>5. QED BY <1>1, <1>2, <1>3, <1>4 DEF SCC!Next

\* The invariant holds in every state: the numbers that the search keeps, on which the
\* components rest.
THEOREM SearchInv == SCC!Spec => []TInv
BY InitTarjan, NextTarjan, PTL DEF SCC!Spec

\* tarjan_strongly_cc forms the components exactly, each when the call of its first vertex
\* returns, and reaches every vertex that execute has passed.
THEOREM ComponentsCorrect == SCC!Spec => []ComponentsExact
<1>1. TInv => ComponentsExact
  <2> SUFFICES ASSUME TInv PROVE ComponentsExact
    OBVIOUS
  <2>1. ASSUME calls = <<>> PROVE SCC!Closed = SCC!Visited /\ \A u \in SCC!Vertices : u < visiting => u \in SCC!Visited
    <3>1. Called = {}
      BY <2>1 DEF Called
    <3>2. Open = {}
      BY <3>1 DEF TInv, Linked
    <3>3. SCC!Closed = SCC!Visited
      BY <3>2, Shape
    <3>4. QED BY <3>3 DEF TInv, Nested
  <2>2. QED BY <2>1 DEF TInv, Exact, ComponentsExact, SCC!ComponentsExact
<1>2. QED BY <1>1, SearchInv, PTL
=============================================================================
