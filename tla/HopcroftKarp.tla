---------------------------- MODULE HopcroftKarp ----------------------------
(***************************************************************************)
(* hopcroft_karp (src/zi/graph/bipartite_matching.hpp): a breadth-first    *)
(* search finds how long the shortest augmenting paths are, then a         *)
(* depth-first search from each free vertex on the left takes paths of     *)
(* that length, until there is none.  A step is one round of a loop or one *)
(* return of dfs.                                                          *)
(***************************************************************************)
EXTENDS Integers, FiniteSets, Sequences

CONSTANTS MaxLeft, MaxRight \* bounds on the vertices of either side

Nil == 0
Inf == 2147483647

\* There are fewer vertices than inf, which stands for no distance.
ASSUME Bounds == MaxLeft \in 0..Inf - 1 /\ MaxRight \in Nat

VARIABLES
    e,        \* e_: the vertices on the left are 1..Size(e), those on the right follow
    pair,     \* pair_
    dist,     \* dist_
    at,       \* "reset" and "bfs" in bfs, "dfs" and "augment" in dfs, "execute" and "done"
    v,        \* the vertex that the first loop of bfs or the loop of execute has come to
    queue,    \* queue of bfs
    path,     \* the calls of dfs under way; in bfs the vertex taken out of the queue
    matching  \* what execute has counted, and returns

vars == <<e, pair, dist, at, v, queue, path, matching>>

Lefts(g) == {x[1] : x \in g}
Rights(g) == {x[2] : x \in g}
Size(g) == Cardinality(Lefts(g))

\* Only the ends of edges are vertices, numbered without gaps.
Numbered(g) ==
    /\ Lefts(g) = 1..Size(g)
    /\ Rights(g) = (Size(g) + 1)..(Size(g) + Cardinality(Rights(g)))

Graphs == {g \in SUBSET ((1..MaxLeft) \X (2..(MaxLeft + MaxRight))) : Numbered(g)}

Init ==
    /\ e \in Graphs
    /\ pair = [x \in {Nil} \cup Lefts(e) \cup Rights(e) |-> Nil]
    /\ dist = [x \in {Nil} \cup Lefts(e) |-> 0]
    /\ at = "reset" /\ v = 1
    /\ queue = <<>> /\ path = <<>>
    /\ matching = 0

\* A vertex with the ends of its edges that a loop has ahead of it, the least first.
Neighbours(x) == {y \in Rights(e) : <<x, y>> \in e}
Loop(x) == [of |-> x, ahead |-> Neighbours(x)]
Second(loop) == CHOOSE y \in loop.ahead : \A z \in loop.ahead : y <= z
Passed(loop) == [loop EXCEPT !.ahead = @ \ {Second(loop)}]

-----------------------------------------------------------------------------
(* bfs                                                                     *)

NilIsFar == [dist EXCEPT ![Nil] = Inf]

Reset ==
    /\ at = "reset"
    /\ \/ /\ v \in Lefts(e)
          /\ dist' = [dist EXCEPT ![v] = IF pair[v] = Nil THEN 0 ELSE Inf]
          /\ queue' = IF pair[v] = Nil THEN Append(queue, v) ELSE queue
          /\ v' = v + 1
          /\ UNCHANGED at
       \/ /\ v \notin Lefts(e)
          /\ dist' = NilIsFar
          /\ at' = "bfs"
          /\ UNCHANGED <<queue, v>>
    /\ UNCHANGED <<e, pair, path, matching>>

TakeFront ==
    /\ at = "bfs" /\ path = <<>> /\ queue # <<>>
    /\ queue' = Tail(queue)
    /\ path' = IF Head(queue) = Nil THEN <<>> ELSE <<Loop(Head(queue))>>
    /\ UNCHANGED <<e, pair, dist, at, v, matching>>

Spread ==
    /\ at = "bfs" /\ path # <<>>
    /\ LET loop == Head(path)
           near == pair[Second(loop)]
       IN  \/ /\ loop.ahead = {}
              /\ path' = <<>>
              /\ UNCHANGED <<dist, queue>>
           \/ /\ loop.ahead # {}
              /\ path' = <<Passed(loop)>>
              /\ IF dist[near] = Inf
                 THEN /\ dist' = [dist EXCEPT ![near] = dist[loop.of] + 1]
                      /\ queue' = Append(queue, near)
                 ELSE UNCHANGED <<dist, queue>>
    /\ UNCHANGED <<e, pair, at, v, matching>>

BfsReturns ==
    /\ at = "bfs" /\ path = <<>> /\ queue = <<>>
    /\ at' = IF dist[Nil] # Inf THEN "execute" ELSE "done"
    /\ v' = 1
    /\ UNCHANGED <<e, pair, dist, queue, path, matching>>

-----------------------------------------------------------------------------
(* dfs, and the loop of execute around it                                  *)

Execute ==
    /\ at = "execute"
    /\ \/ /\ v \in Lefts(e) /\ pair[v] = Nil
          /\ at' = "dfs" /\ path' = <<Loop(v)>>
          /\ UNCHANGED v
       \/ /\ v \in Lefts(e) /\ pair[v] # Nil
          /\ v' = v + 1
          /\ UNCHANGED <<at, path>>
       \/ /\ v \notin Lefts(e)
          /\ at' = "reset" /\ v' = 1
          /\ UNCHANGED path
    /\ UNCHANGED <<e, pair, dist, queue, matching>>

Last == path[Len(path)]
Below == SubSeq(path, 1, Len(path) - 1)

\* The first call has returned, and execute goes on.
Resumes ==
    IF Len(path) = 1 THEN at' = "execute" /\ v' = v + 1 ELSE UNCHANGED <<at, v>>

\* An edge to a vertex that is one step farther is followed, to nil at once: dfs(nil)
\* returns true.
Dfs ==
    /\ at = "dfs" /\ Last.ahead # {}
    /\ LET next == pair[Second(Last)]
       IN  \/ /\ dist[next] # dist[Last.of] + 1
              /\ path' = Append(Below, Passed(Last))
              /\ UNCHANGED at
           \/ /\ dist[next] = dist[Last.of] + 1 /\ next # Nil
              /\ path' = Append(path, Loop(next))
              /\ UNCHANGED at
           \/ /\ dist[next] = dist[Last.of] + 1 /\ next = Nil
              /\ at' = "augment"
              /\ UNCHANGED path
    /\ UNCHANGED <<e, pair, dist, v, queue, matching>>

\* dfs returns false, and the call below goes on to its next edge.
Fail ==
    /\ at = "dfs" /\ Last.ahead = {}
    /\ dist' = [dist EXCEPT ![Last.of] = Inf]
    /\ path' = [i \in DOMAIN Below |-> IF i = Len(Below) THEN Passed(path[i]) ELSE path[i]]
    /\ Resumes
    /\ UNCHANGED <<e, pair, queue, matching>>

\* The edge from x to y comes into the matching.  Mutant: only y knows.
Paired_Half(x, y) == [pair EXCEPT ![y] = x]
Paired(x, y)      == [pair EXCEPT ![y] = x, ![x] = y]

\* dfs returns true.
Augment ==
    /\ at = "augment"
    /\ pair' = Paired(Last.of, Second(Last))
    /\ path' = Below
    /\ matching' = IF Len(path) = 1 THEN matching + 1 ELSE matching
    /\ Resumes
    /\ UNCHANGED <<e, dist, queue>>

Next == Reset \/ TakeFront \/ Spread \/ BfsReturns \/ Execute \/ Dfs \/ Fail \/ Augment

Spec == Init /\ [][Next]_vars

-----------------------------------------------------------------------------
(* Properties.                                                             *)

IsMatching(m) == \A x, y \in m : x # y => x[1] # y[1] /\ x[2] # y[2]

\* res is true of the edges in Matched.
Matched == {x \in e : pair[x[1]] = x[2]}

\* But for the time in which a path is being turned over, both ends of a matched edge know
\* of each other and their number is what execute has counted; and when it returns no
\* matching is larger.
MatchingIsMaximum ==
    /\ at # "augment" =>
          /\ IsMatching(Matched)
          /\ matching = Cardinality(Matched)
          /\ \A x \in DOMAIN pair \ {Nil} : pair[x] # Nil =>
                pair[pair[x]] = x /\ (<<x, pair[x]>> \in e \/ <<pair[x], x>> \in e)
    /\ at = "done" => \A m \in SUBSET e : IsMatching(m) => Cardinality(m) <= matching
=============================================================================
