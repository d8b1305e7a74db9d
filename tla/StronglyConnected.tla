-------------------------- MODULE StronglyConnected --------------------------
(***************************************************************************)
(* tarjan_strongly_cc (src/zi/graph/strongly_connected_components.hpp):    *)
(* one search from each vertex that no earlier one has reached.  A step is *)
(* one edge that a call of tarjan looks at, or the end of a call.          *)
(***************************************************************************)
EXTENDS Integers, FiniteSets, Sequences

CONSTANTS
    MaxVertices, \* a bound on the vertices
    SelfEdges    \* whether edges may lead back to where they start

Inf == 2147483647 \* no index and no component

VARIABLES
    e,       \* e_
    indexi,  \* indexi_
    comps,   \* comps_
    lowlink, \* lowlink_
    stack,   \* stack_
    index,   \* index_
    comp,    \* comp_
    calls,   \* the vertices whose calls of tarjan are under way, each called by the one before
    ahead,   \* the edges that no call has passed yet
    i        \* the vertex execute has come to

vars == <<e, indexi, comps, lowlink, stack, index, comp, calls, ahead, i>>

Vertices == {x[1] : x \in e} \cup {x[2] : x \in e}

\* Only the ends of edges are vertices, numbered from 0.
Arcs == {x \in (0..MaxVertices - 1) \X (0..MaxVertices - 1) : SelfEdges \/ x[1] # x[2]}
Graphs == {g \in SUBSET Arcs : \E n \in 0..MaxVertices : UNION {{x[1], x[2]} : x \in g} = 0..n - 1}

Init ==
    /\ e \in Graphs
    /\ indexi = [v \in Vertices |-> Inf]
    /\ comps = [v \in Vertices |-> 0]
    /\ lowlink = [v \in Vertices |-> 0]
    /\ stack = <<>> /\ calls = <<>>
    /\ index = 0 /\ comp = 0 /\ i = 0
    /\ ahead = e

-----------------------------------------------------------------------------

Smaller(x, y) == IF x < y THEN x ELSE y

\* tarjan is called.
Enter(v) ==
    /\ indexi' = [indexi EXCEPT ![v] = index]
    /\ lowlink' = [lowlink EXCEPT ![v] = index]
    /\ index' = index + 1
    /\ stack' = Append(stack, v)
    /\ comps' = [comps EXCEPT ![v] = Inf]
    /\ calls' = Append(calls, v)
    /\ UNCHANGED <<e, comp, ahead, i>>

Visit ==
    /\ calls = <<>> /\ i \in Vertices
    /\ \/ indexi[i] = Inf /\ Enter(i)
       \/ /\ indexi[i] # Inf
          /\ i' = i + 1
          /\ UNCHANGED <<e, indexi, comps, lowlink, stack, index, comp, calls, ahead>>

Top == calls[Len(calls)]
Below == SubSeq(calls, 1, Len(calls) - 1)
Caller == calls[Len(calls) - 1]

EndsAhead(v) == {w \in Vertices : <<v, w>> \in ahead}
Least(S) == CHOOSE w \in S : \A x \in S : w <= x

\* w is on the stack.  Mutant: it is enough that it was visited.
OnStack_Visited(w) == TRUE
OnStack(w)         == comps[w] = Inf

Look ==
    /\ calls # <<>> /\ EndsAhead(Top) # {}
    /\ LET w == Least(EndsAhead(Top))
       IN  \/ indexi[w] = Inf /\ Enter(w)
           \/ /\ indexi[w] # Inf
              /\ lowlink' = IF OnStack(w)
                            THEN [lowlink EXCEPT ![Top] = Smaller(@, indexi[w])] ELSE lowlink
              /\ ahead' = ahead \ {<<Top, w>>}
              /\ UNCHANGED <<e, indexi, comps, stack, index, comp, calls, i>>

IsRoot == indexi[Top] = lowlink[Top]

\* The part of the stack from the root on is a component.
PopComponent ==
    LET first == CHOOSE k \in DOMAIN stack : stack[k] = Top
    IN  /\ stack' = SubSeq(stack, 1, first - 1)
        /\ comps' = [w \in Vertices |->
                        IF \E k \in first..Len(stack) : stack[k] = w THEN comp ELSE comps[w]]
        /\ comp' = comp + 1

\* A call ends: the one below passes its edge, or execute goes on.
Return ==
    /\ calls # <<>> /\ EndsAhead(Top) = {}
    /\ IF IsRoot THEN PopComponent ELSE UNCHANGED <<stack, comps, comp>>
    /\ calls' = Below
    /\ IF Len(calls) = 1
       THEN i' = i + 1 /\ UNCHANGED <<lowlink, ahead>>
       ELSE /\ lowlink' = [lowlink EXCEPT ![Caller] = Smaller(@, lowlink[Top])]
            /\ ahead' = ahead \ {<<Caller, Top>>}
            /\ UNCHANGED i
    /\ UNCHANGED <<e, indexi, index>>

Next == Visit \/ Look \/ Return

Spec == Init /\ [][Next]_vars

-----------------------------------------------------------------------------
(* Properties.                                                             *)

Visited == {v \in Vertices : indexi[v] # Inf}
Closed == {v \in Visited : comps[v] # Inf}

\* The vertices that v leads to: those in every set that edges do not leave.
KeepsIn(S) == \A x \in e : x[1] \in S => x[2] \in S
Leads(v) == {w \in Vertices : \A S \in SUBSET Vertices : v \in S /\ KeepsIn(S) => w \in S}

\* At any time, a vertex with a component has the same as those that it leads to and that
\* lead to it, and no others; components have the numbers below comp_, and no edge leads to
\* a greater number.  Between two searches every vertex visited has a component.
ComponentsExact ==
    /\ \A v \in Closed, w \in Vertices :
          (w \in Closed /\ comps[v] = comps[w]) <=> (w \in Leads(v) /\ v \in Leads(w))
    /\ {comps[v] : v \in Closed} = 0..comp - 1
    /\ \A x \in e : x[1] \in Closed => x[2] \in Closed /\ comps[x[1]] >= comps[x[2]]
    /\ calls = <<>> => Closed = Visited /\ \A v \in Vertices : v < i => v \in Visited
=============================================================================
