--------------------------- MODULE GraphAlgorithms ---------------------------
(***************************************************************************)
(* The graph algorithms that are finished: hopcroft_karp on a bipartite    *)
(* graph, and tarjan_strongly_cc, which shares nothing with it, on a       *)
(* directed one.                                                           *)
(***************************************************************************)
EXTENDS HopcroftKarp

CONSTANTS
    MaxVertices, \* a bound on the vertices of the directed graph
    SelfEdges    \* whether its edges may lead back to where they start

\* Its vertices are fewer than inf, too.
ASSUME VerticesAssumption == MaxVertices \in 0..Inf - 1

VARIABLES digraph, indexi, comps, lowlink, stack, index, comp, calls, ahead, visiting

tarjanVars == <<digraph, indexi, comps, lowlink, stack, index, comp, calls, ahead, visiting>>

SCC == INSTANCE StronglyConnected WITH e <- digraph, i <- visiting

-----------------------------------------------------------------------------
(* Properties.                                                             *)

\* tarjan_strongly_cc: at any time, a vertex with a component has the same as those that it
\* leads to and that lead to it, and no others.
ComponentsExact == SCC!ComponentsExact
=============================================================================
