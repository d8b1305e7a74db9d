\* All bipartite graphs of up to three and three vertices, and all directed graphs of up to
\* four vertices.
SPECIFICATION MCSpec
CONSTANTS
    MaxLeft = 3
    MaxRight = 3
    MaxVertices = 4
    SelfEdges = FALSE
\* The algorithms end.
CHECK_DEADLOCK FALSE
INVARIANTS MatchingIsMaximum ComponentsExact
