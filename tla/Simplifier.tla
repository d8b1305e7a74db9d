----------------------------- MODULE Simplifier -----------------------------
(***************************************************************************)
(* zi::mesh::simplifier over zi::mesh::tri_mesh (src/zi/mesh/              *)
(* quadratic_simplifier.hpp and tri_mesh.hpp): edges are collapsed one by  *)
(* one, in an order and up to a point that floating-point errors decide.   *)
(* What the coordinates decide is left open here; what the half-edge       *)
(* tables, the counters and the heap hold is modelled in full.             *)
(*                                                                         *)
(* A face is its triple of vertices and stands for its number: no triple   *)
(* returns once it is gone.  The heap is a PriorityQueue (see BinaryHeap)  *)
(* over an order of which nothing is known: any edge may be on top.        *)
(***************************************************************************)
EXTENDS Integers, FiniteSets, Sequences, SequencesExt, TLC

CONSTANTS
    Meshes,    \* the surfaces to start from, each a sequence of faces
    NoVertices \* size_

Vertex == 1..NoVertices

VARIABLES
    mesh,      \* vertices_, edges_, faces_ and what they were at first
    heap,      \* the edges with an entry in heap_, each from its smaller end
    invalid,   \* invalid_
    phase      \* "built", then "ready" or in "optimize"

vars == <<mesh, heap, invalid, phase>>

-----------------------------------------------------------------------------
(* tri_mesh                                                                *)

\* open is the counter in open_, valid the vertices with its top bit set.
Blank == [faces |-> {}, edges |-> <<>>, open |-> [v \in Vertex |-> 0],
          valid |-> {}, face |-> [v \in Vertex |-> <<>>]]

Edges(m) == DOMAIN m.edges
HasEdge(m, x, y) == <<x, y>> \in Edges(m)
Change(m, x, y, d) == [m EXCEPT !.open[x] = @ + d, !.open[y] = @ + d]

AddEdge(m, x, y, f) ==
    [Change(m, x, y, IF HasEdge(m, y, x) THEN -1 ELSE 1) EXCEPT
        !.face[x] = f,
        !.valid = @ \cup {x},
        !.edges = @ @@ (<<x, y>> :> f)]

AddFace(m, f) ==
    LET add(n, i) == AddEdge(n, f[i], f[(i % 3) + 1], f)
    IN  [add(add(add(m, 1), 2), 3) EXCEPT !.faces = @ \cup {f}]

\* A vertex whose own face goes is no longer valid.
Unvalidated(m, x, f) == IF m.face[x] = f THEN m.valid \ {x} ELSE m.valid

RemoveEdge(m, x, y, f) ==
    [Change(m, x, y, IF HasEdge(m, y, x) THEN 1 ELSE -1) EXCEPT
        !.valid = Unvalidated(m, x, f),
        !.edges = [e \in DOMAIN @ \ {<<x, y>>} |-> @[e]]]

RemoveFace(m, f) ==
    LET remove(n, i) == RemoveEdge(n, f[i], f[(i % 3) + 1], f)
    IN  [remove(remove(remove(m, 1), 2), 3) EXCEPT !.faces = @ \ {f}]

ThirdOf(f, x, y) == CHOOSE z \in {f[1], f[2], f[3]} : z \notin {x, y}
AcrossEdge(m, x, y) == ThirdOf(m.edges[<<x, y>>], x, y)

OnBorder(m, v) == ~(v \in m.valid /\ m.open[v] = 0)
ValidEdge(m, e) == ~OnBorder(m, e[1]) /\ ~OnBorder(m, e[2])

\* The vertices met around x from y on, up to the last.
Ring(m, x, y, last) ==
    LET ring[v \in Vertex] == IF v = last THEN <<>> ELSE <<v>> \o ring[AcrossEdge(m, x, v)]
    IN  ring[y]

Around(m, x, y, last) == Range(Ring(m, x, y, last))

\* Each face around x, from y to last, is given to z.
Moved(m, x, z, y, last) ==
    LET move(n, v) == AddFace(RemoveFace(n, m.edges[<<x, v>>]), <<z, v, AcrossEdge(m, x, v)>>)
    IN  FoldLeft(move, m, Ring(m, x, y, last))

\* collapse_edge of an edge without ends on the border: x goes, z stays.
CollapseEdge(m, x, z) ==
    Moved(RemoveFace(RemoveFace(m, m.edges[<<x, z>>]), m.edges[<<z, x>>]),
          x, z, AcrossEdge(m, x, z), AcrossEdge(m, z, x))

\* vertex_edge, which takes the vertex's face for granted.
Neighbours(m, x) ==
    LET f == m.face[x]
        i == CHOOSE j \in 1..3 : f[j] = x
        first == f[(i % 3) + 1]
    IN  {first} \cup Around(m, x, AcrossEdge(m, x, first), first)

-----------------------------------------------------------------------------
(* simplifier                                                              *)

Built(s) == FoldLeft(AddFace, Blank, s)

Init ==
    /\ mesh \in {Built(s) : s \in Meshes}
    /\ heap = {} /\ invalid = {}
    /\ phase = "built"

Key(x, y) == IF x < y THEN <<x, y>> ELSE <<y, x>>

Prepare ==
    /\ phase = "built"
    /\ heap' = {e \in Edges(mesh) : e[1] < e[2] /\ ValidEdge(mesh, e)}
    /\ phase' = "ready"
    /\ UNCHANGED <<mesh, invalid>>

\* The two parts of check_topology: the faces beside the edge have different tips, and
\* no other vertex is a neighbour of both its ends.  Mutant: only the first.
Linked_Any(e) == TRUE
Linked(e) ==
    LET right == AcrossEdge(mesh, e[1], e[2])
        left == AcrossEdge(mesh, e[2], e[1])
    IN  \A v \in Around(mesh, e[1], AcrossEdge(mesh, e[1], right), left) : ~HasEdge(mesh, e[2], v)

Flat(e) == AcrossEdge(mesh, e[1], e[2]) = AcrossEdge(mesh, e[2], e[1])

\* check_valid_edge and check_topology.
Collapsible(e) == ValidEdge(mesh, e) /\ e \notin invalid /\ ~Flat(e) /\ Linked(e)

\* What iterate leaves of the heap when it has popped e.  Mutant: a rejected entry is put back.
Rest_Back(e) == IF Collapsible(e) THEN heap \ {e} ELSE heap
Rest(e)      == heap \ {e}

\* iterate returns false: for the topology, or for inversion or compactness, that is,
\* for the coordinates.
Reject(e) ==
    /\ heap' = Rest(e)
    /\ invalid' = IF ValidEdge(mesh, e) /\ e \notin invalid /\ ~Flat(e) /\ ~Linked(e)
                  THEN invalid \cup {e} ELSE invalid
    /\ UNCHANGED <<mesh, phase>>

\* The entries erased are those of all edges at both ends.  Mutant: those at one end.
Stale_One(e) == {Key(e[2], v) : v \in Around(mesh, e[2], AcrossEdge(mesh, e[2], e[1]), e[1])}
Stale(e) ==
    UNION {{Key(x, v) : v \in Around(mesh, x, AcrossEdge(mesh, x, y), y)} :
              <<x, y>> \in {e, <<e[2], e[1]>>}}

\* iterate returns true.
Collapse(e) ==
    /\ Collapsible(e)
    /\ mesh' = CollapseEdge(mesh, e[1], e[2])
    /\ heap' = (Rest(e) \ Stale(e)) \cup
                 {f \in {Key(e[2], v) : v \in Neighbours(mesh', e[2])} : ValidEdge(mesh', f)}
    /\ UNCHANGED <<invalid, phase>>

\* round is one iteration by itself.
Iterate == phase # "built" /\ \E e \in heap : (Reject(e) \/ Collapse(e))

Optimize ==
    /\ phase = "ready"
    /\ phase' = "optimize"
    /\ UNCHANGED <<mesh, heap, invalid>>

\* The heap is empty, or the number of faces and the error on top have reached the
\* limits given.
OptimizeEnds ==
    /\ phase = "optimize"
    /\ phase' = "ready"
    /\ invalid' = {}
    /\ UNCHANGED <<mesh, heap>>

Next == Prepare \/ Iterate \/ Optimize \/ OptimizeEnds

Spec == Init /\ [][Next]_vars

\* The loop of optimize goes on; only an empty heap is sure to end it.
Loop ==
    /\ phase = "optimize"
    /\ \/ Iterate
       \/ heap = {} /\ OptimizeEnds
FairSpec == Spec /\ WF_vars(Loop)

-----------------------------------------------------------------------------
(* Properties.                                                             *)

Corners(f) == {f[1], f[2], f[3]}
Incident(v) == {f \in mesh.faces : v \in Corners(f)}
Unmatched(v) == {e \in Edges(mesh) : v \in {e[1], e[2]} /\ ~HasEdge(mesh, e[2], e[1])}

\* What check_rep and is_closed_surface demand, and what the counters stand for: three
\* half-edges per face that lead back to it, as many open ones at a vertex as counted, a
\* vertex valid as long as it has faces, and a face at hand for each valid vertex.
MeshSound ==
    /\ Cardinality(Edges(mesh)) = 3 * Cardinality(mesh.faces)
    /\ \A f \in mesh.faces : \A i \in 1..3 :
          LET e == <<f[i], f[(i % 3) + 1]>> IN e \in Edges(mesh) /\ mesh.edges[e] = f
    /\ \A v \in Vertex :
          /\ mesh.open[v] = Cardinality(Unmatched(v))
          /\ v \in mesh.valid <=> Incident(v) # {}
          /\ v \in mesh.valid => mesh.face[v] \in Incident(v)

\* Every entry is an edge of the mesh that may be collapsed, which iterate takes for
\* granted, since check_valid_edge looks at the ends of the edge only; and add_to_heap
\* may assert that its edge has no entry: collapsing leaves none of the survivor's edges
\* in the heap.
HeapInStep ==
    /\ heap \subseteq {e \in Edges(mesh) : e[1] < e[2] /\ ValidEdge(mesh, e)}
    /\ \A e \in heap : Collapsible(e) =>
          LET m == CollapseEdge(mesh, e[1], e[2])
          IN  {Key(e[2], v) : v \in Neighbours(m, e[2])} \cap (Rest(e) \ Stale(e)) = {}

-----------------------------------------------------------------------------

Euler(m) ==
    Cardinality(UNION {Corners(f) : f \in m.faces}) + Cardinality(m.faces)
        - Cardinality({{e[1], e[2]} : e \in Edges(m)})

Border(m) == {e \in Edges(m) : ~HasEdge(m, e[2], e[1])}

\* The surface around a vertex is one fan: its faces are met in one walk.
OneFan(m, v) == ~OnBorder(m, v) =>
    Cardinality(Neighbours(m, v)) = Cardinality({f \in m.faces : v \in Corners(f)})

\* Simplification does not change the surface: no collapse alters its genus, opens it or
\* moves its border, or pinches it at a vertex.
SurfaceKept == [][
    /\ Euler(mesh') = Euler(mesh)
    /\ Border(mesh') = Border(mesh)
    /\ \A v \in Vertex : OneFan(mesh', v)]_mesh

\* optimize returns: rejected edges leave the heap, and the edges that come back do so
\* for fewer faces.
OptimizeReturns == phase = "optimize" ~> phase = "ready"
=============================================================================
