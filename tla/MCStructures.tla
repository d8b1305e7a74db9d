---------------------------- MODULE MCStructures ----------------------------
(***************************************************************************)
(* Small instances for TLC of the library's data structures: BinaryHeap,   *)
(* Simplifier and DisjointSets.  They share no state.  A behaviour is one  *)
(* of a single subject, and the variables of the others keep one initial   *)
(* value.                                                                  *)
(***************************************************************************)
EXTENDS Structures, Sequences

CONSTANTS Meshes, NoVertices

VARIABLES
    subject,
    mesh, edgeHeap, invalid, phase   \* Simplifier

meshVars == <<mesh, edgeHeap, invalid, phase>>
setVars == <<p, r, sets>>

Simplify == INSTANCE Simplifier WITH heap <- edgeHeap

-----------------------------------------------------------------------------
(* The inputs                                                              *)

\* Two elements in front that compare equal, and two behind that do not.
MCElement ==
    [key : {"a", "b"}, value : {1}] \cup [key : {"c", "d"}, value : {2, 3}] \cup
    [key : {"e"}, value : {3}]

\* Two closed surfaces, the second with a face taken out.
Bipyramid == << <<4, 1, 2>>, <<4, 2, 3>>, <<4, 3, 1>>, <<5, 2, 1>>, <<5, 3, 2>>, <<5, 1, 3>> >>
Octahedron == << <<1, 2, 3>>, <<1, 3, 4>>, <<1, 4, 5>>, <<1, 5, 2>>,
                 <<6, 3, 2>>, <<6, 4, 3>>, <<6, 5, 4>>, <<6, 2, 5>> >>
MCMeshes == {Bipyramid, Tail(Octahedron)}

-----------------------------------------------------------------------------

\* The components at rest in one of their initial states.
MeshRests == mesh = Simplify!Built(Bipyramid) /\ Simplify!Init
SetsRest == p = <<>> /\ Disjoint!Init

MCInit == Init /\
    \/ subject = "heap" /\ MeshRests /\ SetsRest
    \/ subject = "simplifier" /\ SetsRest /\ Simplify!Init
    \/ subject = "sets" /\ MeshRests /\ Disjoint!Init

MCNext ==
    \/ /\ subject = "heap" /\ Next
       /\ UNCHANGED <<subject, meshVars, setVars>>
    \/ /\ subject = "simplifier" /\ Simplify!Next
       /\ UNCHANGED <<subject, vars, setVars>>
    \/ /\ subject = "sets" /\ Disjoint!Next
       /\ UNCHANGED <<subject, vars, meshVars>>

\* The loop of optimize goes on.
MCSpec ==
    /\ MCInit /\ [][MCNext]_<<subject, vars, meshVars, setVars>>
    /\ WF_meshVars(Simplify!Loop /\ UNCHANGED <<subject, vars, setVars>>)

-----------------------------------------------------------------------------
(* The properties of the subjects, which hold of the frozen ones as well.  *)

\* Simplifier: half-edges, counters, validity and heap entries follow the surface.
MeshSound == Simplify!MeshSound /\ Simplify!HeapInStep

\* Simplifier: no collapse changes the genus, the border or the fans of the surface.
SurfaceKept == Simplify!SurfaceKept

\* Simplifier: optimize returns.
OptimizeReturns == Simplify!OptimizeReturns
=============================================================================
