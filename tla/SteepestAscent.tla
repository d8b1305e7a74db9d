--------------------------- MODULE SteepestAscent ---------------------------
(***************************************************************************)
(* The first half of chunk_quickie_impl (src/zi/watershed/quickie/         *)
(* quickie_impl.hpp): each voxel of a chunk points to its neighbours of    *)
(* highest affinity, and a search along the pointers, breadth first on a   *)
(* plateau and depth first as soon as it can leave it, makes segments.  A  *)
(* step is one direction that the search looks at.                         *)
(***************************************************************************)
EXTENDS Integers, Sequences

CONSTANTS
    Inner,      \* the number of voxels inside the chunk; the loops take them from 1 on
    Around,     \* the neighbours of each voxel, in the order of the directions
    Edge,       \* the voxels around the inside where the volume ends, not the chunk
    Affinities, \* the values of cmat, by pairs of neighbours
    Low, High

Voxel == DOMAIN Around

VARIABLES
    cmat,
    seg,       \* the segment of each voxel with assigned_bit, 0 for the others
    next_id,
    idx,       \* the voxel the loop has come to
    bfs,       \* what bfs holds from bfs_start to bfs_end
    bfs_index, \* the place in it from which the search goes on
    ahead      \* the neighbours that the loop over the directions has ahead of it

vars == <<cmat, seg, next_id, idx, bfs, bfs_index, ahead>>

Init ==
    /\ cmat \in Affinities
    /\ seg = [v \in Voxel |-> 0] /\ next_id = 1
    /\ idx = 1
    /\ bfs = <<>> /\ bfs_index = 1 /\ ahead = <<>>

-----------------------------------------------------------------------------

Elements(q) == {q[k] : k \in DOMAIN q}
Beside(v) == Elements(Around[v])
Affinity(v, w) == cmat[{v, w}]
IsHighest(v, w) == \A x \in Beside(v) : Affinity(v, x) <= Affinity(v, w)

\* The neighbours whose direction bits are set in ids.
Points(v) ==
    IF v > Inner THEN {w \in Beside(v) : Affinity(v, w) >= High \/ v \in Edge}
    ELSE {w \in Beside(v) : /\ \E x \in Beside(v) : Affinity(v, x) >= Low
                            /\ IsHighest(v, w) \/ Affinity(v, w) >= High}

\* The loop over the voxels of the inside; a search begins at one without a segment.
Begin ==
    /\ bfs = <<>> /\ idx <= Inner
    /\ IF seg[idx] # 0
       THEN idx' = idx + 1 /\ UNCHANGED bfs
       ELSE bfs' = <<idx>> /\ UNCHANGED idx
    /\ UNCHANGED <<cmat, seg, next_id, bfs_index, ahead>>

TakeFront ==
    /\ ahead = <<>> /\ bfs_index <= Len(bfs)
    /\ ahead' = Around[bfs[bfs_index]]
    /\ bfs_index' = bfs_index + 1
    /\ UNCHANGED <<cmat, seg, next_id, idx, bfs>>

Here == bfs[bfs_index - 1]

\* A voxel with visited_bit and no assigned_bit is in bfs.
IsVisited(w) == w \in Elements(bfs)

\* There is no pointer this way, or it leads to where the search has been.
Skip ==
    /\ ahead # <<>>
    /\ Head(ahead) \notin Points(Here) \/ (seg[Head(ahead)] = 0 /\ IsVisited(Head(ahead)))
    /\ ahead' = Tail(ahead)
    /\ UNCHANGED <<cmat, seg, next_id, idx, bfs, bfs_index>>

\* The way from y to w leads off the plateau.  Mutant: the search goes on as before.
Leaves_Never(y, w) == FALSE
Leaves(y, w)       == y \notin Points(w)

\* Off the plateau the search goes on from w alone.
Reach ==
    /\ ahead # <<>>
    /\ LET w == Head(ahead)
       IN  /\ w \in Points(Here) /\ seg[w] = 0 /\ ~IsVisited(w)
           /\ bfs' = Append(bfs, w)
           /\ IF Leaves(Here, w)
              THEN bfs_index' = Len(bfs) + 1 /\ ahead' = <<>>
              ELSE ahead' = Tail(ahead) /\ UNCHANGED bfs_index
    /\ UNCHANGED <<cmat, seg, next_id, idx>>

\* All that the search has visited gets a segment, and the loop goes on.
Assign(id) ==
    /\ seg' = [v \in Voxel |-> IF IsVisited(v) THEN id ELSE seg[v]]
    /\ bfs' = <<>> /\ bfs_index' = 1 /\ ahead' = <<>>
    /\ idx' = idx + 1

Meet ==
    /\ ahead # <<>>
    /\ Head(ahead) \in Points(Here) /\ seg[Head(ahead)] # 0
    /\ Assign(seg[Head(ahead)])
    /\ UNCHANGED <<cmat, next_id>>

NewSegment ==
    /\ bfs # <<>> /\ ahead = <<>> /\ bfs_index > Len(bfs)
    /\ Assign(next_id)
    /\ next_id' = next_id + 1
    /\ UNCHANGED cmat

Next == Begin \/ TakeFront \/ Skip \/ Reach \/ Meet \/ NewSegment

Spec == Init /\ [][Next]_vars

-----------------------------------------------------------------------------
(* Properties.                                                             *)

\* The parts of s, but for none, from which no pointer leads to elsewhere in s: what the
\* pointers lead to from a voxel, without leaving s, is the least part with the voxel.
KeepsIn(S, T) == \A v \in S : Points(v) \cap T \subseteq S
Kept(s) == {S \in (SUBSET s) \ {{}} : KeepsIn(S, s)}

\* Every voxel passed has a segment; and every segment is the basin of one summit, from
\* which no pointer leads away and to all of which the pointers lead from everywhere in
\* the segment, without leaving it.
SegmentsAreBasins ==
    /\ \A v \in 1..idx - 1 : seg[v] \in 1..next_id - 1
    /\ \A id \in 1..next_id - 1 :
          LET s == {v \in Voxel : seg[v] = id}
          IN  \E summit \in Kept(s) : KeepsIn(summit, Voxel) /\ \A S \in Kept(s) : summit \subseteq S
=============================================================================
