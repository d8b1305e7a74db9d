----------------------------- MODULE Segmentation -----------------------------
(***************************************************************************)
(* The out-of-core watershed: OutOfCoreQueue, through which it sorts, and  *)
(* the stages of the segmentation, SteepestAscent and ChunkMerge inside a  *)
(* chunk and Watershed between chunks, with the thresholds that they have  *)
(* in common.                                                              *)
(***************************************************************************)
EXTENDS OutOfCoreQueue, Regions

CONSTANTS
    High, Low,                     \* thresholds of affinities
    DustLow, DustMerge,            \* those of mergers of what is small, in and between chunks
    DustSize,                      \* what is small
    Inner, Around, Edge, Affinities, \* the voxels of a chunk, see SteepestAscent
    Segments,                      \* what they are at the end of SteepestAscent
    Chunks, Domains                \* the chunks, and what they hold at the end of ChunkMerge

VARIABLES
    cmat, seg, next_id, idx, bfs, bfs_index, ahead,              \* SteepestAscent
    chunk, counts, border, regions, edges, remaps, forest, part, \* ChunkMerge
    in, phase, todo, sizes, sets, merge_at, reorder, dendr,      \* Watershed
    more_dendr, merge_pairs, queue, pairs, children, list, number, topologically_next

ascentVars == <<cmat, seg, next_id, idx, bfs, bfs_index, ahead>>
chunkVars == <<chunk, counts, border, regions, edges, remaps, forest, part>>
bordersVars == <<in, phase, todo, sizes, sets, merge_at, reorder, dendr, more_dendr,
                 merge_pairs, queue, pairs, children, list, number, topologically_next>>

\* The voxels of a chunk: neighbours are neighbours of each other and have an affinity, and
\* what lies around the inside has one neighbour in it.
ASSUME VoxelsAssumption ==
    /\ High \in Int /\ Low \in Int /\ Inner \in Nat
    /\ Around \in Seq(Seq(1..Len(Around))) /\ Inner <= Len(Around)
    /\ \A v, w \in DOMAIN Around :
          (\E k \in DOMAIN Around[v] : Around[v][k] = w) =>
              /\ \E k \in DOMAIN Around[w] : Around[w][k] = v
              /\ \A f \in Affinities : f[{v, w}] \in Int
    /\ \A v \in DOMAIN Around : v > Inner => Len(Around[v]) <= 1

\* What chunk_quickie_impl finds before it joins segments: each has a voxel, and an edge
\* names two of them.
ASSUME SegmentsAssumption ==
    /\ High \in Int
    /\ \A c \in Segments :
          /\ c.counts \in Seq(Nat \ {0})
          /\ c.border \subseteq DOMAIN c.counts
          /\ IsFiniteSet(c.dendr)
          /\ c.dendr \subseteq (DOMAIN c.counts) \X (DOMAIN c.counts) \X Int

\* What chunk_quickie_impl leaves of a chunk, and the faces between chunks: number 0 is the
\* background, every other has a voxel, and an edge names two of them.
ASSUME DomainsAssumption ==
    /\ Chunks \in Nat
    /\ High \in Int /\ Low \in Int /\ DustMerge \in Int /\ DustSize \in Int
    /\ \A i \in Domains :
          /\ \A c \in 1..Chunks :
                /\ IsFiniteSet(DOMAIN i.counts[c]) /\ 0 \in DOMAIN i.counts[c]
                /\ i.counts[c] \in [0..Cardinality(DOMAIN i.counts[c]) - 1 -> Nat]
          /\ \A c \in 1..Chunks : \A n \in DOMAIN i.counts[c] \ {0} : i.counts[c][n] # 0
          /\ i.dendr = [c \in 1..Chunks |-> i.dendr[c]]
          /\ \A c \in 1..Chunks :
                i.dendr[c] \subseteq (DOMAIN i.counts[c] \ {0}) \X (DOMAIN i.counts[c] \ {0}) \X Int
          /\ IsFiniteSet(i.faces)
          /\ \A f \in i.faces :
                /\ f.c \in 1..Chunks /\ f.o \in 1..Chunks /\ f.conn \in Int
                /\ f.a0 \in DOMAIN i.counts[f.c] /\ f.b1 \in DOMAIN i.counts[f.o]

SA == INSTANCE SteepestAscent
CM == INSTANCE ChunkMerge WITH
    Inputs <- Segments, in <- chunk, sets <- regions, dendr <- edges, phase <- part
WS == INSTANCE Watershed WITH Inputs <- Domains

-----------------------------------------------------------------------------
(* The properties of the stages.                                           *)

\* SteepestAscent: every voxel gets a segment, and every segment is the basin of one summit.
SegmentsAreBasins == SA!SegmentsAreBasins

\* ChunkMerge: what touches another chunk is left open, and no voxel is lost.
BorderLeftOpen == CM!BorderLeftOpen

\* ChunkMerge: the dendrogram of a chunk is a forest that joins, at every value, what all
\* edges join.
ForestSpans == CM!ForestSpans

\* Watershed: sizes follow the joins and the renumbering, and after each pass no merger
\* of its kind is left to make.
MergersMade == WS!SizesFollow /\ WS!MergersMade

\* Watershed: the final dendrogram joins, at every value, what all edges of all chunks
\* join, and gives every number one parent.
DendrogramSpans == WS!DendrogramSpans
=============================================================================
