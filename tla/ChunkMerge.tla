----------------------------- MODULE ChunkMerge -----------------------------
(***************************************************************************)
(* The second half of chunk_quickie_impl (src/zi/watershed/quickie/        *)
(* quickie_impl.hpp): the segments of a chunk are joined going down the    *)
(* edges between them, the small ones left are dropped, and those that     *)
(* remain get new numbers and a dendrogram.  What touches another chunk is *)
(* only joined where that chunk cannot matter.                             *)
(***************************************************************************)
EXTENDS Regions

CONSTANTS
    Inputs, \* the segments and edges to start from
    High, Low, DustLow, DustSize

VARIABLES
    in,     \* counts, the segments on the border, and dendr, as they are at first
    counts, \* counts without the bit on_border
    border, \* the segments with that bit
    sets,
    dendr,  \* the edges ahead of the loop
    remaps, \* the new number of each segment
    forest, \* the edges of the final dendrogram
    phase

vars == <<in, counts, border, sets, dendr, remaps, forest, phase>>

Segment == DOMAIN in.counts

Init ==
    /\ in \in Inputs
    /\ counts = in.counts /\ border = in.border
    /\ sets = Apart(Segment) /\ dendr = in.dendr
    /\ remaps = [i \in Segment |-> 0] /\ forest = {}
    /\ phase = "down"

-----------------------------------------------------------------------------
(* Going down the dendrogram                                               *)

\* counts[v] < dust_size, which the bit on_border, the highest, rules out.
\* Mutant: without the bit.
IsDust_Any(v) == counts[v] < DustSize
IsDust(v)     == counts[v] < DustSize /\ v \notin border

\* counts of the root is the sum, that of the other 0.
Merge(v1, v2) == \E vr \in {v1, v2} :
    /\ sets' = Joined(sets, v1, v2, vr)
    /\ counts' = [counts EXCEPT ![v1] = 0, ![v2] = 0, ![vr] = counts[v1] + counts[v2]]
    /\ border' = (border \ {v1, v2}) \cup (IF {v1, v2} \cap border # {} THEN {vr} ELSE {})

Spread(v1, v2) ==
    /\ border' = border \cup {v1, v2}
    /\ UNCHANGED <<sets, counts>>

Descend(e) ==
    LET v1 == sets[e[1]]
        v2 == sets[e[2]]
    IN  \/ /\ v1 # v2
           /\ e[3] >= High
           /\ Merge(v1, v2)
        \/ /\ v1 # v2
           /\ e[3] < High /\ e[3] >= DustLow
           /\ IsDust(v1) \/ IsDust(v2)
           /\ IF {v1, v2} \cap border = {} THEN Merge(v1, v2) ELSE Spread(v1, v2)
        \/ /\ \/ v1 = v2
              \/ e[3] < High /\ e[3] >= DustLow /\ ~IsDust(v1) /\ ~IsDust(v2)
              \/ e[3] < High /\ e[3] < DustLow /\ e[3] >= Low
           /\ UNCHANGED <<sets, counts, border>>

\* The loop is over: no edge below it is as large either.
Ends(e) == e[3] < High /\ e[3] < DustLow /\ e[3] < Low

Down ==
    /\ phase = "down"
    /\ \E e \in Foremost(dendr) :
          /\ ~Ends(e)
          /\ Descend(e)
          /\ dendr' = dendr \ {e}
    /\ UNCHANGED <<in, remaps, forest, phase>>

-----------------------------------------------------------------------------
(* New numbers                                                             *)

\* Segments that keep voxels and are large enough, or have the bit.
Stays(i) == counts[i] # 0 /\ ~IsDust(i)

Renumber ==
    /\ phase = "down"
    /\ \A e \in dendr : Ends(e)
    /\ LET new == [i \in Segment |->
                     IF Stays(i) THEN Cardinality({j \in Segment : j <= i /\ Stays(j)}) ELSE 0]
       IN  /\ remaps' = [i \in Segment |-> new[sets[i]]]
           /\ counts' = [i \in {0} \cup {new[j] : j \in Segment} |->
                 IF i = 0 THEN Total({j \in Segment : IsDust(j)}, counts)
                 ELSE counts[CHOOSE j \in Segment : new[j] = i]]
           /\ sets' = Apart({0} \cup {new[j] : j \in Segment})
    /\ dendr' = in.dendr
    /\ phase' = "final"
    /\ UNCHANGED <<in, border, forest>>

\* Mutant: the numbers are compared, not their sets.
Differ_Numbers(a1, a2) == a1 # 0 /\ a2 # 0 /\ a1 # a2
Differ(a1, a2)         == sets[a1] # 0 /\ sets[a2] # 0 /\ sets[a1] # sets[a2]

Final ==
    /\ phase = "final"
    /\ \E e \in Foremost(dendr) :
          LET a1 == remaps[e[1]]
              a2 == remaps[e[2]]
          IN  /\ dendr' = dendr \ {e}
              /\ IF Differ(a1, a2)
                 THEN /\ \E vr \in {sets[a1], sets[a2]} : sets' = Joined(sets, sets[a1], sets[a2], vr)
                      /\ forest' = forest \cup {<<a1, a2, e[3]>>}
                 ELSE UNCHANGED <<sets, forest>>
    /\ UNCHANGED <<in, counts, border, remaps, phase>>

Next == Down \/ Renumber \/ Final

Spec == Init /\ [][Next]_vars

-----------------------------------------------------------------------------
(* Properties.                                                             *)

Labels == {remaps[i] : i \in Segment} \ {0}

\* A segment on the border is joined with nothing but what high affinities join it to, so
\* that what lies in the next chunk can still decide; and no voxel is lost: the count of a
\* number is the sum of the counts of its segments, and that of 0 the rest.
BorderLeftOpen == phase = "final" =>
    /\ \A i \in in.border :
          LET together == {j \in Segment : remaps[j] = remaps[i]}
          IN  remaps[i] # 0 /\ together = Part(Segment, AtLeast(in.dendr, High), i)
    /\ \A n \in Labels \cup {0} :
          counts[n] = Total({i \in Segment : remaps[i] = n}, in.counts)

\* The dendrogram of a chunk has no cycle, and whatever the edges between its segments
\* join at some value, it joins at that value.
ForestSpans == phase = "final" /\ dendr = {} =>
    Spans(forest,
          {<<remaps[e[1]], remaps[e[2]], e[3]>> :
              e \in {f \in in.dendr : remaps[f[1]] # 0 /\ remaps[f[2]] # 0}},
          Labels)
=============================================================================
