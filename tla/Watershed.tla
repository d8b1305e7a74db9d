------------------------------ MODULE Watershed ------------------------------
(***************************************************************************)
(* xxl::watershed_impl (src/zi/watershed/xxl/watershed.hpp): the domains   *)
(* found in each chunk (SteepestAscent, ChunkMerge) are joined across the  *)
(* borders of the chunks, the missing and the dust mergers are made up     *)
(* for, and what is left is renumbered and gets one dendrogram.            *)
(*                                                                         *)
(* run_all gives a task for each chunk to task_manager_ and joins it; the  *)
(* tasks of a round are taken in any order.  The queue is the one of       *)
(* OutOfCoreQueue: edges leave it by value, equal ones in any order.       *)
(***************************************************************************)
EXTENDS Regions, Sequences

CONSTANTS
    Chunks,  \* their number
    Inputs,  \* what the chunks hold after initial_chunk_quickie
    High, Low, DustMerge, DustSize

Chunk == 1..Chunks

VARIABLES
    in,       \* counts and dendr of each chunk, and the faces between chunks
    phase,
    todo,     \* the chunks whose task of this round has not run
    sizes, sets, merge_at, reorder,
    dendr, more_dendr, merge_pairs,
    queue,
    pairs,    \* what becomes dend_pairs and dend_values
    children,
    list,     \* what the loop over children[i] has ahead
    number,   \* sizes_, when it holds the topological numbers
    topologically_next

vars == <<in, phase, todo, sizes, sets, merge_at, reorder, dendr, more_dendr, merge_pairs,
          queue, pairs, children, list, number, topologically_next>>
orderVars == <<children, list, number, topologically_next>>

\* offset and total_num_domains_: counts[0] of a chunk is no domain of its own.
Offset(c) == Total(1..c - 1, [d \in Chunk |-> Cardinality(DOMAIN in.counts[d]) - 1])
Domain == 0..Offset(Chunks + 1)
Named(c, e) == <<e[1] + Offset(c), e[2] + Offset(c), e[3]>>

\* The faces of c: each is seen from both its chunks, by the later one the other way round.
Ahead(i, c) == {f \in i.faces : f.c = c}
Behind(i, c) ==
    {[c |-> f.o, o |-> f.c, a0 |-> f.b1, a1 |-> f.b0, b0 |-> f.a1, b1 |-> f.a0, conn |-> f.conn] :
        f \in {g \in i.faces : g.o = c}}
Faces(i, c) == Ahead(i, c) \cup Behind(i, c)

\* What initial_chunk_quickie makes sure of, and process_chunk_borders asserts in part.  A
\* voxel beyond the border belongs to a domain of c if the voxel before it points there,
\* and is the summit of that domain unless their affinity is high (see SteepestAscent and
\* ChunkMerge): then no edge of the domain is higher, and it has no second summit.
Plausible(i) == \A c \in Chunk : \A f \in Faces(i, c) :
    /\ f.a1 \in {0, f.a0}
    /\ f.a1 # 0 => f.conn >= Low
    /\ f.conn >= High => f.a1 # 0 /\ f.b0 # 0
    /\ (f.a1 # 0 /\ f.conn < High) =>
          /\ \A g \in Faces(i, c) \ {f} : g.a0 = f.a0 => g.conn <= f.conn /\ g.a1 = 0
          /\ \A e \in i.dendr[c] : f.a0 \in {e[1], e[2]} => e[3] <= f.conn

Init ==
    /\ in \in {i \in Inputs : Plausible(i)}
    /\ phase = "sizes" /\ todo = Chunk
    /\ sizes = [i \in Domain |-> 0]
    /\ sets = Apart(Domain) /\ merge_at = [i \in Domain |-> High]
    /\ reorder = [i \in Domain |-> 0]
    /\ dendr = in.dendr
    /\ more_dendr = [c \in Chunk |-> {}] /\ merge_pairs = [c \in Chunk |-> {}]
    /\ queue = {} /\ pairs = <<>>
    /\ children = [i \in Domain |-> <<>>] /\ list = <<>>
    /\ number = [i \in Domain |-> 0] /\ topologically_next = 0

-----------------------------------------------------------------------------
(* The tasks of the first rounds                                           *)

GetChunkSizes(c) ==
    /\ phase = "sizes" /\ c \in todo
    /\ sizes' = [i \in Domain |->
                   IF i = 0 THEN sizes[0] + in.counts[c][0]
                   ELSE IF i - Offset(c) \in DOMAIN in.counts[c] \ {0}
                        THEN in.counts[c][i - Offset(c)]
                   ELSE sizes[i]]
    /\ todo' = IF todo = {c} THEN Chunk ELSE todo \ {c}
    /\ phase' = IF todo = {c} THEN "borders" ELSE phase
    /\ UNCHANGED <<in, sets, merge_at, reorder, dendr, more_dendr, merge_pairs, queue, pairs, orderVars>>

Met(faces) == {f \in faces : f.a0 # 0 /\ f.b1 # 0}
Ends(f) == <<f.a0 + Offset(f.c), f.b1 + Offset(f.o)>>
IsSame(f) == f.conn >= Low /\ f.a1 # 0 /\ f.conn >= High
Marks(f) == f.conn >= Low /\ f.a1 # 0 /\ ~IsSame(f)
NeedsEdge(f) == ~IsSame(f) /\ (f.conn >= Low \/ f.conn >= DustMerge)

BorderEdges(faces) ==
    {<<Ends(f)[1], Ends(f)[2], f.conn>> : f \in {g \in Met(faces) : NeedsEdge(g)}}
Largest(edges) == {e \in edges : \A f \in edges : f[1] = e[1] /\ f[2] = e[2] => f[3] <= e[3]}

ProcessChunkBorders(c) ==
    LET marks == {f \in Met(Faces(in, c)) : Marks(f)}
    IN  /\ phase = "borders" /\ c \in todo
        /\ merge_at' = [i \in Domain |->
               IF \E f \in marks : Ends(f)[1] = i
               THEN (CHOOSE f \in marks : Ends(f)[1] = i).conn ELSE merge_at[i]]
        /\ more_dendr' = [more_dendr EXCEPT ![c] = Largest(BorderEdges(Ahead(in, c)))]
        /\ merge_pairs' = [merge_pairs EXCEPT ![c] = {Ends(f) : f \in {g \in Met(Ahead(in, c)) : IsSame(g)}}]
        /\ todo' = todo \ {c}
        /\ phase' = IF todo = {c} THEN "serial" ELSE phase
        /\ UNCHANGED <<in, sizes, sets, reorder, dendr, queue, pairs, orderVars>>

-----------------------------------------------------------------------------
(* Joining domains                                                         *)

Summed(v1, v2, vr) ==
    [sizes EXCEPT ![v1] = 0, ![v2] = 0, ![vr] = sizes[v1] + sizes[v2]]

Merge(v1, v2, vr) ==
    /\ sets' = Joined(sets, v1, v2, vr)
    /\ sizes' = Summed(v1, v2, vr)

\* One of the pairs of merge_chunk_borders, which the one thread of serial_task_manager_
\* takes chunk by chunk; here the pairs of all chunks come in any order.
MergePair ==
    /\ phase = "serial"
    /\ \E c \in Chunk : \E p \in merge_pairs[c] :
          /\ merge_pairs' = [merge_pairs EXCEPT ![c] = @ \ {p}]
          /\ IF sets[p[1]] # sets[p[2]]
             THEN \E vr \in {sets[p[1]], sets[p[2]]} :
                     /\ Merge(sets[p[1]], sets[p[2]], vr)
                     /\ merge_at' = [merge_at EXCEPT ![vr] = High]
             ELSE UNCHANGED <<sets, sizes, merge_at>>
    /\ UNCHANGED <<in, phase, todo, reorder, dendr, more_dendr, queue, pairs, orderVars>>

AllEdges == UNION {{Named(c, e) : e \in dendr[c]} \cup more_dendr[c] : c \in Chunk}

SerialJoin ==
    /\ phase = "serial"
    /\ \A c \in Chunk : merge_pairs[c] = {}
    /\ phase' = "missing" /\ queue' = AllEdges
    /\ UNCHANGED <<in, todo, sizes, sets, merge_at, reorder, dendr, more_dendr, merge_pairs, pairs, orderVars>>

Larger(x, y) == IF x < y THEN y ELSE x

\* Mutant: only the first domain of the edge is looked at.
IsMissing_First(v1, v2, val) == merge_at[v1] = val
IsMissing(v1, v2, val)       == merge_at[v1] = val \/ merge_at[v2] = val

MarkAfter(v1, v2, val) ==
    IF Larger(merge_at[v1], merge_at[v2]) = val THEN val ELSE High

\* One round of the loop that makes the missing mergers.
Missing(e) ==
    LET v1 == sets[e[1]]
        v2 == sets[e[2]]
    IN  \/ /\ v1 = v2 \/ (e[3] >= Low /\ ~IsMissing(v1, v2, e[3]))
           /\ queue' = queue \ {e}
           /\ UNCHANGED <<phase, sets, sizes, merge_at>>
        \/ /\ v1 # v2 /\ e[3] >= Low /\ IsMissing(v1, v2, e[3])
           /\ queue' = queue \ {e}
           /\ \E vr \in {v1, v2} :
                 /\ Merge(v1, v2, vr)
                 /\ merge_at' = [merge_at EXCEPT ![vr] = MarkAfter(v1, v2, e[3])]
           /\ UNCHANGED phase
        \/ /\ v1 # v2 /\ e[3] < Low
           /\ queue' = AllEdges /\ phase' = "dust"
           /\ UNCHANGED <<sets, sizes, merge_at>>

MergeMissing ==
    /\ phase = "missing"
    /\ IF queue = {} THEN /\ queue' = AllEdges /\ phase' = "dust"
                          /\ UNCHANGED <<sets, sizes, merge_at>>
       ELSE \E e \in Foremost(queue) : Missing(e)
    /\ UNCHANGED <<in, todo, reorder, dendr, more_dendr, merge_pairs, pairs, orderVars>>

\* Mutant: two sets that are both dust are left apart.
HasDust_One(v1, v2) == (sizes[v1] < DustSize) # (sizes[v2] < DustSize)
HasDust(v1, v2)     == sizes[v1] < DustSize \/ sizes[v2] < DustSize

MergeDust ==
    /\ phase = "dust"
    /\ \E e \in Foremost(queue) :
          /\ e[3] >= DustMerge
          /\ queue' = queue \ {e}
          /\ IF sets[e[1]] # sets[e[2]] /\ HasDust(sets[e[1]], sets[e[2]])
             THEN \E vr \in {sets[e[1]], sets[e[2]]} : Merge(sets[e[1]], sets[e[2]], vr)
             ELSE UNCHANGED <<sets, sizes>>
    /\ UNCHANGED <<in, phase, todo, merge_at, reorder, dendr, more_dendr, merge_pairs, pairs, orderVars>>

-----------------------------------------------------------------------------
(* New numbers, and the dendrogram                                         *)

Stays(i) == i # 0 /\ sizes[i] # 0 /\ sizes[i] >= DustSize

Renumber ==
    LET new == [i \in Domain |->
                  IF Stays(i) THEN Cardinality({j \in Domain : j <= i /\ Stays(j)}) ELSE 0]
        label == {new[i] : i \in Domain}
    IN  /\ phase = "dust"
        /\ \A e \in queue : e[3] < DustMerge
        /\ reorder' = [i \in Domain |-> new[sets[i]]]
        /\ sizes' = [n \in label |->
               IF n = 0 THEN Total({i \in Domain : new[i] = 0}, sizes)
               ELSE sizes[CHOOSE i \in Domain : new[i] = n]]
        /\ sets' = Apart(label)
        /\ phase' = "update" /\ todo' = Chunk /\ queue' = {}
        /\ UNCHANGED <<in, merge_at, dendr, more_dendr, merge_pairs, pairs, orderVars>>

Renamed(e) == <<reorder[e[1]], reorder[e[2]], e[3]>>

UpdateChunkData(c) ==
    LET all == {Renamed(e) : e \in {Named(c, f) : f \in dendr[c]} \cup more_dendr[c]}
        kept == [dendr EXCEPT ![c] = {e \in all : e[1] # 0 /\ e[2] # 0 /\ e[1] # e[2]}]
    IN  /\ phase = "update" /\ c \in todo
        /\ dendr' = kept
        /\ more_dendr' = [more_dendr EXCEPT ![c] = {}]
        /\ todo' = todo \ {c}
        /\ phase' = IF todo = {c} THEN "dend" ELSE phase
        /\ queue' = IF todo = {c} THEN UNION {kept[d] : d \in Chunk} ELSE queue
        /\ UNCHANGED <<in, sizes, sets, merge_at, reorder, merge_pairs, pairs, orderVars>>

\* Mutant: an edge within a set is written too.
IsNews_Any(e) == TRUE
IsNews(e)     == sets[e[1]] # sets[e[2]]

Dendrogram ==
    /\ phase = "dend"
    /\ \E e \in Foremost(queue) :
          /\ queue' = queue \ {e}
          /\ IF IsNews(e)
             THEN /\ pairs' = Append(pairs, e)
                  /\ children' = [children EXCEPT ![e[1]] = Append(@, e[2]),
                                                 ![e[2]] = Append(@, e[1])]
                  /\ \E vr \in {sets[e[1]], sets[e[2]]} :
                        sets' = Joined(sets, sets[e[1]], sets[e[2]], vr)
             ELSE UNCHANGED <<pairs, children, sets>>
    /\ UNCHANGED <<in, phase, todo, sizes, merge_at, reorder, dendr, more_dendr, merge_pairs,
                   list, number, topologically_next>>

Label == DOMAIN sizes \ {0}

Numbered(n) ==
    /\ number' = [number EXCEPT ![n] = topologically_next + 1]
    /\ topologically_next' = topologically_next + 1

\* The loop comes to a number with none yet; the children of the others are spliced away.
NextTree ==
    /\ phase = "dend" /\ queue = {} /\ list = <<>>
    /\ \E i \in Label :
          /\ number[i] = 0 /\ \A j \in Label : j < i => number[j] # 0
          /\ Numbered(i)
          /\ list' = children[i]
    /\ UNCHANGED <<in, phase, todo, sizes, sets, merge_at, reorder, dendr, more_dendr,
                   merge_pairs, queue, pairs, children>>

\* The loop over children[i], to the end of which the children of what has no number yet
\* are spliced.
NextChild ==
    /\ phase = "dend" /\ queue = {} /\ list # <<>>
    /\ LET n == Head(list)
       IN  IF number[n] = 0
           THEN /\ Numbered(n)
                /\ list' = Tail(list) \o children[n]
                /\ children' = [children EXCEPT ![n] = <<>>]
           ELSE /\ list' = Tail(list)
                /\ UNCHANGED <<number, topologically_next, children>>
    /\ UNCHANGED <<in, phase, todo, sizes, sets, merge_at, reorder, dendr, more_dendr,
                   merge_pairs, queue, pairs>>

Oriented(e) == IF number[e[1]] > number[e[2]] THEN e ELSE <<e[2], e[1], e[3]>>

Write ==
    /\ phase = "dend" /\ queue = {} /\ list = <<>>
    /\ \A i \in Label : number[i] # 0
    /\ pairs' = [k \in DOMAIN pairs |-> Oriented(pairs[k])]
    /\ phase' = "done"
    /\ UNCHANGED <<in, todo, sizes, sets, merge_at, reorder, dendr, more_dendr, merge_pairs,
                   queue, orderVars>>

Next ==
    \/ \E c \in Chunk : GetChunkSizes(c) \/ ProcessChunkBorders(c) \/ UpdateChunkData(c)
    \/ MergePair \/ SerialJoin \/ MergeMissing \/ MergeDust \/ Renumber
    \/ Dendrogram \/ NextTree \/ NextChild \/ Write

Spec == Init /\ [][Next]_vars

-----------------------------------------------------------------------------
(* Properties.                                                             *)

\* The size a domain has at first, and all edges between domains before they are renamed.
FirstSize == [i \in Domain |->
    IF i = 0 THEN Total(Chunk, [c \in Chunk |-> in.counts[c][0]])
    ELSE LET c == CHOOSE d \in Chunk : i - Offset(d) \in DOMAIN in.counts[d] \ {0}
         IN  in.counts[c][i - Offset(c)]]

FirstEdges ==
    (UNION {{Named(c, e) : e \in in.dendr[c]} : c \in Chunk}) \cup BorderEdges(in.faces)

\* No voxel is lost or counted twice: until the new numbers are given the size of a root
\* is the sum of the sizes in its set and the size of any other domain 0, which renumbering
\* asserts; after that each number has the sum of its domains, and 0 the rest.
SizesFollow ==
    /\ phase \in {"serial", "missing", "dust"} => \A i \in Domain :
          sizes[i] = Total({j \in Domain : sets[j] = i}, FirstSize)
    /\ phase \in {"update", "dend", "done"} => \A n \in DOMAIN sizes :
          sizes[n] = Total({i \in Domain : reorder[i] = n}, FirstSize)

\* When the first pass is over, no set whose highest edge at the border of a chunk made it
\* a domain of its own still has such an edge to another set.
MissingMade ==
    phase = "dust" /\ queue = AllEdges => \A e \in FirstEdges :
        sets[e[1]] # sets[e[2]] /\ e[3] >= Low /\ e[3] < High =>
            e[3] \notin {merge_at[sets[e[1]]], merge_at[sets[e[2]]]}

\* When the second is over, no edge of at least the dust merge threshold leads out of a set
\* that is dust, to another one that is dust or not.
DustMade ==
    phase = "dust" /\ (\A e \in queue : e[3] < DustMerge) => \A e \in FirstEdges :
        sets[e[1]] # sets[e[2]] /\ e[3] >= DustMerge =>
            sizes[sets[e[1]]] >= DustSize /\ sizes[sets[e[2]]] >= DustSize

\* So only what no such edge leads out of is lost with the new numbers.
DustNamed ==
    phase = "update" => \A e \in FirstEdges :
        e[3] >= DustMerge /\ 0 \in {reorder[e[1]], reorder[e[2]]} =>
            reorder[e[1]] = reorder[e[2]]

\* The three: neither pass leaves a merger of its kind unmade, and the numbers follow.
MergersMade == MissingMade /\ DustMade /\ DustNamed

\* The dendrogram is a forest over the new numbers that joins, at every value, what all
\* edges between the domains of all chunks join; and every number but one of each tree
\* comes first in exactly one pair, so that it has one parent.
DendrogramSpans == phase = "done" =>
    LET named == {Renamed(e) : e \in FirstEdges}
    IN  /\ Spans({pairs[k] : k \in DOMAIN pairs}, {e \in named : e[1] # 0 /\ e[2] # 0}, Label)
        /\ \A k, l \in DOMAIN pairs : k # l => pairs[k][1] # pairs[l][1]
=============================================================================
