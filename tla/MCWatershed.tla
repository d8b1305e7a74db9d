----------------------------- MODULE MCWatershed -----------------------------
(***************************************************************************)
(* Small instances of Segmentation for TLC.  A stage starts from inputs as *)
(* the stage before it may leave them; a behaviour is one of a single      *)
(* component, its subject, and the variables of the others keep one        *)
(* initial value.                                                          *)
(***************************************************************************)
EXTENDS Segmentation

VARIABLE subject

-----------------------------------------------------------------------------
(* The inputs                                                              *)

\* A ring of four voxels with a tail of one, a voxel beyond it in the next chunk, and one
\* where the volume ends.  The ring is symmetric.
MCAround == << <<2, 3, 7>>, <<4, 1>>, <<4, 1>>, <<5, 3, 2>>, <<6, 4>>, <<5>>, <<1>> >>
MCPairs == UNION {{ {v, MCAround[v][i]} : i \in DOMAIN MCAround[v]} : v \in DOMAIN MCAround}
MCEdge == {7}
MCAffinities == {f \in [MCPairs -> {0, 2, 3, 4}] : f[{1, 2}] <= f[{1, 3}] /\ f[{1, 7}] \in {0, 4}}

\* Four segments in a line with one shortcut, the outer ones on the border or not.
Links == {<<1, 2>>, <<2, 3>>, <<3, 4>>, <<1, 3>>}
Counts == {<<1, 1, 1, 1>>, <<1, 2, 1, 2>>, <<2, 1, 2, 2>>, <<2, 2, 1, 1>>}
MCSegments ==
    {[counts |-> c, border |-> b, dendr |-> {<<p[1], p[2], f[p]>> : p \in {q \in Links : f[q] # 0}}] :
        c \in Counts, b \in SUBSET {1, 4}, f \in [Links -> {0, 1, 2, 4}]}

\* Two chunks of two domains each with up to two faces between them, of every affinity.
Face ==
    {[c |-> 1, o |-> 2, a0 |-> p[1], a1 |-> x * p[1], b0 |-> y * p[2], b1 |-> p[2], conn |-> v] :
        p \in {<<1, 1>>, <<2, 2>>, <<2, 1>>}, x \in 0..1, y \in 0..1, v \in 1..4}
Dendrs == {<<d1, d2>> : d1 \in {{}, {<<1, 2, 2>>}, {<<1, 2, 3>>}}, d2 \in {{}, {<<1, 2, 3>>}}}
DomainCounts ==
    {<<[i \in 0..2 |-> <<5, 1, 3>>[i + 1]], [i \in 0..2 |-> <<5, 1, 1>>[i + 1]]>>,
     <<[i \in 0..2 |-> <<5, 3, 3>>[i + 1]], [i \in 0..2 |-> <<5, 3, 2>>[i + 1]]>>}
MCDomains ==
    {[counts |-> c, dendr |-> d, faces |-> fs] :
        c \in DomainCounts, d \in Dendrs, fs \in {{f, g} : f \in Face, g \in Face} \cup {{}}}

-----------------------------------------------------------------------------

\* The components at rest in one of their initial states.
QueueRests == file = [s \in Source |-> <<1>>] /\ Init
AscentRests == cmat = [p \in MCPairs |-> 0] /\ SA!Init
ChunkRests ==
    chunk = [counts |-> <<1, 1, 1, 1>>, border |-> {}, dendr |-> {}] /\ CM!Init
BordersRest ==
    /\ in = [counts |-> CHOOSE c \in DomainCounts : TRUE, dendr |-> <<{}, {}>>, faces |-> {}]
    /\ WS!Init

MCInit ==
    \/ subject = "queue" /\ AscentRests /\ ChunkRests /\ BordersRest /\ Init
    \/ subject = "ascent" /\ QueueRests /\ ChunkRests /\ BordersRest /\ SA!Init
    \/ subject = "chunk" /\ QueueRests /\ AscentRests /\ BordersRest /\ CM!Init
    \/ subject = "borders" /\ QueueRests /\ AscentRests /\ ChunkRests /\ WS!Init

MCNext ==
    \/ /\ subject = "queue" /\ Next
       /\ UNCHANGED <<subject, ascentVars, chunkVars, bordersVars>>
    \/ /\ subject = "ascent" /\ SA!Next
       /\ UNCHANGED <<subject, vars, chunkVars, bordersVars>>
    \/ /\ subject = "chunk" /\ CM!Next
       /\ UNCHANGED <<subject, vars, ascentVars, bordersVars>>
    \/ /\ subject = "borders" /\ WS!Next
       /\ UNCHANGED <<subject, vars, ascentVars, chunkVars>>

\* The threads of the queue run, as in FairSpec of OutOfCoreQueue.
OfQueue(A) == A /\ UNCHANGED <<subject, ascentVars, chunkVars, bordersVars>>
Fairness ==
    /\ WF_vars(subject = "queue" /\ OfQueue(Begin))
    /\ \A s \in Source :
          /\ WF_vars(subject = "queue" /\ OfQueue(Resume(s)))
          /\ WF_vars(subject = "queue" /\ OfQueue(FetchCb(s)))
          /\ WF_vars(subject = "queue" /\ OfQueue(StrayCb(s)))

MCSpec ==
    /\ MCInit /\ [][MCNext]_<<subject, vars, ascentVars, chunkVars, bordersVars>>
    /\ Fairness
=============================================================================
