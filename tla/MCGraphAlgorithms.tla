-------------------------- MODULE MCGraphAlgorithms --------------------------
(***************************************************************************)
(* GraphAlgorithms for TLC: a behaviour is one of the two algorithms, on   *)
(* any of its small graphs, and the other rests without a graph.           *)
(***************************************************************************)
EXTENDS GraphAlgorithms

VARIABLE subject

MCInit ==
    /\ \/ subject = "hopcroft_karp" /\ digraph = {}
       \/ subject = "tarjan_strongly_cc" /\ e = {}
    /\ Init /\ SCC!Init

MCNext ==
    \/ subject = "hopcroft_karp" /\ Next /\ UNCHANGED <<subject, tarjanVars>>
    \/ subject = "tarjan_strongly_cc" /\ SCC!Next /\ UNCHANGED <<subject, vars>>

MCSpec == MCInit /\ [][MCNext]_<<subject, vars, tarjanVars>>
=============================================================================
