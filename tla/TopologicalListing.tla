------------------------- MODULE TopologicalListing -------------------------
(***************************************************************************)
(* What Assignment 5 must produce: a listing that grows by one node at a   *)
(* time, each after all its predecessors.                                  *)
(***************************************************************************)
EXTENDS Sequences, SequencesExt

CONSTANTS Node

VARIABLES
    graph,      \* the edges
    list        \* the nodes listed so far

Init == list = <<>>

Listed == ToSet(list)

Add(i) ==
    /\ i \notin Listed
    /\ \A j \in Node : <<j, i>> \in graph => j \in Listed
    /\ list' = Append(list, i)
    /\ UNCHANGED graph

Next == \E i \in Node : Add(i)

Spec == Init /\ [][Next]_<<graph, list>>
=============================================================================
