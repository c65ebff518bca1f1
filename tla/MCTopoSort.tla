----------------------------- MODULE MCTopoSort -----------------------------
(***************************************************************************)
(* Model checking TopoSort on every acyclic graph of N nodes.              *)
(***************************************************************************)
EXTENDS TopoSort

\* gengraph.c draws a permutation of the nodes and only edges that go up in it.
Permutation == {perm \in [Node -> Node] : \A i, j \in Node : perm[i] = perm[j] => i = j}

UpIn(perm) == {e \in Node \X Node : perm[e[1]] < perm[e[2]]}

Dags == UNION {SUBSET UpIn(perm) : perm \in Permutation}
=============================================================================
