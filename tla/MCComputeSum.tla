---------------------------- MODULE MCComputeSum ----------------------------
(***************************************************************************)
(* A tree of five nodes: the root 2 has the leaf 3 and the internal node   *)
(* 0, which has the leaves 1 and 4.                                        *)
(***************************************************************************)
EXTENDS ComputeSum

MCparent == [x \in 0 .. 4 |-> IF x \in {1, 4} THEN 0 ELSE 2]
=============================================================================
