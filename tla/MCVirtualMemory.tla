-------------------------- MODULE MCVirtualMemory --------------------------
(***************************************************************************)
(* Model checking VirtualMemory: the whole simulator on small workloads.   *)
(***************************************************************************)
EXTENDS VirtualMemory

\* Every reference string of two or four references.
ShortRefs == [1 .. 2 -> Page] \cup [1 .. 4 -> Page]

\* Strings of a process of one page, legal and illegal.
OnePageRefs == {<<0, 0>>, <<0, 1>>, <<1, 0>>}

\* A process of one page that repeats it, and one of two that alternates.
MixedRefs == {<<0, 0>>, <<0, 1, 0, 1>>}
=============================================================================
