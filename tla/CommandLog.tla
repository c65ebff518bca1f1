----------------------------- MODULE CommandLog -----------------------------
(***************************************************************************)
(* What the pair of windows promises: the commands typed are carried out   *)
(* one by one, in order, each of them once, and none after exit.           *)
(***************************************************************************)
EXTENDS Sequences, Naturals

CONSTANT Command

VARIABLES typed, performed

Init == typed = <<>> /\ performed = <<>>

Enter ==
    /\ typed = <<>> \/ typed[Len(typed)] # "exit"
    /\ \E cmd \in Command : typed' = Append(typed, cmd)
    /\ UNCHANGED performed

Perform ==
    /\ performed # typed
    /\ performed' = SubSeq(typed, 1, Len(performed) + 1)
    /\ UNCHANGED typed

Safety == Init /\ [][Enter \/ Perform]_<<typed, performed>>

Spec == Safety /\ WF_<<typed, performed>>(Perform)
=============================================================================
