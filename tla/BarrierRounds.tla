--------------------------- MODULE BarrierRounds ---------------------------
(***************************************************************************)
(* What a reusable barrier promises: the threads that arrive are released  *)
(* all at once, when the last of them has arrived, as often as they like.  *)
(***************************************************************************)
CONSTANT Thread

VARIABLES waiting, released

vars == <<waiting, released>>

Init == waiting = {} /\ released = {}

Arrive(t) ==
    /\ t \notin waiting \cup released
    /\ waiting' = waiting \cup {t}
    /\ UNCHANGED released

Release ==
    /\ waiting = Thread
    /\ released' = Thread
    /\ waiting' = {}

Leave(t) ==
    /\ t \in released
    /\ released' = released \ {t}
    /\ UNCHANGED waiting

Next ==
    \/ Release
    \/ \E t \in Thread : Arrive(t) \/ Leave(t)

Spec == Init /\ [][Next]_vars
=============================================================================
