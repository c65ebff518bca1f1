--------------------------- MODULE FCFSScheduler ---------------------------
(***************************************************************************)
(* What the scheduler of Assignment 8 promises: one CPU, given to the      *)
(* processes first come first served.  A process that loses the CPU to a   *)
(* page fault goes to the back of the queue; one that ends leaves.         *)
(***************************************************************************)
EXTENDS Sequences

CONSTANTS Process, Idle

VARIABLES
    arrived,     \* processes that have joined the queue at least once
    queue,       \* the ready queue
    running,     \* the process that has the CPU, or Idle
    finished     \* processes that have ended

vars == <<arrived, queue, running, finished>>

Init ==
    /\ arrived = {}
    /\ queue = <<>>
    /\ running = Idle
    /\ finished = {}

Arrive(p) ==
    /\ p \notin arrived
    /\ arrived' = arrived \cup {p}
    /\ queue' = Append(queue, p)
    /\ UNCHANGED <<running, finished>>

Dispatch ==
    /\ running = Idle
    /\ queue # <<>>
    /\ running' = Head(queue)
    /\ queue' = Tail(queue)
    /\ UNCHANGED <<arrived, finished>>

Block ==
    /\ running # Idle
    /\ queue' = Append(queue, running)
    /\ running' = Idle
    /\ UNCHANGED <<arrived, finished>>

End ==
    /\ running # Idle
    /\ finished' = finished \cup {running}
    /\ running' = Idle
    /\ UNCHANGED <<arrived, queue>>

Next ==
    \/ \E p \in Process : Arrive(p)
    \/ Dispatch
    \/ Block
    \/ End

Spec == Init /\ [][Next]_vars
=============================================================================
