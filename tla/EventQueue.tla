----------------------------- MODULE EventQueue -----------------------------
(***************************************************************************)
(* The binary heap of events of Assignment 6 (event.c).  A queue is the    *)
(* sequence of its elements; node i has the children 2i and 2i + 1 (the    *)
(* code counts from 0).                                                    *)
(***************************************************************************)
EXTENDS Integers, Sequences

EventKind == {"R", "P", "S", "D"}

Event == [type : EventKind, time : Int, duration : Int]

-----------------------------------------------------------------------------
(* eventcmp(e, f) < 0: earlier first, then reporters, patients and sales   *)
(* representatives.  Of two events of one time and one such type each is   *)
(* "less" than the other.                                                  *)

\* The mutant (no part of the model) leaves ties to chance.
Before_Mutant(e, f) == e.time < f.time

Before(e, f) ==
    \/ e.time < f.time
    \/ /\ e.time = f.time
       /\ \/ e.type = "R"
          \/ e.type = "P" /\ f.type # "R"
          \/ e.type = "S" /\ f.type \notin {"R", "P"}

Swap(Q, i, j) == [Q EXCEPT ![i] = Q[j], ![j] = Q[i]]

\* The mutant looks at the left child only.
FirstChild_Mutant(Q, i) == 2 * i

\* The child of i that comes first; the left one when it is the only one.
FirstChild(Q, i) ==
    IF 2 * i + 1 > Len(Q) \/ Before(Q[2 * i], Q[2 * i + 1])
    THEN 2 * i ELSE 2 * i + 1

\* A queue and the place of one of its elements.
Spot == {s \in [queue : Seq(Event), at : Nat \ {0}] : s.at <= Len(s.queue)}

\* The loop of initEQ and delevent: let the element at s.at sink.
SiftDown[s \in Spot] ==
    LET Q == s.queue
        i == s.at
        m == FirstChild(Q, i)
    IN  IF 2 * i > Len(Q) \/ Before(Q[i], Q[m])
        THEN Q
        ELSE SiftDown[[queue |-> Swap(Q, i, m), at |-> m]]

\* The loop of addevent: let the element at s.at rise.
SiftUp[s \in Spot] ==
    LET Q == s.queue
        i == s.at
        p == i \div 2
    IN  IF i = 1 \/ Before(Q[p], Q[i])
        THEN Q
        ELSE SiftUp[[queue |-> Swap(Q, i, p), at |-> p]]

-----------------------------------------------------------------------------
(* The operations                                                          *)

\* initEQ: read the file, then sift every inner node, the last one first.
InitEQ(file) ==
    LET Heapified[j \in 1..(Len(file) \div 2 + 1)] ==
            IF j > Len(file) \div 2
            THEN file
            ELSE SiftDown[[queue |-> Heapified[j + 1], at |-> j]]
    IN  Heapified[1]

AddEvent(E, e) == SiftUp[[queue |-> Append(E, e), at |-> Len(E) + 1]]

\* The last event takes the place of the first and sinks.
DelEvent(E) ==
    IF Len(E) <= 1
    THEN <<>>
    ELSE LET moved == [i \in 1..(Len(E) - 1) |-> IF i = 1 THEN E[Len(E)] ELSE E[i]]
         IN  SiftDown[[queue |-> moved, at |-> 1]]

NextEvent(E) == E[1]
=============================================================================
