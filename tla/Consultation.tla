---------------------------- MODULE Consultation ----------------------------
(***************************************************************************)
(* What the session of Assignment 6 promises: a doctor who attends to one  *)
(* visitor at a time from time 0 on, reporters first, then patients, then  *)
(* sales representatives, each kind in the order of its arrival, up to a   *)
(* quota of the last two.  Threads, locks and events are left out.         *)
(***************************************************************************)
EXTENDS Integers, Sequences, FiniteSetsExt

CONSTANTS
    Quota,
    Arrival     \* the visitors who may come: when, and for how long

Kind == {"R", "P", "S"}
Limited == {"P", "S"}

VARIABLES
    admitted,   \* for each kind, the arrivals of those let in, in order
    visits,     \* the visits so far: who, from when and until when
    over

vars == <<admitted, visits, over>>

Seen(k) == {v.id : v \in {w \in visits : w.kind = k}}

Waiting(k) == DOMAIN admitted[k] \ Seen(k)

\* When the last visit ends; the doctor opens at 0.
FreeFrom == Max({0} \cup {v.until : v \in visits})

Attended == \A k \in Limited : Seen(k) = 1..Quota[k]

Init ==
    /\ admitted = [k \in Kind |-> <<>>]
    /\ visits = {}
    /\ over = FALSE

\* Arrivals come in the order of time.  Once the quotas are attended to,
\* reporters are let in as long as somebody is in the chamber.
Admit(k, e) ==
    /\ ~over
    /\ k \in Limited => Len(admitted[k]) < Quota[k]
    /\ \A j \in Kind : \A i \in DOMAIN admitted[j] : admitted[j][i].time <= e.time
    /\ Attended => e.time <= FreeFrom
    /\ admitted' = [admitted EXCEPT ![k] = Append(@, e)]
    /\ UNCHANGED <<visits, over>>

\* The next visitor goes in as soon as he is there and the doctor is free.
Attend(k, id) ==
    LET e == admitted[k][id]
        from == Max({FreeFrom, e.time})
    IN  /\ ~over
        /\ \A other \in Waiting(k) : id <= other
        /\ k = "P" => Waiting("R") = {}
        /\ k = "S" => Waiting("R") = {} /\ Waiting("P") = {}
        /\ visits' = visits \cup {[kind |-> k, id |-> id, from |-> from,
                                   until |-> from + e.duration]}
        /\ UNCHANGED <<admitted, over>>

Leave ==
    /\ ~over
    /\ Attended
    /\ \A k \in Kind : Waiting(k) = {}
    /\ over' = TRUE
    /\ UNCHANGED <<admitted, visits>>

Next ==
    \/ \E k \in Kind : \E e \in Arrival : Admit(k, e)
    \/ \E k \in Kind : \E id \in Waiting(k) : Attend(k, id)
    \/ Leave

Spec == Init /\ [][Next]_vars
=============================================================================
