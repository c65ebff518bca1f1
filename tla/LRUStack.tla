------------------------------ MODULE LRUStack ------------------------------
(***************************************************************************)
(* What demand paging with local LRU replacement promises, without frame   *)
(* numbers, timestamps or valid bits: for each process its loaded pages,   *)
(* stacked in the order of their last use, and the number of free frames.  *)
(* The stack is kept as an order, the pairs of which page lies below which.*)
(* DemandPaging implements it.                                             *)
(***************************************************************************)
EXTENDS Naturals, FiniteSets

CONSTANTS Process, Page, F

VARIABLES
    loaded,      \* the loaded pages of each process
    older,       \* <<a, b>>: both are loaded, and a was used before b
    free,        \* how many frames are free
    last         \* the last reference, of which process to which page

vars == <<loaded, older, free, last>>

Init ==
    /\ loaded = [p \in Process |-> {}]
    /\ older = [p \in Process |-> {}]
    /\ free = F
    /\ last \in [pid : Process, page : Page]

\* Page a is used, and goes on top of the pages of p that stay.
Use(p, stay, a) ==
    /\ loaded' = [loaded EXCEPT ![p] = stay \cup {a}]
    /\ older' = [older EXCEPT ![p] = (@ \cap (stay \X stay)) \cup (stay \X {a})]

Oldest(p, v) == \A b \in loaded[p] \ {v} : <<v, b>> \in older[p]

\* A reference to a loaded page makes it the most recent one.
Touch(p, a) ==
    /\ a \in loaded[p]
    /\ last' = [pid |-> p, page |-> a]
    /\ Use(p, loaded[p] \ {a}, a)
    /\ UNCHANGED free

\* A reference to a missing page, which may be loaded then:
Miss(p, a) ==
    /\ a \notin loaded[p]
    /\ last' = [pid |-> p, page |-> a]
    /\ UNCHANGED <<loaded, older, free>>

\* in a free frame while there is one,
Load(p, a) ==
    /\ last = [pid |-> p, page |-> a]
    /\ a \notin loaded[p]
    /\ free > 0
    /\ Use(p, loaded[p], a)
    /\ free' = free - 1
    /\ UNCHANGED last

\* else in place of the least recently used page of the same process.
Replace(p, a) ==
    /\ last = [pid |-> p, page |-> a]
    /\ a \notin loaded[p]
    /\ free = 0
    /\ \E v \in loaded[p] : Oldest(p, v) /\ Use(p, loaded[p] \ {v}, a)
    /\ UNCHANGED <<free, last>>

\* A process that ends returns its frames.
Release(p) ==
    /\ free' = free + Cardinality(loaded[p])
    /\ loaded' = [loaded EXCEPT ![p] = {}]
    /\ older' = [older EXCEPT ![p] = {}]
    /\ UNCHANGED last

Next ==
    \E p \in Process :
        \/ \E a \in Page : Touch(p, a) \/ Miss(p, a) \/ Load(p, a) \/ Replace(p, a)
        \/ Release(p)

Spec == Init /\ [][Next]_vars
=============================================================================
