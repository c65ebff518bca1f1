---------------------------- MODULE DemandPaging ----------------------------
(***************************************************************************)
(* The memory management unit of Assignment 8 (mmu.c) and the tables       *)
(* master.c builds for it: one page table per process (SM1), the free      *)
(* frame list (SM2), the global timestamp and the counters.                *)
(*                                                                         *)
(* The MMU is a single process that answers one request at a time.  Each   *)
(* message it sends lets another process run, so a branch of its loop that *)
(* sends two messages is two steps here: the reply to the process, then    *)
(* the change to the tables with the message to the scheduler.  The        *)
(* queues themselves are in VirtualMemory, which conjoins these actions    *)
(* with the sends and receives; here a request is any request some live    *)
(* process could make.                                                     *)
(***************************************************************************)
EXTENDS Integers, FiniteSets

CONSTANTS
    K,         \* number of processes                       (master.c: k)
    M,         \* pages of the virtual address space        (master.c: m)
    F,         \* frames of the physical address space      (master.c: f)
    IntMax     \* INT_MAX, the timestamp of an absent page; it also bounds
               \* the number of requests, where int timestamp would overflow

ASSUME ParamAssumption ==
    /\ K \in Nat \ {0}
    /\ M \in Nat \ {0}
    /\ F \in Nat
    /\ IntMax \in Nat \ {0}

Process == 0 .. K-1          \* indices of SM1
Page    == 0 .. M-1
Frame   == 0 .. F-1

NoFrame == -1                \* pagetable[i][0] of a page that is not loaded
NoPage  == -1                \* idx when the LRU scan finds nothing

Absent == [frame |-> NoFrame, valid |-> 0, ts |-> IntMax]

VARIABLES
    mi,                      \* pages each process requires (sm1[i].mi)
    pagetable,               \* sm1[i].pagetable
    sm2,                     \* 1 free, 0 occupied, -1 end of the list
    timestamp,
    total_page_faults,
    total_illegal_access,
    total_num_processes,     \* processes the MMU has counted as terminated
    mmu,                     \* where the MMU is in its loop
    msg3,                    \* the last page request it has received
    ended                    \* processes that will send no more requests

tables == <<pagetable, sm2>>
counts == <<total_page_faults, total_illegal_access, total_num_processes>>
vars == <<mi, tables, timestamp, counts, mmu, msg3, ended>>

NoRequest == [pid |-> 0, page |-> 0]

Init ==
    /\ mi \in [Process -> 1 .. M]
    /\ pagetable = [p \in Process |-> [a \in Page |-> Absent]]
    /\ sm2 = [f \in 0 .. F |-> IF f = F THEN -1 ELSE 1]
    /\ timestamp = 0
    /\ total_page_faults = [p \in Process |-> 0]
    /\ total_illegal_access = [p \in Process |-> 0]
    /\ total_num_processes = 0
    /\ mmu = "recv"
    /\ msg3 = NoRequest
    /\ ended = {}

Resident(p, a) == pagetable[p][a].frame # NoFrame

-----------------------------------------------------------------------------
(* What the handlers compute.  An operator whose name ends in _Mutant is   *)
(* no part of the model: it is the operator it is named after with a       *)
(* plausible bug in it, to show that a property can fail.                  *)

\* The scan stops one page short.
Required_Mutant(p) == 0 .. mi[p] - 2

\* The pages of p the scans "for (i = 0; i < mi; i++)" run over.
Required(p) == 0 .. mi[p] - 1

\* Index the search for a free frame stops at: the first free frame, or the
\* end marker when every frame is occupied.
FirstFree ==
    CHOOSE f \in 0 .. F : sm2[f] # 0 /\ \A g \in 0 .. f-1 : sm2[g] = 0

\* The least recently used page of p itself (replacement is local).
Candidates(p) ==
    {a \in Required(p) : Resident(p, a) /\ pagetable[p][a].ts < IntMax}

LRUVictim(p) ==
    IF Candidates(p) = {} THEN NoPage
    ELSE CHOOSE a \in Candidates(p) :
            \A b \in Candidates(p) : \/ pagetable[p][a].ts < pagetable[p][b].ts
                                     \/ /\ pagetable[p][a].ts = pagetable[p][b].ts
                                        /\ a <= b

\* Returning every frame of p to the free list.
Release(p) ==
    /\ sm2' = [f \in 0 .. F |->
                 IF \E a \in Required(p) : pagetable[p][a].frame = f
                 THEN 1 ELSE sm2[f]]
    /\ pagetable' = [pagetable EXCEPT ![p] =
                       [a \in Page |-> IF a \in Required(p) /\ Resident(p, a)
                                       THEN Absent ELSE pagetable[p][a]]]

-----------------------------------------------------------------------------
(* One step for each request the loop of mmu.c receives.  The guard on     *)
(* timestamp is the bound named in IntMax.                                 *)

Receive(p) ==
    /\ mmu = "recv"
    /\ p \notin ended
    /\ timestamp < IntMax - 1
    /\ timestamp' = timestamp + 1

\* page == -9: release everything, count the process.
Terminate(p) ==
    /\ Receive(p)
    /\ Release(p)
    /\ total_num_processes' = total_num_processes + 1
    /\ ended' = ended \cup {p}
    /\ UNCHANGED <<mi, total_page_faults, total_illegal_access, mmu, msg3>>

\* page >= mi: count it and answer -2 before the frames are released.
IllegalReply(p, a) ==
    /\ Receive(p)
    /\ a >= mi[p]
    /\ total_illegal_access' = [total_illegal_access EXCEPT ![p] = @ + 1]
    /\ total_num_processes' = total_num_processes + 1
    /\ mmu' = "illegal"
    /\ msg3' = [pid |-> p, page |-> a]
    /\ ended' = ended \cup {p}
    /\ UNCHANGED <<mi, tables, total_page_faults>>

IllegalRelease ==
    /\ mmu = "illegal"
    /\ Release(msg3.pid)
    /\ mmu' = "recv"
    /\ UNCHANGED <<mi, timestamp, counts, msg3, ended>>

InMemory(p, a) == Resident(p, a) /\ pagetable[p][a].valid = 1

\* A hit leaves the timestamp alone: first in, first out.
Hit_Mutant(p, a) ==
    /\ Receive(p)
    /\ a < mi[p]
    /\ InMemory(p, a)
    /\ msg3' = [pid |-> p, page |-> a]
    /\ UNCHANGED <<mi, tables, counts, mmu, ended>>

Hit(p, a) ==
    /\ Receive(p)
    /\ a < mi[p]
    /\ InMemory(p, a)
    /\ pagetable' = [pagetable EXCEPT ![p][a].ts = timestamp']
    /\ msg3' = [pid |-> p, page |-> a]
    /\ UNCHANGED <<mi, sm2, counts, mmu, ended>>

\* A page fault is answered with -1 first ...
FaultReply(p, a) ==
    /\ Receive(p)
    /\ a < mi[p]
    /\ ~InMemory(p, a)
    /\ total_page_faults' = [total_page_faults EXCEPT ![p] = @ + 1]
    /\ mmu' = "fault"
    /\ msg3' = [pid |-> p, page |-> a]
    /\ UNCHANGED <<mi, tables, total_illegal_access, total_num_processes, ended>>

Loaded(f) == [frame |-> f, valid |-> 1, ts |-> timestamp]

\* ... and then handled: in a free frame,
FaultLoad ==
    /\ mmu = "fault"
    /\ sm2[FirstFree] # -1
    /\ sm2' = [sm2 EXCEPT ![FirstFree] = 0]
    /\ pagetable' = [pagetable EXCEPT ![msg3.pid][msg3.page] = Loaded(FirstFree)]
    /\ mmu' = "recv"
    /\ UNCHANGED <<mi, timestamp, counts, msg3, ended>>

\* The victim keeps its entry.
FaultReplace_Mutant ==
    LET p == msg3.pid
        v == LRUVictim(p)
    IN /\ mmu = "fault"
       /\ sm2[FirstFree] = -1
       /\ v # NoPage
       /\ pagetable' = [pagetable EXCEPT
                          ![p][msg3.page] = Loaded(pagetable[p][v].frame)]
       /\ mmu' = "recv"
       /\ UNCHANGED <<mi, sm2, timestamp, counts, msg3, ended>>

\* in the frame of the process's own least recently used page,
FaultReplace ==
    LET p == msg3.pid
        v == LRUVictim(p)
    IN /\ mmu = "fault"
       /\ sm2[FirstFree] = -1
       /\ v # NoPage
       /\ pagetable' = [pagetable EXCEPT
                          ![p][msg3.page] = Loaded(pagetable[p][v].frame),
                          ![p][v] = Absent]
       /\ mmu' = "recv"
       /\ UNCHANGED <<mi, sm2, timestamp, counts, msg3, ended>>

\* A process with no page of its own takes one from another process.
FaultRetry_Mutant ==
    /\ mmu = "fault"
    /\ sm2[FirstFree] = -1
    /\ LRUVictim(msg3.pid) = NoPage
    /\ \E q \in Process, b \in Page :
          /\ Resident(q, b)
          /\ pagetable' = [pagetable EXCEPT
                             ![msg3.pid][msg3.page] = Loaded(pagetable[q][b].frame),
                             ![q][b] = Absent]
    /\ mmu' = "recv"
    /\ UNCHANGED <<mi, sm2, timestamp, counts, msg3, ended>>

\* or not at all: the process is queued again to try later.
FaultRetry ==
    /\ mmu = "fault"
    /\ sm2[FirstFree] = -1
    /\ LRUVictim(msg3.pid) = NoPage
    /\ mmu' = "recv"
    /\ UNCHANGED <<mi, tables, timestamp, counts, msg3, ended>>

Next ==
    \/ \E p \in Process : Terminate(p)
    \/ \E p \in Process, a \in Page : IllegalReply(p, a)
    \/ \E p \in Process, a \in Page : Hit(p, a)
    \/ \E p \in Process, a \in Page : FaultReply(p, a)
    \/ IllegalRelease
    \/ FaultLoad
    \/ FaultReplace
    \/ FaultRetry

Spec == Init /\ [][Next]_vars
-----------------------------------------------------------------------------
(* Properties.                                                             *)

TimestampType == 0 .. IntMax

EntryType == [frame : Frame \cup {NoFrame}, valid : {0, 1}, ts : TimestampType]

(* Types: in particular a page table entry never holds the index of the    *)
(* end marker of the free list, and that marker is never overwritten.      *)
TypeOK ==
    /\ mi \in [Process -> 1 .. M]
    /\ pagetable \in [Process -> [Page -> EntryType]]
    /\ sm2 \in [0 .. F -> {-1, 0, 1}]
    /\ \A f \in 0 .. F : sm2[f] = -1 <=> f = F
    /\ timestamp \in 0 .. IntMax - 1
    /\ total_page_faults \in [Process -> Nat]
    /\ total_illegal_access \in [Process -> Nat]
    /\ total_num_processes \in Nat
    /\ mmu \in {"recv", "illegal", "fault"}
    /\ msg3 \in [pid : Process, page : Page]
    /\ ended \subseteq Process

(* The three fields of an entry agree: an entry is either Absent or a      *)
(* valid mapping of a page the process requires (the only pages the scans  *)
(* of mmu.c visit).                                                        *)
EntriesAgree ==
    \A p \in Process, a \in Page :
        \/ pagetable[p][a] = Absent
        \/ /\ Resident(p, a)
           /\ pagetable[p][a].valid = 1
           /\ a < mi[p]

(* No frame is in two entries, of one process or of two.                   *)
NoSharing ==
    \A p, q \in Process, a, b \in Page :
        Resident(p, a) /\ pagetable[p][a].frame = pagetable[q][b].frame
            => p = q /\ a = b

(* The free list and the page tables, two structures that mmu.c updates    *)
(* one after the other, say the same thing: a frame is marked occupied     *)
(* exactly when some entry maps it.  So no frame leaks.                    *)
FreeListExact ==
    \A f \in Frame :
        sm2[f] = 0 <=> \E p \in Process, a \in Page : pagetable[p][a].frame = f

(* Frame ownership, the invariant of the tables (mmu.c:160-270).           *)
FrameOwnership == EntriesAgree /\ NoSharing /\ FreeListExact

(* The tables are what the code takes them for, and agree.                 *)
TablesAgree == TypeOK /\ FrameOwnership

(* A terminated process holds no frame, except between the -2 the MMU      *)
(* answers an illegal reference with and the release that follows it       *)
(* (mmu.c:187-196).                                                        *)
EndedHoldsNothing ==
    \A p \in ended :
        \/ mmu = "illegal" /\ msg3.pid = p
        \/ \A a \in Page : ~Resident(p, a)

(* total_num_processes, which the SIGINT handler uses as the length of its *)
(* report, counts every terminated process once (mmu.c:171, 183).          *)
CountedOnce == total_num_processes = Cardinality(ended)

-----------------------------------------------------------------------------
(* The refinement mapping to LRUStack: the loaded pages of a process by    *)
(* their timestamps, and the frames the list marks free.                   *)
LoadedPages(p) == {a \in Page : Resident(p, a)}

Recency(p) ==
    {ab \in LoadedPages(p) \X LoadedPages(p) :
        pagetable[p][ab[1]].ts < pagetable[p][ab[2]].ts}

FreeFrames == {f \in Frame : sm2[f] = 1}

LRU == INSTANCE LRUStack WITH
          loaded <- [p \in Process |-> LoadedPages(p)],
          older  <- [p \in Process |-> Recency(p)],
          free   <- Cardinality(FreeFrames),
          last   <- msg3

(* Every step of the MMU is a step of local LRU paging: the frame search,  *)
(* the timestamps and the page tables of mmu.c:200-270 implement the stack *)
(* LRU is defined by, and no process's pages move on behalf of another.    *)
LocalLRU == LRU!Spec
=============================================================================
