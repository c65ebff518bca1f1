------------------------ MODULE VirtualMemoryProofs ------------------------
(***************************************************************************)
(* The simulator of Assignment 8, for any number of processes, pages and   *)
(* frames and any reference strings.  First the MMU by itself, as          *)
(* DemandPaging has it: the frames and who owns them.  Then the MMU inside *)
(* the whole simulator, which takes the same steps, and last the messages  *)
(* and the turn that pass between the four programs.                       *)
(***************************************************************************)
EXTENDS VirtualMemory, FiniteSetTheorems, WellFoundedInduction, SequenceTheorems, TLAPS

(* What the second half of a branch relies on about the request the first  *)
(* half took: the faulting page is still missing when it is loaded.        *)
RequestPending ==
    /\ mmu = "fault" => /\ msg3.page < mi[msg3.pid]
                        /\ ~Resident(msg3.pid, msg3.page)
                        /\ msg3.pid \notin ended
    /\ mmu = "illegal" => msg3.pid \in ended

Inv ==
    /\ TypeOK
    /\ FrameOwnership
    /\ RequestPending
    /\ EndedHoldsNothing
    /\ CountedOnce

-----------------------------------------------------------------------------
(* The searches of mmu.c:219-247 return what they look for.                *)

(* A non-empty set of numbers, such as the free frames or the timestamps   *)
(* the scans run over, has a least element.                                *)
LEMMA LeastNat ==
    ASSUME NEW S \in SUBSET Nat, S # {}
    PROVE  \E n \in S : \A m \in S : n <= m
<1>1. PICK n \in S : \A m \in S : ~ (<<m, n>> \in OpToRel(<, Nat))
  BY NatLessThanWellFounded, WFMin
<1>2. ASSUME NEW m \in S, m < n
      PROVE  FALSE
  <2>1. <<m, n>> \in OpToRel(<, Nat)
    BY <1>2 DEF OpToRel
  <2> QED
    BY <1>1, <2>1
<1> QED
  BY <1>2

(* The search for a free frame stops at the first entry of the list that   *)
(* is not occupied (mmu.c:219-226).                                        *)
LEMMA FirstFreeFound ==
    ASSUME TypeOK
    PROVE  /\ FirstFree \in 0 .. F /\ sm2[FirstFree] # 0
           /\ \A g \in 0 .. FirstFree-1 : sm2[g] = 0
<1> DEFINE S == {f \in 0 .. F : sm2[f] # 0}
<1>1. S \in SUBSET Nat /\ S # {}
  <2>1. F \in S
    BY ParamAssumption DEF TypeOK
  <2>2. S \in SUBSET Nat
    BY ParamAssumption
  <2> QED
    BY <2>1, <2>2
<1> HIDE DEF S
<1>2. PICK f \in S : \A g \in S : f <= g
  BY <1>1, LeastNat
<1>3. f \in 0 .. F /\ sm2[f] # 0 /\ \A g \in 0 .. f-1 : sm2[g] = 0
  BY <1>2, ParamAssumption DEF S
<1> QED
  BY <1>3 DEF FirstFree

(* The LRU scan returns a loaded page of the process itself, or nothing    *)
(* when it has none (mmu.c:238-247).                                       *)
LEMMA VictimFound ==
    ASSUME TypeOK, NEW p \in Process, Candidates(p) # {}
    PROVE  /\ LRUVictim(p) \in Candidates(p)
           /\ \A b \in Candidates(p) :
                 \/ pagetable[p][LRUVictim(p)].ts < pagetable[p][b].ts
                 \/ pagetable[p][LRUVictim(p)].ts = pagetable[p][b].ts
<1> DEFINE C == Candidates(p)
           T == {pagetable[p][a].ts : a \in C}
<1>1. C # {} /\ C \subseteq Page
  <2>1. mi[p] \in 1 .. M
    BY DEF TypeOK
  <2>2. Required(p) \subseteq Page
    BY <2>1, ParamAssumption DEF Required, Page
  <2> QED
    BY <2>2 DEF Candidates
<1>2. \A a \in C : pagetable[p][a].ts \in Nat
  <2>1. \A a \in Page : pagetable[p][a] \in EntryType
    BY DEF TypeOK
  <2> QED
    BY <1>1, <2>1, ParamAssumption DEF EntryType, TimestampType
<1>3. PICK t \in T : \A u \in T : t <= u
  <2>1. T \in SUBSET Nat /\ T # {}
    BY <1>1, <1>2
  <2> HIDE DEF T
  <2> QED
    BY <2>1, LeastNat
<1> DEFINE S == {a \in C : pagetable[p][a].ts = t}
<1>4. PICK v \in S : \A b \in S : v <= b
  <2>1. S \in SUBSET Nat /\ S # {}
    BY <1>1, <1>3, ParamAssumption DEF Page
  <2> HIDE DEF S
  <2> QED
    BY <2>1, LeastNat
<1>5. \A b \in C : \/ pagetable[p][v].ts < pagetable[p][b].ts
                   \/ pagetable[p][v].ts = pagetable[p][b].ts /\ v <= b
  <2>1. pagetable[p][v].ts = t /\ t \in Nat
    BY <1>2, <1>4
  <2> SUFFICES ASSUME NEW b \in C
               PROVE  t < pagetable[p][b].ts \/ (pagetable[p][b].ts = t /\ v <= b)
    BY <2>1
  <2>2. t <= pagetable[p][b].ts /\ pagetable[p][b].ts \in Nat
    BY <1>2, <1>3
  <2>3. pagetable[p][b].ts = t => v <= b
    BY <1>4
  <2> QED
    BY <2>1, <2>2, <2>3
<1> QED
  BY <1>1, <1>4, <1>5 DEF LRUVictim

-----------------------------------------------------------------------------
(* The invariant holds initially and is preserved by each step.            *)

LEMMA InitInv == Init => Inv
<1> SUFFICES ASSUME Init
             PROVE  Inv
  OBVIOUS
<1>1. TypeOK
  <2>1. Absent \in EntryType
    BY ParamAssumption DEF Absent, EntryType, TimestampType
  <2>2. NoRequest \in [pid : Process, page : Page]
    BY ParamAssumption DEF NoRequest, Process, Page
  <2> QED
    BY <2>1, <2>2, ParamAssumption DEF Init, TypeOK
<1>2. \A p \in Process, a \in Page : ~Resident(p, a)
  BY DEF Init, Resident, Absent
<1>3. FrameOwnership
  <2>1. \A f \in Frame : sm2[f] = 1 /\ f # NoFrame
    BY ParamAssumption DEF Init, Frame, NoFrame
  <2> QED
    BY <1>2, <2>1 DEF Init, FrameOwnership, EntriesAgree, NoSharing,
       FreeListExact, Resident
<1>4. CountedOnce
  BY FS_EmptySet DEF Init, CountedOnce
<1> QED
  BY <1>1, <1>3, <1>4 DEF Inv, Init, RequestPending, EndedHoldsNothing

(* The loop that returns the frames of a process (mmu.c:162-169, 189-196)  *)
(* frees all it holds, and only those: the pages past mi hold none.        *)
LEMMA ReleaseFrees ==
    ASSUME TypeOK, FrameOwnership, UNCHANGED mi,
           NEW p \in Process, Release(p)
    PROVE  /\ pagetable' \in [Process -> [Page -> EntryType]]
           /\ sm2' \in [0 .. F -> {-1, 0, 1}]
           /\ \A f \in 0 .. F : sm2'[f] = -1 <=> f = F
           /\ \A a \in Page : pagetable'[p][a] = Absent
           /\ \A q \in Process \ {p} : pagetable'[q] = pagetable[q]
           /\ FrameOwnership'
<1>1. mi[p] \in 1 .. M
  BY DEF TypeOK
<1>2. \A a \in Page : Resident(p, a) => a \in Required(p)
  BY <1>1, ParamAssumption DEF FrameOwnership, EntriesAgree, Resident, Absent,
     Required, Page
<1>3. Required(p) \subseteq Page
  BY <1>1, ParamAssumption DEF Required, Page
<1>4. \A a \in Page : ~Resident(p, a) => pagetable[p][a] = Absent
  BY DEF FrameOwnership, EntriesAgree
<1>5. pagetable' = [pagetable EXCEPT ![p] = [a \in Page |-> Absent]]
  BY <1>2, <1>4 DEF Release
<1>6. Absent \in EntryType
  BY ParamAssumption DEF Absent, EntryType, TimestampType
<1>7. pagetable' \in [Process -> [Page -> EntryType]]
  BY <1>5, <1>6 DEF TypeOK
<1>8. /\ \A a \in Page : pagetable'[p][a] = Absent
      /\ \A q \in Process \ {p} : pagetable'[q] = pagetable[q]
  BY <1>5 DEF TypeOK
<1>9. \A a \in Page : pagetable[p][a].frame \in Frame \cup {NoFrame}
  BY DEF TypeOK, EntryType
<1>10. \A f \in 0 .. F : sm2'[f] = IF \E a \in Page : pagetable[p][a].frame = f
                                 THEN 1 ELSE sm2[f]
  <2> SUFFICES ASSUME NEW f \in 0 .. F
               PROVE  (\E a \in Required(p) : pagetable[p][a].frame = f)
                        <=> (\E a \in Page : pagetable[p][a].frame = f)
    BY DEF Release
  <2>1. f # NoFrame
    BY ParamAssumption DEF NoFrame
  <2> QED
    BY <1>2, <1>3, <2>1 DEF Resident
<1>11. sm2' \in [0 .. F -> {-1, 0, 1}]
  BY DEF Release, TypeOK
<1>12. \A f \in 0 .. F : sm2'[f] = -1 <=> f = F
  BY <1>9, <1>10, ParamAssumption DEF TypeOK, Frame, NoFrame
<1>13. EntriesAgree'
  BY <1>8 DEF FrameOwnership, EntriesAgree, Resident
<1>14. NoSharing'
  BY <1>8 DEF FrameOwnership, NoSharing, Resident, Absent
<1>15. FreeListExact'
  <2> SUFFICES ASSUME NEW f \in Frame
               PROVE  sm2'[f] = 0 <=>
                        \E q \in Process, a \in Page : pagetable'[q][a].frame = f
    BY DEF FreeListExact
  <2>1. f \in 0 .. F /\ f # NoFrame
    BY ParamAssumption DEF Frame, NoFrame
  <2>2. sm2[f] = 0 <=> \E q \in Process, a \in Page : pagetable[q][a].frame = f
    BY DEF FrameOwnership, FreeListExact
  <2>3. CASE \E a \in Page : pagetable[p][a].frame = f
    <3>1. sm2'[f] = 1
      BY <1>10, <2>1, <2>3
    <3>2. \A q \in Process, a \in Page : pagetable'[q][a].frame # f
      BY <1>8, <2>1, <2>3 DEF FrameOwnership, NoSharing, Resident, Absent
    <3> QED
      BY <3>1, <3>2
  <2>4. CASE ~ \E a \in Page : pagetable[p][a].frame = f
    <3>1. sm2'[f] = sm2[f]
      BY <1>10, <2>1, <2>4
    <3>2. \A q \in Process, a \in Page :
             pagetable'[q][a].frame = f <=> pagetable[q][a].frame = f
      BY <1>8, <2>1, <2>4 DEF Absent
    <3> QED
      BY <2>2, <3>1, <3>2
  <2> QED
    BY <2>3, <2>4
<1> QED
  BY <1>7, <1>8, <1>11, <1>12, <1>13, <1>14, <1>15 DEF FrameOwnership

(* The processes, and so the ended ones, can be counted.                   *)
LEMMA EndedFinite ==
    ASSUME TypeOK
    PROVE  IsFiniteSet(ended)
<1>1. IsFiniteSet(Process)
  <2>1. 0 \in Int /\ K-1 \in Int
    BY ParamAssumption
  <2> QED
    BY <2>1, FS_Interval DEF Process
<1>2. ended \in SUBSET Process
  BY DEF TypeOK
<1> QED
  BY <1>1, <1>2, FS_Subset

(* Terminate and the release after an illegal reference (mmu.c:160-175,    *)
(* 189-196) leave the process without frames.                              *)
LEMMA TerminateInv ==
    ASSUME Inv, NEW p \in Process, Terminate(p)
    PROVE  Inv'
<1> USE DEF Terminate, Receive
<1>1. /\ TypeOK'
      /\ FrameOwnership'
      /\ \A a \in Page : pagetable'[p][a] = Absent
      /\ \A q \in Process \ {p} : pagetable'[q] = pagetable[q]
  <2>1. timestamp' \in 0 .. IntMax - 1 /\ total_num_processes' \in Nat
    BY ParamAssumption DEF Inv, TypeOK
  <2> QED
    BY <2>1, ReleaseFrees DEF Inv, TypeOK
<1>2. EndedHoldsNothing'
  BY <1>1 DEF Inv, EndedHoldsNothing, Resident, Absent, TypeOK
<1>3. CountedOnce'
  <2>1. IsFiniteSet(ended)
    BY EndedFinite DEF Inv
  <2>2. Cardinality(ended \cup {p}) = Cardinality(ended) + 1
    BY <2>1, FS_AddElement
  <2> QED
    BY <2>2 DEF Inv, CountedOnce
<1> QED
  BY <1>1, <1>2, <1>3 DEF Inv, RequestPending

LEMMA IllegalReplyInv ==
    ASSUME Inv, NEW p \in Process, NEW a \in Page, IllegalReply(p, a)
    PROVE  Inv'
<1> USE DEF IllegalReply, Receive, tables
<1>1. TypeOK'
  BY ParamAssumption DEF Inv, TypeOK
<1>2. FrameOwnership'
  BY DEF Inv, FrameOwnership, EntriesAgree, NoSharing, FreeListExact, Resident
<1>3. EndedHoldsNothing'
  BY DEF Inv, EndedHoldsNothing, Resident
<1>4. CountedOnce'
  <2>1. IsFiniteSet(ended)
    BY EndedFinite DEF Inv
  <2>2. Cardinality(ended \cup {p}) = Cardinality(ended) + 1
    BY <2>1, FS_AddElement
  <2> QED
    BY <2>2 DEF Inv, CountedOnce
<1> QED
  BY <1>1, <1>2, <1>3, <1>4 DEF Inv, RequestPending

LEMMA IllegalReleaseInv ==
    ASSUME Inv, IllegalRelease
    PROVE  Inv'
<1> DEFINE p == msg3.pid
<1> USE DEF IllegalRelease, counts
<1>1. p \in Process
  BY DEF Inv, TypeOK
<1>2. /\ TypeOK'
      /\ FrameOwnership'
      /\ \A a \in Page : pagetable'[p][a] = Absent
      /\ \A q \in Process \ {p} : pagetable'[q] = pagetable[q]
  BY <1>1, ReleaseFrees DEF Inv, TypeOK
<1>3. EndedHoldsNothing'
  <2> SUFFICES ASSUME NEW q \in ended, NEW a \in Page
               PROVE  ~Resident(q, a)'
    BY DEF EndedHoldsNothing
  <2>1. CASE q = p
    BY <1>2, <2>1 DEF Resident, Absent
  <2>2. CASE q # p
    <3>1. q \in Process \ {p}
      BY <2>2 DEF Inv, TypeOK
    <3>2. ~Resident(q, a)
      BY <2>2 DEF Inv, EndedHoldsNothing
    <3> QED
      BY <1>2, <3>1, <3>2 DEF Resident
  <2> QED
    BY <2>1, <2>2
<1> QED
  BY <1>2, <1>3 DEF Inv, RequestPending, CountedOnce

(* A hit changes one timestamp and no frame (mmu.c:200-206).               *)
LEMMA HitInv ==
    ASSUME Inv, NEW p \in Process, NEW a \in Page, Hit(p, a)
    PROVE  Inv'
<1> USE DEF Hit, Receive, InMemory, counts
<1>1. timestamp' \in 0 .. IntMax - 1 /\ timestamp' \in TimestampType
  BY ParamAssumption DEF Inv, TypeOK, TimestampType
<1>2. pagetable' \in [Process -> [Page -> EntryType]]
  <2>1. pagetable[p][a] \in EntryType
    BY DEF Inv, TypeOK
  <2>2. [pagetable[p][a] EXCEPT !.ts = timestamp'] \in EntryType
    BY <1>1, <2>1 DEF EntryType
  <2>3. pagetable' = [pagetable EXCEPT ![p][a] =
                        [pagetable[p][a] EXCEPT !.ts = timestamp']]
    OBVIOUS
  <2> QED
    BY <2>2, <2>3 DEF Inv, TypeOK
<1>3. TypeOK'
  BY <1>1, <1>2 DEF Inv, TypeOK
<1>4. \A q \in Process, b \in Page :
         /\ pagetable'[q][b].frame = pagetable[q][b].frame
         /\ pagetable'[q][b].valid = pagetable[q][b].valid
         /\ q # p \/ b # a => pagetable'[q][b] = pagetable[q][b]
  BY DEF Inv, TypeOK, EntryType
<1>5. FrameOwnership'
  <2>1. EntriesAgree'
    BY <1>4 DEF Inv, FrameOwnership, EntriesAgree, Resident
  <2>2. NoSharing' /\ FreeListExact'
    BY <1>4 DEF Inv, FrameOwnership, NoSharing, FreeListExact, Resident
  <2> QED
    BY <2>1, <2>2 DEF FrameOwnership
<1>6. EndedHoldsNothing'
  BY <1>4 DEF Inv, EndedHoldsNothing, Resident, TypeOK
<1> QED
  BY <1>3, <1>5, <1>6 DEF Inv, RequestPending, CountedOnce

LEMMA FaultReplyInv ==
    ASSUME Inv, NEW p \in Process, NEW a \in Page, FaultReply(p, a)
    PROVE  Inv'
<1> USE DEF FaultReply, Receive, tables
<1>1. TypeOK'
  BY ParamAssumption DEF Inv, TypeOK
<1>2. FrameOwnership'
  BY DEF Inv, FrameOwnership, EntriesAgree, NoSharing, FreeListExact, Resident
<1>3. RequestPending'
  BY DEF Inv, FrameOwnership, EntriesAgree, RequestPending, InMemory, Resident,
     Absent
<1> QED
  BY <1>1, <1>2, <1>3 DEF Inv, EndedHoldsNothing, CountedOnce, Resident

(* Loading a page in a free frame: the frame was in no entry, the page in  *)
(* no frame (mmu.c:219-235).                                               *)
LEMMA FaultLoadInv ==
    ASSUME Inv, FaultLoad
    PROVE  Inv'
<1> DEFINE p == msg3.pid
           a == msg3.page
           f == FirstFree
<1> USE DEF FaultLoad, counts
<1>1. /\ p \in Process /\ a \in Page
      /\ a < mi[p] /\ ~Resident(p, a) /\ p \notin ended
  BY DEF Inv, TypeOK, RequestPending
<1>2. f \in Frame /\ f # NoFrame /\ f \in 0 .. F /\ sm2[f] = 1
  BY FirstFreeFound, ParamAssumption DEF Inv, TypeOK, Frame, NoFrame
<1>3. \A q \in Process, b \in Page : pagetable[q][b].frame # f
  BY <1>2 DEF Inv, FrameOwnership, FreeListExact
<1> HIDE DEF p, a, f
<1>4. /\ sm2' = [sm2 EXCEPT ![f] = 0]
      /\ pagetable' = [pagetable EXCEPT ![p][a] = Loaded(f)]
  BY DEF p, a, f
<1>5. Loaded(f) \in EntryType
  BY <1>2, ParamAssumption DEF Inv, TypeOK, Loaded, EntryType, TimestampType
<1>6. /\ pagetable'[p][a] = Loaded(f)
      /\ \A q \in Process, b \in Page :
            q # p \/ b # a => pagetable'[q][b] = pagetable[q][b]
  BY <1>1, <1>4 DEF Inv, TypeOK
<1>7. \A g \in 0 .. F : sm2'[g] = IF g = f THEN 0 ELSE sm2[g]
  BY <1>2, <1>4 DEF Inv, TypeOK
<1>8. TypeOK'
  <2>1. pagetable' \in [Process -> [Page -> EntryType]]
    <3>1. [pagetable[p] EXCEPT ![a] = Loaded(f)] \in [Page -> EntryType]
      BY <1>1, <1>5 DEF Inv, TypeOK
    <3> QED
      BY <1>1, <1>4, <3>1 DEF Inv, TypeOK
  <2>2. sm2' \in [0 .. F -> {-1, 0, 1}]
    BY <1>4 DEF Inv, TypeOK
  <2>3. \A g \in 0 .. F : sm2'[g] = -1 <=> g = F
    BY <1>2, <1>7, ParamAssumption DEF Inv, TypeOK, Frame
  <2> QED
    BY <2>1, <2>2, <2>3 DEF Inv, TypeOK
<1>9. EntriesAgree'
  BY <1>1, <1>2, <1>6 DEF Inv, FrameOwnership, EntriesAgree, Resident, Loaded
<1>10. NoSharing'
  BY <1>1, <1>2, <1>3, <1>6 DEF Inv, FrameOwnership, NoSharing, Resident, Loaded
<1>11. FreeListExact'
  <2> SUFFICES ASSUME NEW g \in Frame
               PROVE  sm2'[g] = 0 <=>
                        \E q \in Process, b \in Page : pagetable'[q][b].frame = g
    BY DEF FreeListExact
  <2>1. g \in 0 .. F /\ g # NoFrame
    BY ParamAssumption DEF Frame, NoFrame
  <2>2. sm2[g] = 0 <=> \E q \in Process, b \in Page : pagetable[q][b].frame = g
    BY DEF Inv, FrameOwnership, FreeListExact
  <2>3. CASE g = f
    BY <1>1, <1>6, <1>7, <2>1, <2>3 DEF Loaded
  <2>4. CASE g # f
    <3>1. \A q \in Process, b \in Page :
             pagetable'[q][b].frame = g <=> pagetable[q][b].frame = g
      BY <1>1, <1>6, <2>1, <2>4 DEF Resident, Loaded
    <3> QED
      BY <1>7, <2>1, <2>2, <2>4, <3>1
  <2> QED
    BY <2>3, <2>4
<1>12. EndedHoldsNothing'
  <2> SUFFICES ASSUME NEW q \in ended, NEW b \in Page
               PROVE  ~Resident(q, b)'
    BY DEF EndedHoldsNothing
  <2>1. q \in Process /\ q # p /\ ~Resident(q, b)
    BY <1>1 DEF Inv, TypeOK, EndedHoldsNothing
  <2> QED
    BY <1>6, <2>1 DEF Resident
<1> QED
  BY <1>8, <1>9, <1>10, <1>11, <1>12
  DEF Inv, FrameOwnership, RequestPending, CountedOnce

(* Replacing a page: the frame moves from the victim to the new page of    *)
(* the same process (mmu.c:238-259).                                       *)
LEMMA FaultReplaceInv ==
    ASSUME Inv, FaultReplace
    PROVE  Inv'
<1> DEFINE p == msg3.pid
           a == msg3.page
           v == LRUVictim(p)
           f == pagetable[p][v].frame
<1> USE DEF FaultReplace, counts
<1>1. /\ p \in Process /\ a \in Page
      /\ a < mi[p] /\ ~Resident(p, a) /\ p \notin ended
  BY DEF Inv, TypeOK, RequestPending
<1>2. v \in Page /\ Resident(p, v) /\ v # a
  <2>1. v \in Candidates(p)
    <3>1. Candidates(p) # {}
      BY DEF LRUVictim
    <3> QED
      BY <1>1, <3>1, VictimFound DEF Inv
  <2>2. mi[p] \in 1 .. M
    BY <1>1 DEF Inv, TypeOK
  <2> QED
    BY <1>1, <2>1, <2>2, ParamAssumption DEF Candidates, Required, Page
<1>3. f \in Frame /\ f # NoFrame
  BY <1>1, <1>2 DEF Inv, TypeOK, EntryType, Resident
<1>4. pagetable' = [pagetable EXCEPT ![p][a] = Loaded(f), ![p][v] = Absent]
  OBVIOUS
<1>5. UNCHANGED <<mi, sm2, timestamp, counts, msg3, ended>> /\ mmu' = "recv"
  OBVIOUS
<1> HIDE DEF p, a, v, f, FaultReplace
<1>6. Loaded(f) \in EntryType /\ Absent \in EntryType
  BY <1>3, ParamAssumption
  DEF Inv, TypeOK, Loaded, Absent, EntryType, TimestampType
<1>7. pagetable' = [pagetable EXCEPT ![p] =
                      [pagetable[p] EXCEPT ![a] = Loaded(f), ![v] = Absent]]
  BY <1>1, <1>4 DEF Inv, TypeOK
<1>8. /\ pagetable'[p][a] = Loaded(f)
      /\ pagetable'[p][v] = Absent
      /\ \A b \in Page \ {a, v} : pagetable'[p][b] = pagetable[p][b]
      /\ \A q \in Process \ {p} : pagetable'[q] = pagetable[q]
  BY <1>1, <1>2, <1>7 DEF Inv, TypeOK
<1>9. TypeOK'
  <2>1. [pagetable[p] EXCEPT ![a] = Loaded(f), ![v] = Absent]
           \in [Page -> EntryType]
    BY <1>1, <1>2, <1>6 DEF Inv, TypeOK
  <2>2. pagetable' \in [Process -> [Page -> EntryType]]
    BY <1>1, <1>7, <2>1 DEF Inv, TypeOK
  <2> QED
    BY <1>5, <2>2 DEF Inv, TypeOK
<1>10. EntriesAgree'
  BY <1>1, <1>2, <1>3, <1>5, <1>8
  DEF Inv, FrameOwnership, EntriesAgree, Resident, Loaded
\* Who maps what has changed only at a and v.
<1>11. \A q \in Process, b \in Page :
          /\ pagetable[q][b].frame = f <=> q = p /\ b = v
          /\ pagetable'[q][b].frame = f <=> q = p /\ b = a
          /\ \A g \in Frame \ {f} :
                pagetable'[q][b].frame = g <=> pagetable[q][b].frame = g
  <2> SUFFICES ASSUME NEW q \in Process, NEW b \in Page
               PROVE  /\ pagetable[q][b].frame = f <=> q = p /\ b = v
                      /\ pagetable'[q][b].frame = f <=> q = p /\ b = a
                      /\ \A g \in Frame \ {f} :
                            pagetable'[q][b].frame = g <=> pagetable[q][b].frame = g
    OBVIOUS
  <2>1. pagetable[q][b].frame = f <=> q = p /\ b = v
    BY <1>1, <1>2, <1>3 DEF Inv, FrameOwnership, NoSharing, Resident, f
  <2>2. NoFrame \notin Frame
    BY ParamAssumption DEF NoFrame, Frame
  <2>3. CASE q # p
    BY <1>8, <2>1, <2>3
  <2>4. CASE q = p /\ b = a
    BY <1>1, <1>2, <1>8, <2>1, <2>2, <2>4 DEF Loaded, Resident
  <2>5. CASE q = p /\ b = v
    BY <1>2, <1>3, <1>8, <2>1, <2>2, <2>5 DEF Absent
  <2>6. CASE q = p /\ b \notin {a, v}
    BY <1>8, <2>1, <2>6
  <2> QED
    BY <2>3, <2>4, <2>5, <2>6
<1>12. NoSharing'
  <2> SUFFICES ASSUME NEW q \in Process, NEW r \in Process,
                      NEW b \in Page, NEW c \in Page,
                      Resident(q, b)', pagetable'[q][b].frame = pagetable'[r][c].frame
               PROVE  q = r /\ b = c
    BY DEF NoSharing
  <2>1. pagetable'[q][b].frame \in Frame
    BY <1>9 DEF TypeOK, EntryType, Resident
  <2> QED
    BY <1>11, <2>1 DEF Inv, FrameOwnership, NoSharing, Resident
<1>13. FreeListExact'
  BY <1>1, <1>2, <1>5, <1>11 DEF Inv, FrameOwnership, FreeListExact
<1>14. EndedHoldsNothing'
  <2> SUFFICES ASSUME NEW q \in ended, NEW b \in Page
               PROVE  ~Resident(q, b)'
    BY <1>5 DEF EndedHoldsNothing
  <2>1. q \in Process \ {p} /\ ~Resident(q, b)
    BY <1>1, <1>5 DEF Inv, TypeOK, EndedHoldsNothing, p, FaultReplace
  <2> QED
    BY <1>8, <2>1 DEF Resident
<1> QED
  BY <1>5, <1>9, <1>10, <1>12, <1>13, <1>14
  DEF Inv, FrameOwnership, RequestPending, CountedOnce

LEMMA FaultRetryInv ==
    ASSUME Inv, FaultRetry
    PROVE  Inv'
  BY DEF FaultRetry, tables, counts, Inv, TypeOK, FrameOwnership, EntriesAgree,
     NoSharing, FreeListExact, Resident, RequestPending, EndedHoldsNothing,
     CountedOnce

-----------------------------------------------------------------------------
(* A stuttering step keeps the invariant.                                  *)
LEMMA StutterInv ==
    ASSUME Inv, UNCHANGED vars
    PROVE  Inv'
  BY DEF vars, tables, counts, Inv, TypeOK, FrameOwnership, EntriesAgree,
     NoSharing, FreeListExact, Resident, RequestPending, EndedHoldsNothing,
     CountedOnce

LEMMA NextInv == Inv /\ [Next]_vars => Inv'
<1> SUFFICES ASSUME Inv, [Next]_vars
             PROVE  Inv'
  OBVIOUS
<1>1. ASSUME NEW p \in Process, Terminate(p)
      PROVE  Inv'
  BY <1>1, TerminateInv
<1>2. ASSUME NEW p \in Process, NEW a \in Page, IllegalReply(p, a)
      PROVE  Inv'
  BY <1>2, IllegalReplyInv
<1>3. ASSUME NEW p \in Process, NEW a \in Page, Hit(p, a)
      PROVE  Inv'
  BY <1>3, HitInv
<1>4. ASSUME NEW p \in Process, NEW a \in Page, FaultReply(p, a)
      PROVE  Inv'
  BY <1>4, FaultReplyInv
<1>5. CASE IllegalRelease
  BY <1>5, IllegalReleaseInv
<1>6. CASE FaultLoad
  BY <1>6, FaultLoadInv
<1>7. CASE FaultReplace
  BY <1>7, FaultReplaceInv
<1>8. CASE FaultRetry
  BY <1>8, FaultRetryInv
<1>9. CASE UNCHANGED vars
  BY <1>9, StutterInv
<1> QED
  BY <1>1, <1>2, <1>3, <1>4, <1>5, <1>6, <1>7, <1>8, <1>9 DEF Next

THEOREM Invariance == Spec => []Inv
  BY InitInv, NextInv, PTL DEF Spec

(* For any number of processes, pages and frames: no frame is mapped twice *)
(* and the free list marks exactly the mapped frames, whatever requests    *)
(* the MMU serves (mmu.c:160-270); and no entry and no search ever uses    *)
(* the index of the end marker of the free list (mmu.c:219-228).           *)
THEOREM OwnershipKept == Spec => []TablesAgree
<1>1. Inv => TablesAgree
  BY DEF Inv, TablesAgree
<1> QED
  BY <1>1, Invariance, PTL

(* A process that ended holds no frame once its release is done, and is    *)
(* counted once (mmu.c:160-199).                                           *)
THEOREM EndedCleanly == Spec => [](EndedHoldsNothing /\ CountedOnce)
<1>1. Inv => EndedHoldsNothing /\ CountedOnce
  BY DEF Inv
<1> QED
  BY <1>1, Invariance, PTL

-----------------------------------------------------------------------------
(* The timestamps of the loaded pages put them in the order of their last  *)
(* use (mmu.c:146, 202, 230, 252).  While a fault is handled the time of   *)
(* the request is no page's yet.                                           *)
Stamped ==
    \A p \in Process, a \in Page : Resident(p, a) =>
        /\ pagetable[p][a].ts <= timestamp
        /\ mmu = "fault" => pagetable[p][a].ts < timestamp
        /\ \A b \in Page :
              Resident(p, b) /\ pagetable[p][b].ts = pagetable[p][a].ts => b = a

(* What the second half of a branch does to the pages of the process it is *)
(* about; the others keep theirs.  First a fault with a free frame         *)
(* (mmu.c:224-232).                                                        *)
LEMMA LoadPuts ==
    ASSUME Inv, FaultLoad
    PROVE  LET p == msg3.pid
               a == msg3.page
               f == FirstFree
           IN /\ f \in Frame /\ sm2[f] = 1
              /\ pagetable'[p][a] = Loaded(f)
              /\ \A b \in Page \ {a} : pagetable'[p][b] = pagetable[p][b]
              /\ \A q \in Process \ {p} : pagetable'[q] = pagetable[q]
<1> DEFINE p == msg3.pid
           a == msg3.page
           f == FirstFree
<1>1. /\ p \in Process /\ a \in Page
      /\ pagetable \in [Process -> [Page -> EntryType]]
      /\ pagetable' = [pagetable EXCEPT ![p][a] = Loaded(f)]
  BY DEF Inv, TypeOK, FaultLoad
<1>2. f \in Frame /\ sm2[f] = 1
  <2>1. f \in 0 .. F /\ sm2[f] # 0 /\ sm2[f] # -1
    BY FirstFreeFound DEF Inv, FaultLoad
  <2>2. sm2[f] \in {-1, 0, 1} /\ f # F
    BY <2>1 DEF Inv, TypeOK
  <2> QED
    BY <2>1, <2>2, ParamAssumption DEF Frame
<1> HIDE DEF p, a, f
<1>3. /\ pagetable'[p][a] = Loaded(f)
      /\ \A b \in Page \ {a} : pagetable'[p][b] = pagetable[p][b]
      /\ \A q \in Process \ {p} : pagetable'[q] = pagetable[q]
  BY <1>1
<1> QED
  BY <1>2, <1>3 DEF p, a, f

(* Then one that takes the frame of the victim (mmu.c:238-257).            *)
LEMMA ReplacePuts ==
    ASSUME Inv, FaultReplace
    PROVE  LET p == msg3.pid
               a == msg3.page
               v == LRUVictim(p)
           IN /\ v \in Page /\ v # a /\ v \in Candidates(p)
              /\ pagetable[p][v].frame # NoFrame
              /\ pagetable'[p][a] = Loaded(pagetable[p][v].frame)
              /\ pagetable'[p][v] = Absent
              /\ \A b \in Page \ {a, v} : pagetable'[p][b] = pagetable[p][b]
              /\ \A q \in Process \ {p} : pagetable'[q] = pagetable[q]
<1> DEFINE p == msg3.pid
           a == msg3.page
           v == LRUVictim(p)
           f == pagetable[p][v].frame
<1>1. /\ p \in Process /\ a \in Page /\ ~Resident(p, a)
      /\ pagetable \in [Process -> [Page -> EntryType]]
      /\ pagetable' = [pagetable EXCEPT ![p][a] = Loaded(f), ![p][v] = Absent]
  BY DEF Inv, TypeOK, RequestPending, FaultReplace
<1>2. v \in Candidates(p) /\ v \in Page /\ Resident(p, v) /\ v # a
  <2>1. Candidates(p) # {}
    <3>1. LRUVictim(p) # NoPage
      BY DEF FaultReplace
    <3> QED
      BY <3>1 DEF LRUVictim
  <2>2. v \in Candidates(p)
    BY <1>1, <2>1, VictimFound DEF Inv
  <2>3. mi[p] \in 1 .. M
    BY <1>1 DEF Inv, TypeOK
  <2> QED
    BY <1>1, <2>2, <2>3, ParamAssumption DEF Candidates, Required, Page
<1>3. f # NoFrame
  BY <1>2 DEF Resident
<1> HIDE DEF p, a, v, f
<1>4. pagetable' = [pagetable EXCEPT ![p] =
                      [pagetable[p] EXCEPT ![a] = Loaded(f), ![v] = Absent]]
  BY <1>1, <1>2
<1>5. /\ pagetable'[p][a] = Loaded(f)
      /\ pagetable'[p][v] = Absent
      /\ \A b \in Page \ {a, v} : pagetable'[p][b] = pagetable[p][b]
      /\ \A q \in Process \ {p} : pagetable'[q] = pagetable[q]
  BY <1>1, <1>2, <1>4
<1> QED
  BY <1>2, <1>3, <1>5 DEF p, a, v, f

(* A page that gets the time of the request goes on top, whatever pages of *)
(* the process stay under it.                                              *)
LEMMA GoesOnTop ==
    ASSUME TypeOK, Stamped, timestamp' \in Nat, timestamp <= timestamp', mmu' = "recv",
           NEW p \in Process, NEW a \in Page, NEW S \in SUBSET (LoadedPages(p) \ {a}),
           \A q \in Process \ {p} : pagetable'[q] = pagetable[q],
           \A b \in S : pagetable'[p][b] = pagetable[p][b] /\ pagetable[p][b].ts < timestamp',
           \A b \in Page \ (S \cup {a}) : ~Resident(p, b)',
           Resident(p, a)', pagetable'[p][a].ts = timestamp'
    PROVE  LRU!Use(p, S, a) /\ Stamped'
<1>0. /\ timestamp \in Nat
      /\ \A q \in Process, b \in Page : pagetable[q][b].ts \in Nat
  BY ParamAssumption DEF TypeOK, EntryType, TimestampType
<1>1. S \subseteq Page /\ a \notin S /\ \A b \in S : Resident(p, b)
  BY DEF LoadedPages
<1>2. /\ LoadedPages(p)' = S \cup {a}
      /\ \A q \in Process \ {p} : LoadedPages(q)' = LoadedPages(q)
  BY <1>1 DEF LoadedPages, Resident
<1>3. Recency(p)' = (Recency(p) \cap (S \X S)) \cup (S \X {a})
  <2>1. ASSUME NEW b \in S, NEW c \in S
        PROVE  <<b, c>> \in Recency(p)' <=> <<b, c>> \in Recency(p)
    BY <1>1, <1>2 DEF Recency, LoadedPages
  <2>2. ASSUME NEW b \in S
        PROVE  <<b, a>> \in Recency(p)' /\ <<a, b>> \notin Recency(p)'
    BY <1>0, <1>1, <1>2 DEF Recency
  <2>3. <<a, a>> \notin Recency(p)'
    BY DEF Recency
  <2>4. \A bc \in Recency(p)' : \E b, c \in S \cup {a} : bc = <<b, c>>
    BY <1>2 DEF Recency
  <2>5. ASSUME NEW bc \in Recency(p)'
        PROVE  bc \in (Recency(p) \cap (S \X S)) \cup (S \X {a})
    <3>1. PICK b \in S \cup {a}, c \in S \cup {a} : bc = <<b, c>>
      BY <2>4
    <3> QED
      BY <2>1, <2>2, <2>3, <3>1
  <2>6. ASSUME NEW bc \in (Recency(p) \cap (S \X S)) \cup (S \X {a})
        PROVE  bc \in Recency(p)'
    <3>1. CASE bc \in Recency(p) \cap (S \X S)
      BY <2>1, <3>1
    <3>2. CASE bc \in S \X {a}
      <4>1. PICK b \in S : bc = <<b, a>>
        BY <3>2
      <4> QED
        BY <2>2, <4>1
    <3> QED
      BY <3>1, <3>2
  <2> QED
    BY <2>5, <2>6
<1>4. \A q \in Process \ {p} : Recency(q)' = Recency(q)
  BY <1>2 DEF Recency
<1>5. LRU!Use(p, S, a)
  <2>1. [q \in Process |-> LoadedPages(q)]' =
           [[q \in Process |-> LoadedPages(q)] EXCEPT ![p] = S \cup {a}]
    BY <1>2
  <2>2. [q \in Process |-> Recency(q)]' =
           [[q \in Process |-> Recency(q)] EXCEPT ![p] = (@ \cap (S \X S)) \cup (S \X {a})]
    BY <1>3, <1>4
  <2> QED
    BY <2>1, <2>2 DEF LRU!Use
<1>6. Stamped'
  <2>1. ASSUME NEW q \in Process \ {p}, NEW b \in Page, Resident(q, b)'
        PROVE  /\ pagetable'[q][b].ts <= timestamp'
               /\ \A c \in Page :
                     Resident(q, c)' /\ pagetable'[q][c].ts = pagetable'[q][b].ts => c = b
    BY <1>0, <2>1 DEF Stamped, Resident
  <2>2. \A b \in Page : Resident(p, b)' => b \in S \cup {a}
    OBVIOUS
  <2>3. ASSUME NEW b \in S \cup {a}
        PROVE  pagetable'[p][b].ts <= timestamp'
    BY <1>0, <1>1
  <2>4. ASSUME NEW b \in S \cup {a}, NEW c \in S \cup {a},
               pagetable'[p][c].ts = pagetable'[p][b].ts
        PROVE  c = b
    <3>1. CASE b \in S /\ c \in S
      BY <1>1, <2>4, <3>1 DEF Stamped
    <3>2. CASE b = a \/ c = a
      BY <1>0, <1>1, <2>4, <3>2
    <3> QED
      BY <3>1, <3>2
  <2> QED
    BY <2>1, <2>2, <2>3, <2>4 DEF Stamped
<1> QED
  BY <1>5, <1>6

LEMMA FreeFinite == IsFiniteSet(FreeFrames) /\ IsFiniteSet(Page)
<1>1. 0 \in Int /\ F-1 \in Int /\ M-1 \in Int
  BY ParamAssumption
<1>2. IsFiniteSet(Frame) /\ IsFiniteSet(Page)
  BY <1>1, FS_Interval DEF Frame, Page
<1>3. FreeFrames \in SUBSET Frame
  BY DEF FreeFrames
<1> QED
  BY <1>2, <1>3, FS_Subset

(* Counting means the same in LRUStack.                                    *)
LEMMA SameCount == ASSUME NEW S PROVE LRU!Cardinality(S) = Cardinality(S)
  BY DEF Cardinality, LRU!Cardinality

(* The frames a process holds are as many as its loaded pages, and none of *)
(* them is free already: each comes back once (mmu.c:162-169).             *)
LEMMA ComesBack ==
    ASSUME Inv, UNCHANGED <<mi, msg3>>, NEW p \in Process, Release(p)
    PROVE  LRU!Release(p)
<1> DEFINE L == LoadedPages(p)
           name == [b \in L |-> pagetable[p][b].frame]
           Given == {f \in Frame : \E b \in L : name[b] = f}
<1>1. /\ \A a \in Page : pagetable'[p][a] = Absent
      /\ \A q \in Process \ {p} : pagetable'[q] = pagetable[q]
  BY ReleaseFrees DEF Inv
<1>2. /\ LoadedPages(p)' = {} /\ Recency(p)' = {}
      /\ \A q \in Process \ {p} : LoadedPages(q)' = LoadedPages(q) /\ Recency(q)' = Recency(q)
  <2>1. LoadedPages(p)' = {}
    BY <1>1 DEF LoadedPages, Resident, Absent
  <2>2. \A q \in Process \ {p} : LoadedPages(q)' = LoadedPages(q)
    BY <1>1 DEF LoadedPages, Resident
  <2>3. Recency(p)' = {}
    BY <2>1 DEF Recency
  <2>4. \A q \in Process \ {p} : Recency(q)' = Recency(q)
    BY <1>1, <2>2 DEF Recency
  <2> QED
    BY <2>1, <2>2, <2>3, <2>4
<1>3. L \subseteq Page /\ IsFiniteSet(L) /\ IsFiniteSet(FreeFrames)
  <2>1. L \in SUBSET Page
    BY DEF LoadedPages
  <2> HIDE DEF L
  <2> QED
    BY <2>1, FreeFinite, FS_Subset
<1>4. \A b \in L : name[b] \in Frame /\ b \in Required(p) /\ sm2[name[b]] = 0
  <2> SUFFICES ASSUME NEW b \in L
               PROVE  pagetable[p][b].frame \in Frame /\ b \in Required(p)
                      /\ sm2[pagetable[p][b].frame] = 0
    OBVIOUS
  <2>1. b \in Page /\ Resident(p, b) /\ pagetable[p][b] \in EntryType /\ mi[p] \in 1 .. M
    BY DEF LoadedPages, Inv, TypeOK
  <2>2. pagetable[p][b].frame \in Frame
    BY <2>1 DEF Resident, EntryType
  <2>3. b \in Required(p)
    BY <2>1, ParamAssumption DEF Inv, FrameOwnership, EntriesAgree, Resident, Absent, Required, Page
  <2> QED
    BY <2>1, <2>2, <2>3 DEF Inv, FrameOwnership, FreeListExact
<1>5. IsFiniteSet(Given) /\ Cardinality(Given) = Cardinality(L)
  <2>1. \A b, c \in L : name[b] = name[c] => b = c
    BY DEF Inv, FrameOwnership, NoSharing, LoadedPages
  <2>2. name \in Surjection(L, Given)
    BY <1>4 DEF Surjection
  <2>3. name \in Injection(L, Given)
    BY <1>4, <2>1 DEF Injection, IsInjective
  <2> HIDE DEF L, name, Given
  <2> QED
    BY <1>3, <2>2, <2>3, FS_Surjection
<1>6. FreeFrames' = FreeFrames \cup Given
  <2>1. \A f \in Frame : sm2'[f] = IF f \in Given THEN 1 ELSE sm2[f]
    <3> SUFFICES ASSUME NEW f \in Frame
                 PROVE  (\E a \in Required(p) : pagetable[p][a].frame = f) <=> f \in Given
      BY ParamAssumption DEF Release, Frame
    <3>1. ASSUME NEW a \in Required(p), pagetable[p][a].frame = f
          PROVE  f \in Given
      <4>1. a \in Page
        BY ParamAssumption DEF Required, Page, Inv, TypeOK
      <4>2. Resident(p, a)
        BY <3>1, ParamAssumption DEF Resident, Frame, NoFrame
      <4> QED
        BY <3>1, <4>1, <4>2 DEF LoadedPages
    <3>2. ASSUME f \in Given
          PROVE  \E a \in Required(p) : pagetable[p][a].frame = f
      BY <1>4, <3>2
    <3> QED
      BY <3>1, <3>2
  <2> QED
    BY <2>1 DEF FreeFrames
<1>7. FreeFrames \cap Given = {}
  BY <1>4 DEF FreeFrames
<1>8. Cardinality(FreeFrames)' = Cardinality(FreeFrames) + Cardinality(L)
  <2>1. Cardinality(FreeFrames \cup Given) =
           Cardinality(FreeFrames) + Cardinality(Given) - Cardinality(FreeFrames \cap Given)
    BY <1>3, <1>5, FS_Union
  <2>2. Cardinality(FreeFrames) \in Nat /\ Cardinality(Given) \in Nat
    BY <1>3, <1>5, FS_CardinalityType
  <2>3. Cardinality(FreeFrames \cap Given) = 0
    BY <1>7, FS_EmptySet
  <2> HIDE DEF L, Given
  <2>4. Cardinality(FreeFrames \cup Given) = Cardinality(FreeFrames) + Cardinality(Given)
    BY <2>1, <2>2, <2>3
  <2> QED
    BY <1>5, <1>6, <2>4
<1>9. /\ [q \in Process |-> LoadedPages(q)]' =
             [[q \in Process |-> LoadedPages(q)] EXCEPT ![p] = {}]
       /\ [q \in Process |-> Recency(q)]' =
             [[q \in Process |-> Recency(q)] EXCEPT ![p] = {}]
  BY <1>2
<1>10. [q \in Process |-> LoadedPages(q)][p] = L
  OBVIOUS
<1> QED
  BY <1>8, <1>9, <1>10, SameCount DEF LRU!Release

(* Pages that are given back, or left alone, keep the order of the others. *)
LEMMA StampsKept ==
    ASSUME TypeOK, Stamped, timestamp' \in Nat, mmu' # "fault" \/ timestamp < timestamp',
           timestamp <= timestamp',
           \A q \in Process, b \in Page : pagetable'[q][b] \in {pagetable[q][b], Absent}
    PROVE  Stamped'
<1>1. /\ timestamp \in Nat
      /\ \A q \in Process, b \in Page : pagetable[q][b].ts \in Nat
  BY ParamAssumption DEF TypeOK, EntryType, TimestampType
<1>2. \A q \in Process, b \in Page :
         Resident(q, b)' => Resident(q, b) /\ pagetable'[q][b] = pagetable[q][b]
  BY DEF Resident, Absent, NoFrame
<1> QED
  BY <1>1, <1>2 DEF Stamped

LEMMA LoadsOnTop ==
    ASSUME Inv, Stamped, FaultLoad,
           NEW p \in Process, NEW a \in Page, msg3 = [pid |-> p, page |-> a]
    PROVE  LRU!Load(p, a) /\ Stamped'
<1>1. /\ ~Resident(p, a) /\ TypeOK /\ mmu = "fault"
      /\ UNCHANGED <<msg3, timestamp>> /\ mmu' = "recv" /\ timestamp \in Nat
      /\ sm2' = [sm2 EXCEPT ![FirstFree] = 0]
  BY ParamAssumption DEF Inv, RequestPending, TypeOK, FaultLoad
<1>2. PICK f \in Frame :
         /\ f = FirstFree /\ sm2[f] = 1
         /\ pagetable'[p][a] = Loaded(f)
         /\ \A b \in Page \ {a} : pagetable'[p][b] = pagetable[p][b]
         /\ \A q \in Process \ {p} : pagetable'[q] = pagetable[q]
  BY LoadPuts
<1>3. Resident(p, a)' /\ pagetable'[p][a].ts = timestamp'
  BY <1>1, <1>2, ParamAssumption DEF Loaded, Resident, Frame, NoFrame
<1>4. LRU!Use(p, LoadedPages(p), a) /\ Stamped'
  <2>1. LoadedPages(p) \in SUBSET (LoadedPages(p) \ {a})
    BY <1>1 DEF LoadedPages
  <2>2. \A b \in LoadedPages(p) : b \in Page \ {a} /\ pagetable[p][b].ts < timestamp
    BY <1>1 DEF Stamped, LoadedPages
  <2>3. \A b \in Page \ (LoadedPages(p) \cup {a}) : ~Resident(p, b)'
    BY <1>2 DEF LoadedPages, Resident
  <2>4. \A b \in LoadedPages(p) : pagetable'[p][b] = pagetable[p][b] /\ pagetable[p][b].ts < timestamp'
    BY <1>1, <1>2, <2>2
  <2>5. timestamp' \in Nat /\ timestamp <= timestamp'
    BY <1>1
  <2> QED
    BY <1>1, <1>2, <1>3, <2>1, <2>3, <2>4, <2>5, GoesOnTop
<1>5. Cardinality(FreeFrames) > 0 /\ Cardinality(FreeFrames)' = Cardinality(FreeFrames) - 1
  <2>1. f \in FreeFrames
    BY <1>2 DEF FreeFrames
  <2>2. FreeFrames' = FreeFrames \ {f}
    <3>1. \A g \in Frame : sm2'[g] = IF g = f THEN 0 ELSE sm2[g]
      BY <1>1, <1>2, ParamAssumption DEF TypeOK, Frame
    <3> QED
      BY <3>1 DEF FreeFrames
  <2>3. IsFiniteSet(FreeFrames)
    BY FreeFinite
  <2>4. Cardinality(FreeFrames \ {f}) = Cardinality(FreeFrames) - 1
    BY <2>1, <2>3, FS_RemoveElement
  <2>5. Cardinality(FreeFrames) \in Nat /\ Cardinality(FreeFrames \ {f}) \in Nat
    BY <2>3, FS_RemoveElement, FS_CardinalityType
  <2> QED
    BY <2>2, <2>4, <2>5
<1>6. a \notin [q \in Process |-> LoadedPages(q)][p]
  BY <1>1 DEF LoadedPages
<1>7. LRU!Load(p, a)
  <2>1. [q \in Process |-> LoadedPages(q)][p] = LoadedPages(p)
    BY <1>1
  <2> QED
    BY <1>1, <1>4, <1>5, <1>6, <2>1, SameCount DEF LRU!Load
<1> QED
  BY <1>4, <1>7

LEMMA ReplacesOldest ==
    ASSUME Inv, Stamped, FaultReplace,
           NEW p \in Process, NEW a \in Page, msg3 = [pid |-> p, page |-> a]
    PROVE  LRU!Replace(p, a) /\ Stamped'
<1>1. /\ ~Resident(p, a) /\ TypeOK /\ mmu = "fault"
      /\ timestamp \in Nat /\ mi[p] \in 1 .. M
  BY ParamAssumption DEF Inv, RequestPending, TypeOK, FaultReplace
<1>2. /\ UNCHANGED <<msg3, timestamp, sm2>> /\ mmu' = "recv"
      /\ sm2[FirstFree] = -1
  BY DEF FaultReplace
<1>3. PICK v \in Page, f \in Frame :
         /\ v # a /\ v = LRUVictim(p) /\ v \in Candidates(p)
         /\ pagetable'[p][a] = Loaded(f)
         /\ pagetable'[p][v] = Absent
         /\ \A b \in Page \ {a, v} : pagetable'[p][b] = pagetable[p][b]
         /\ \A q \in Process \ {p} : pagetable'[q] = pagetable[q]
  BY <1>1, ReplacePuts DEF TypeOK, EntryType
<1> DEFINE S == LoadedPages(p) \ {v}
\* The scan is over all loaded pages of p, and returns the oldest.
<1>4. /\ Candidates(p) = LoadedPages(p)
      /\ \A b \in Candidates(p) : pagetable[p][v].ts <= pagetable[p][b].ts
  <2>1. /\ \A b \in Page : pagetable[p][b].ts \in Nat
        /\ \A b \in LoadedPages(p) : pagetable[p][b].ts < IntMax
    BY <1>1, ParamAssumption DEF Stamped, LoadedPages, TypeOK, EntryType, TimestampType
  <2>2. \A b \in Page : Resident(p, b) => b \in Required(p)
    BY <1>1, ParamAssumption DEF Inv, FrameOwnership, EntriesAgree, Resident, Absent, Required, Page
  <2>3. Required(p) \subseteq Page
    BY <1>1, ParamAssumption DEF Required, Page
  <2>4. Candidates(p) = LoadedPages(p)
    BY <2>1, <2>2, <2>3 DEF Candidates, LoadedPages
  <2>5. \A b \in Candidates(p) : \/ pagetable[p][v].ts < pagetable[p][b].ts
                                 \/ pagetable[p][v].ts = pagetable[p][b].ts
    BY <1>1, <1>3, VictimFound DEF Inv
  <2>6. \A b \in Candidates(p) : pagetable[p][v].ts <= pagetable[p][b].ts
    BY <1>3, <2>1, <2>3, <2>5 DEF Candidates
  <2> QED
    BY <2>4, <2>6
<1>5. Resident(p, a)' /\ pagetable'[p][a].ts = timestamp'
  BY <1>2, <1>3, ParamAssumption DEF Loaded, Resident, Frame, NoFrame
<1>6. LRU!Use(p, S, a) /\ Stamped'
  <2>1. S \in SUBSET (LoadedPages(p) \ {a})
    BY <1>1 DEF LoadedPages
  <2>2. \A b \in S : b \in Page \ {a, v} /\ pagetable[p][b].ts < timestamp
    BY <1>1 DEF Stamped, LoadedPages
  <2>3. \A b \in Page \ (S \cup {a}) : ~Resident(p, b)'
    BY <1>3 DEF LoadedPages, Resident, Absent
  <2>4. \A b \in S : pagetable'[p][b] = pagetable[p][b] /\ pagetable[p][b].ts < timestamp'
    BY <1>2, <1>3, <2>2
  <2>5. timestamp' \in Nat /\ timestamp <= timestamp'
    BY <1>1, <1>2
  <2> HIDE DEF S
  <2> QED
    BY <1>1, <1>2, <1>3, <1>5, <2>1, <2>3, <2>4, <2>5, GoesOnTop
<1>7. Cardinality(FreeFrames) = 0 /\ FreeFrames' = FreeFrames
  <2>1. FirstFree = F /\ \A g \in 0 .. F-1 : sm2[g] = 0
    BY <1>1, <1>2, FirstFreeFound DEF TypeOK
  <2>2. FreeFrames = {}
    BY <2>1 DEF FreeFrames, Frame
  <2>3. FreeFrames' = FreeFrames
    BY <1>2 DEF FreeFrames
  <2> QED
    BY <2>2, <2>3, FS_EmptySet
<1>8. v \in LoadedPages(p) /\ \A b \in S : <<v, b>> \in Recency(p)
  <2>1. v \in LoadedPages(p)
    BY <1>3, <1>4
  <2>2. ASSUME NEW b \in S PROVE <<v, b>> \in Recency(p)
    <3>1. b \in LoadedPages(p) /\ b # v /\ b \in Page /\ Resident(p, b) /\ Resident(p, v)
      BY <2>1 DEF LoadedPages
    <3>2. pagetable[p][v].ts <= pagetable[p][b].ts
      BY <1>4, <3>1
    <3>3. pagetable[p][v].ts # pagetable[p][b].ts
      BY <1>1, <1>3, <3>1 DEF Stamped
    <3>4. pagetable[p][v].ts \in Nat /\ pagetable[p][b].ts \in Nat
      BY <1>1, <1>3, <3>1, ParamAssumption DEF TypeOK, EntryType, TimestampType
    <3>5. pagetable[p][v].ts < pagetable[p][b].ts
      BY <3>2, <3>3, <3>4
    <3> QED
      BY <2>1, <3>1, <3>5 DEF Recency
  <2> QED
    BY <2>1, <2>2
<1>9. LRU!Replace(p, a)
  <2>1. /\ [q \in Process |-> LoadedPages(q)][p] = LoadedPages(p)
        /\ [q \in Process |-> Recency(q)][p] = Recency(p)
        /\ a \notin LoadedPages(p)
    BY <1>1 DEF LoadedPages
  <2>2. LRU!Oldest(p, v)
    BY <1>8, <2>1 DEF LRU!Oldest
  <2> QED
    BY <1>1, <1>2, <1>6, <1>7, <1>8, <2>1, <2>2, SameCount DEF LRU!Replace
<1> QED
  BY <1>6, <1>9

(* Every step of the MMU is one of LRUStack, and keeps the stamps.         *)
LEMMA StepLRU ==
    ASSUME Inv, Stamped, [Next]_vars
    PROVE  Stamped' /\ [LRU!Next]_(LRU!vars)
<1>0. /\ timestamp \in Nat /\ TypeOK
      /\ msg3 \in [pid : Process, page : Page]
  BY ParamAssumption DEF Inv, TypeOK
<1>1. ASSUME NEW p \in Process, Terminate(p) \/ (IllegalRelease /\ p = msg3.pid)
      PROVE  Stamped' /\ LRU!Release(p)
  <2>1. Release(p) /\ UNCHANGED <<mi, msg3>> /\ mmu' = "recv" /\ timestamp' \in {timestamp, timestamp + 1}
    BY <1>1 DEF Terminate, Receive, IllegalRelease
  <2>2. timestamp' \in Nat /\ timestamp <= timestamp'
    BY <1>0, <2>1
  <2>3. \A q \in Process, b \in Page : pagetable'[q][b] \in {pagetable[q][b], Absent}
    BY <1>0, <2>1 DEF Release, TypeOK
  <2> QED
    BY <1>0, <2>1, <2>2, <2>3, ComesBack, StampsKept
<1>2. ASSUME NEW p \in Process, NEW a \in Page, IllegalReply(p, a) \/ FaultReply(p, a)
      PROVE  Stamped' /\ LRU!Miss(p, a)
  <2>1. UNCHANGED <<pagetable, sm2>> /\ timestamp' = timestamp + 1 /\ msg3' = [pid |-> p, page |-> a]
    BY <1>2 DEF IllegalReply, FaultReply, Receive, tables
  <2>2. ~Resident(p, a)
    <3>1. a >= mi[p] \/ ~InMemory(p, a)
      BY <1>2 DEF IllegalReply, FaultReply
    <3>2. \/ pagetable[p][a] = Absent
          \/ pagetable[p][a].valid = 1 /\ a < mi[p]
      BY DEF Inv, FrameOwnership, EntriesAgree
    <3>3. a \in Nat /\ mi[p] \in Nat
      BY <1>0, ParamAssumption DEF TypeOK, Page
    <3> QED
      BY <3>1, <3>2, <3>3 DEF InMemory, Resident, Absent
  <2>3. Stamped'
    BY <1>0, <2>1, StampsKept
  <2>4. /\ \A q \in Process : LoadedPages(q)' = LoadedPages(q) /\ Recency(q)' = Recency(q)
        /\ FreeFrames' = FreeFrames
    BY <2>1 DEF LoadedPages, Recency, Resident, FreeFrames
  <2>5. a \notin [q \in Process |-> LoadedPages(q)][p]
    BY <2>2 DEF LoadedPages
  <2> QED
    BY <2>1, <2>3, <2>4, <2>5, SameCount DEF LRU!Miss
<1>3. ASSUME NEW p \in Process, NEW a \in Page, Hit(p, a)
      PROVE  Stamped' /\ LRU!Touch(p, a)
  <2> DEFINE S == LoadedPages(p) \ {a}
  <2>1. /\ UNCHANGED sm2 /\ timestamp' = timestamp + 1 /\ msg3' = [pid |-> p, page |-> a]
        /\ mmu' = "recv" /\ Resident(p, a)
        /\ pagetable' = [pagetable EXCEPT ![p][a].ts = timestamp']
    BY <1>3 DEF Hit, Receive, InMemory
  <2>2. timestamp' \in Nat /\ timestamp <= timestamp' /\ timestamp < timestamp'
    BY <1>0, <2>1
  <2>3. /\ \A q \in Process \ {p} : pagetable'[q] = pagetable[q]
        /\ \A b \in Page \ {a} : pagetable'[p][b] = pagetable[p][b]
        /\ pagetable'[p][a].ts = timestamp' /\ pagetable'[p][a].frame = pagetable[p][a].frame
    BY <1>0, <2>1 DEF TypeOK, EntryType
  <2>4. Resident(p, a)' /\ \A b \in Page \ (S \cup {a}) : ~Resident(p, b)'
    BY <2>1, <2>3 DEF Resident, LoadedPages
  <2>5. \A b \in S : pagetable'[p][b] = pagetable[p][b] /\ pagetable[p][b].ts < timestamp'
    <3> SUFFICES ASSUME NEW b \in S PROVE pagetable[p][b].ts < timestamp'
      BY <2>3 DEF LoadedPages
    <3>1. pagetable[p][b].ts <= timestamp /\ pagetable[p][b].ts \in Nat
      BY <1>0, ParamAssumption DEF Stamped, LoadedPages, TypeOK, EntryType, TimestampType
    <3> QED
      BY <1>0, <2>2, <3>1
  <2>6. S \in SUBSET (LoadedPages(p) \ {a})
    OBVIOUS
  <2> HIDE DEF S
  <2>7. LRU!Use(p, S, a) /\ Stamped'
    BY <1>0, <2>1, <2>2, <2>3, <2>4, <2>5, <2>6, GoesOnTop
  <2>8. /\ [q \in Process |-> LoadedPages(q)][p] = LoadedPages(p)
        /\ a \in LoadedPages(p) /\ FreeFrames' = FreeFrames
    BY <2>1 DEF LoadedPages, FreeFrames
  <2> QED
    BY <2>1, <2>7, <2>8, SameCount DEF LRU!Touch, S
<1>4. ASSUME FaultLoad \/ FaultReplace
      PROVE  Stamped' /\ \E p \in Process, a \in Page : LRU!Load(p, a) \/ LRU!Replace(p, a)
  <2>1. PICK p \in Process, a \in Page : msg3 = [pid |-> p, page |-> a]
    BY <1>0
  <2> QED
    BY <1>4, <2>1, LoadsOnTop, ReplacesOldest
<1>5. ASSUME FaultRetry \/ UNCHANGED vars
      PROVE  Stamped' /\ UNCHANGED (LRU!vars)
  <2>1. UNCHANGED <<pagetable, sm2, timestamp, msg3>> /\ mmu' \in {"recv", mmu}
    BY <1>5 DEF FaultRetry, vars, tables
  <2>2. \A q \in Process : LoadedPages(q)' = LoadedPages(q) /\ Recency(q)' = Recency(q)
    BY <2>1 DEF LoadedPages, Recency, Resident
  <2>3. FreeFrames' = FreeFrames
    BY <2>1 DEF FreeFrames
  <2>4. Stamped'
    BY <2>1 DEF Stamped, Resident
  <2> QED
    BY <2>1, <2>2, <2>3, <2>4, SameCount DEF LRU!vars
<1>6. CASE \E p \in Process : Terminate(p)
  BY <1>1, <1>6 DEF LRU!Next
<1>7. CASE \E p \in Process, a \in Page : IllegalReply(p, a) \/ FaultReply(p, a)
  BY <1>2, <1>7 DEF LRU!Next
<1>8. CASE \E p \in Process, a \in Page : Hit(p, a)
  BY <1>3, <1>8 DEF LRU!Next
<1>9. CASE IllegalRelease
  BY <1>0, <1>1, <1>9 DEF LRU!Next
<1>10. CASE FaultLoad \/ FaultReplace
  BY <1>4, <1>10 DEF LRU!Next
<1> QED
  BY <1>5, <1>6, <1>7, <1>8, <1>9, <1>10 DEF Next

LEMMA InitLRU == Init => Stamped /\ LRU!Init
<1> SUFFICES ASSUME Init PROVE Stamped /\ LRU!Init
  OBVIOUS
<1>1. \A p \in Process, a \in Page : ~Resident(p, a)
  BY DEF Init, Resident, Absent
<1>2. \A p \in Process : LoadedPages(p) = {} /\ Recency(p) = {}
  BY <1>1 DEF LoadedPages, Recency
<1>3. Cardinality(FreeFrames) = F
  <2>1. FreeFrames = 0 .. F-1
    BY ParamAssumption DEF Init, FreeFrames, Frame
  <2>2. 0 \in Int /\ F-1 \in Int /\ (0 > F-1 => F = 0) /\ F-1-0+1 = F
    BY ParamAssumption
  <2> QED
    BY <2>1, <2>2, FS_Interval
<1>4. msg3 \in [pid : Process, page : Page]
  BY ParamAssumption DEF Init, NoRequest, Process, Page
<1> QED
  BY <1>1, <1>2, <1>3, <1>4, SameCount DEF Stamped, LRU!Init

THEOREM StampsInOrder == Spec => []Stamped
<1>1. Inv /\ Stamped /\ [Next]_vars => Stamped'
  BY StepLRU
<1>2. Init => Stamped
  BY InitLRU
<1> QED
  BY <1>1, <1>2, Invariance, PTL DEF Spec

(* For any number of processes, pages and frames, the frame search, the    *)
(* timestamps and the page tables of mmu.c:140-270 are demand paging with  *)
(* local LRU replacement: a process loses a page only to itself, and then  *)
(* the one it has not used for longest.                                    *)
THEOREM ImplementsLRU == Spec => LocalLRU
<1>1. Inv /\ Stamped /\ [Next]_vars => [LRU!Next]_(LRU!vars)
  BY StepLRU
<1>2. Init => LRU!Init
  BY InitLRU
<1> QED
  BY <1>1, <1>2, Invariance, StampsInOrder, PTL DEF Spec, LocalLRU, LRU!Spec

-----------------------------------------------------------------------------
(* The MMU inside the whole simulator.                                     *)

(* Only the MMU changes the tables (process.c and sched.c never attach     *)
(* SM1 or SM2).                                                            *)
LEMMA MasterKeepsTables == MasterNext => UNCHANGED vars
  BY DEF MasterNext, MasterLearnsMmu, MasterForks, MasterNotified,
     MasterKillsMmu, MasterRemoves, mmuVars

LEMMA SchedKeepsTables == SchedNext => UNCHANGED vars
  BY DEF SchedNext, SchedDispatch, SchedNotified, SchedExits, mmuVars

LEMMA ProcKeepsTables ==
    ASSUME NEW p \in Process, ProcNext(p)
    PROVE  UNCHANGED vars
<1> USE DEF Others, mmuVars
<1>1. CASE ChildExecs(p) \/ ProcEnqueues(p) \/ ProcScheduled(p)
  BY <1>1 DEF ChildExecs, ProcEnqueues, ProcScheduled
<1>2. CASE ProcRefers(p) \/ ProcEnds(p)
  BY <1>2 DEF ProcRefers, ProcEnds
<1>3. CASE ProcIllegal(p) \/ ProcFaults(p) \/ ProcGranted(p)
  BY <1>3 DEF ProcIllegal, ProcFaults, ProcGranted, ReceiveFrame
<1> QED
  BY <1>1, <1>2, <1>3 DEF ProcNext

(* Every step of mmu.c in the simulator is a step of DemandPaging.         *)
LEMMA MmuSteps == MmuNext => [Next]_vars
<1>1. CASE MmuStarts
  BY <1>1 DEF MmuStarts, mmuVars
<1>2. CASE MmuTerminates
  BY <1>2 DEF MmuTerminates, Next
<1>3. CASE MmuHit
  BY <1>3 DEF MmuHit, Next
<1>4. CASE MmuIllegalReply
  BY <1>4 DEF MmuIllegalReply, Next
<1>5. CASE MmuFaultReply
  BY <1>5 DEF MmuFaultReply, Next
<1>6. CASE MmuIllegalRelease \/ MmuFaultLoad \/ MmuFaultReplace \/ MmuFaultRetry
  BY <1>6 DEF MmuIllegalRelease, MmuFaultLoad, MmuFaultReplace, MmuFaultRetry,
     Next
<1> QED
  BY <1>1, <1>2, <1>3, <1>4, <1>5, <1>6 DEF MmuNext

(* The simulator implements DemandPaging: the queues never make the MMU    *)
(* do what its specification does not allow.                               *)
THEOREM SysImplementsMmu == SysSafety => Spec
<1>1. SysInit => Init
  BY DEF SysInit
<1>2. [SysNext]_sysVars => [Next]_vars
  BY MasterKeepsTables, SchedKeepsTables, ProcKeepsTables, MmuSteps
  DEF SysNext, sysVars
<1> QED
  BY <1>1, <1>2, PTL DEF SysSafety, Spec

(* In the whole simulator, for any number of processes, pages, frames and  *)
(* any reference strings, no frame is ever in two page table entries and   *)
(* none is lost (mmu.c:160-270).                                           *)
THEOREM SysOwnershipKept == SysSafety => []TablesAgree
  BY SysImplementsMmu, OwnershipKept, PTL

(* So is the whole simulator local LRU, whatever its processes ask for and *)
(* in whichever order their messages arrive.                               *)
THEOREM SysImplementsLRU == SysSafety => LocalLRU
  BY SysImplementsMmu, ImplementsLRU, PTL

-----------------------------------------------------------------------------
(* The turn.  The simulator has one CPU: at any time one process at most    *)
(* has the turn, in one of six places, and all the others are aside.        *)

InReady(p) == \E i \in 1 .. Len(ready) : ready[i] = p

\* Told to wait for the CPU again, or about to read that.
Waits(p) ==
    /\ p \notin ended
    /\ \/ proc[p] = "waitcpu" /\ reply[p] = <<>>
       \/ proc[p] = "waitmmu" /\ reply[p] = <<Fault>>

\* Counted as terminated, though it may have to read that yet.
Gone(p) ==
    /\ p \in ended
    /\ \/ proc[p] = "exited" /\ reply[p] = <<>>
       \/ proc[p] = "waitmmu" /\ reply[p] = <<Illegal>>

Young(p) ==
    /\ p \notin ended
    /\ proc[p] \in {"unborn", "forked", "start"} /\ reply[p] = <<>>

\* A process without the turn.
Aside(p) ==
    /\ dispatched[p] = 0
    /\ \/ Young(p) /\ ~InReady(p)
       \/ Waits(p) /\ InReady(p)
       \/ Gone(p) /\ ~InReady(p)

\* The scheduler has sent its message to p (sched.c:71-77).
Dispatched(p) ==
    /\ dispatched[p] = 1 /\ Waits(p)
    /\ request = <<>> /\ mmu = "recv" /\ mq2 = <<>>

Computing(p) ==
    /\ dispatched[p] = 0 /\ request = <<>> /\ mmu = "recv" /\ mq2 = <<>>
    /\ p \notin ended /\ proc[p] = "run" /\ reply[p] = <<>>

\* p has sent a request (process.c:89-96, 140-146).
Requesting(p) ==
    /\ dispatched[p] = 0 /\ mmu = "recv" /\ mq2 = <<>>
    /\ p \notin ended /\ reply[p] = <<>>
    /\ \/ /\ proc[p] = "waitmmu" /\ buf[p] \in Page
          /\ request = <<[pid |-> p, page |-> buf[p]]>>
       \/ proc[p] = "exited" /\ request = <<[pid |-> p, page |-> EndOfRefs]>>

\* The MMU has answered p, and not yet told the scheduler (mmu.c:178-270).
Branching(p) ==
    /\ dispatched[p] = 0 /\ request = <<>> /\ mq2 = <<>>
    /\ msg3.pid = p
    /\ \/ mmu = "fault" /\ Waits(p)
       \/ mmu = "illegal" /\ Gone(p)

\* p has been sent the frame of the page it asked for (mmu.c:200-213).
Answered(p) ==
    /\ dispatched[p] = 0 /\ request = <<>> /\ mmu = "recv" /\ mq2 = <<>>
    /\ p \notin ended /\ proc[p] = "waitmmu" /\ buf[p] \in Page
    /\ pagetable[p][buf[p]].frame \in Frame
    /\ reply[p] = <<pagetable[p][buf[p]].frame>>

\* The scheduler has been told of p, and has not read it (sched.c:83-96).
Reported(p) ==
    /\ dispatched[p] = 0 /\ request = <<>> /\ mmu = "recv"
    /\ \/ mq2 = <<Msg(1, p)>> /\ Waits(p)
       \/ mq2 = <<Msg(2, p)>> /\ Gone(p)

Holds(p) ==
    /\ ~InReady(p)
    /\ \/ Dispatched(p) \/ Computing(p) \/ Requesting(p)
       \/ Branching(p) \/ Answered(p) \/ Reported(p)

TurnTaken == \E p \in Process : Holds(p) /\ \A q \in Process \ {p} : Aside(q)

\* The MMU's pid is in MQ2 until the master reads it, before any process runs.
TurnFree ==
    /\ \A q \in Process : Aside(q)
    /\ request = <<>> /\ mmu = "recv"
    /\ mq2 = IF master = "mmupid" /\ mmu_life # "starting"
             THEN <<Msg(100, MmuPid)>> ELSE <<>>

ReadyOnce == \A i, j \in 1 .. Len(ready) : ready[i] = ready[j] => i = j

Up ==
    /\ ReadyOnce
    /\ sched = "mmu" => TurnTaken
    /\ sched # "mmu" => TurnFree

\* After the queues are removed.
Down == mq2 = <<>> /\ mmu = "recv" /\ \A p \in Process : ~Granted(p)

(* The start: processes are created one by one, register before they ask   *)
(* for anything, and none before the MMU's pid has arrived.                *)
Starting ==
    /\ master = "mmupid" => created = 0
    /\ master = "fork" => created < K
    /\ master # "mmupid" => mmu_life # "starting"
    /\ \A p \in Process : p >= created => proc[p] = "unborn"
    /\ \A p \in Process : proc[p] \notin {"unborn", "forked"} => p \in registered

(* The end: live counts the processes whose end the scheduler has not      *)
(* read, and what the others do follows from live = 0.                     *)
Counted == {p \in ended : ~(mmu = "illegal" /\ msg3.pid = p) /\ mq2 # <<Msg(2, p)>>}

LiveExact == live = Cardinality(Process \ Counted)

Ending ==
    /\ sched = "done" => live = 0
    /\ sync_sem = 1 => sched = "done" /\ master \notin {"kill", "remove", "done"}
    /\ master \in {"kill", "remove", "done"} => sched = "done"
    /\ master \in {"remove", "done"} => mmu_life = "killed"
    /\ master = "done" <=> ipc = "removed"

SysInv ==
    /\ SysTypeOK
    /\ Starting
    /\ LiveExact
    /\ Ending
    /\ ipc = "up" => Up
    /\ ipc = "removed" => Down

-----------------------------------------------------------------------------
(* The queues.                                                             *)

LEMMA Single ==
    ASSUME NEW x
    PROVE  /\ Append(<<>>, x) = <<x>> /\ Head(<<x>>) = x /\ Tail(<<x>>) = <<>>
           /\ <<x>> # <<>> /\ Len(<<x>>) = 1 /\ <<x>>[1] = x
  OBVIOUS

LEMMA ReadyGrows ==
    ASSUME ready \in Seq(Process), NEW p \in Process, ready' = Append(ready, p)
    PROVE  /\ \A q \in Process : InReady(q)' <=> InReady(q) \/ q = p
           /\ ReadyOnce /\ ~InReady(p) => ReadyOnce'
<1>1. /\ Len(ready) \in Nat /\ Len(ready') = Len(ready) + 1
      /\ ready'[Len(ready) + 1] = p
      /\ \A i \in 1 .. Len(ready) : ready'[i] = ready[i]
  OBVIOUS
<1>2. \A i \in 1 .. Len(ready') : i \in 1 .. Len(ready) \/ i = Len(ready) + 1
  BY <1>1
<1>3. \A q \in Process : InReady(q)' <=> InReady(q) \/ q = p
  BY <1>1, <1>2 DEF InReady
<1>4. ASSUME ReadyOnce, ~InReady(p) PROVE ReadyOnce'
  BY <1>1, <1>2, <1>4 DEF InReady, ReadyOnce
<1> QED
  BY <1>3, <1>4

LEMMA ReadyShrinks ==
    ASSUME ready \in Seq(Process), ready # <<>>, ready' = Tail(ready), ReadyOnce
    PROVE  /\ Head(ready) \in Process /\ InReady(Head(ready))
           /\ \A q \in Process : InReady(q)' <=> InReady(q) /\ q # Head(ready)
           /\ ReadyOnce'
<1>1. /\ Len(ready) \in Nat \ {0} /\ Len(ready') = Len(ready) - 1
      /\ Head(ready) = ready[1] /\ ready[1] \in Process
      /\ \A i \in 1 .. Len(ready) - 1 : ready'[i] = ready[i + 1]
  BY HeadTailProperties
<1>2. InReady(Head(ready))
  BY <1>1 DEF InReady
<1>3. ASSUME NEW q \in Process, InReady(q)' PROVE InReady(q) /\ q # Head(ready)
  <2>1. PICK i \in 1 .. Len(ready) - 1 : ready[i + 1] = q
    BY <1>1, <1>3 DEF InReady
  <2>2. i + 1 \in 1 .. Len(ready) /\ 1 \in 1 .. Len(ready) /\ i + 1 # 1
    BY <1>1
  <2> QED
    BY <1>1, <2>1, <2>2 DEF InReady, ReadyOnce
<1>4. ASSUME NEW q \in Process, InReady(q), q # Head(ready) PROVE InReady(q)'
  <2>1. PICK i \in 1 .. Len(ready) : ready[i] = q
    BY <1>4 DEF InReady
  <2>2. i # 1 /\ i - 1 \in 1 .. Len(ready') /\ (i - 1) + 1 = i
    BY <1>1, <1>4, <2>1
  <2> QED
    BY <1>1, <2>1, <2>2 DEF InReady
<1>5. ReadyOnce'
  <2> SUFFICES ASSUME NEW i \in 1 .. Len(ready'), NEW j \in 1 .. Len(ready'),
                      ready'[i] = ready'[j]
               PROVE  i = j
    BY DEF ReadyOnce
  <2>1. i + 1 \in 1 .. Len(ready) /\ j + 1 \in 1 .. Len(ready)
    BY <1>1
  <2>2. ready[i + 1] = ready[j + 1]
    BY <1>1
  <2>3. i + 1 = j + 1
    BY <2>1, <2>2 DEF ReadyOnce
  <2> QED
    BY <2>3, <1>1
<1> QED
  BY <1>1, <1>2, <1>3, <1>4, <1>5
-----------------------------------------------------------------------------
(* Who holds the turn, and how a step passes it on.                        *)

\* Whatever else happens, p stays where it is.
Same(p) ==
    /\ dispatched'[p] = dispatched[p]
    /\ proc'[p] = proc[p]
    /\ reply'[p] = reply[p]
    /\ p \in ended' <=> p \in ended
    /\ InReady(p)' <=> InReady(p)

LEMMA AsideKept == ASSUME NEW p \in Process, Aside(p), Same(p) PROVE Aside(p)'
  BY DEF Aside, Same, Young, Waits, Gone

LEMMA HoldsKept ==
    ASSUME NEW p \in Process, Holds(p), Same(p), buf'[p] = buf[p],
           UNCHANGED <<request, mmu, msg3, mq2, pagetable>>
    PROVE  Holds(p)'
<1> USE DEF Same
<1>1. (Waits(p)' <=> Waits(p)) /\ (Gone(p)' <=> Gone(p))
  BY DEF Waits, Gone
<1>2. CASE Dispatched(p)
  BY <1>1, <1>2 DEF Dispatched, Holds
<1>3. CASE Computing(p)
  BY <1>3 DEF Computing, Holds
<1>4. CASE Requesting(p)
  BY <1>4 DEF Requesting, Holds
<1>5. CASE Branching(p)
  BY <1>1, <1>5 DEF Branching, Holds
<1>6. CASE Answered(p)
  BY <1>6 DEF Answered, Holds
<1>7. CASE Reported(p)
  BY <1>1, <1>7 DEF Reported, Holds, Msg
<1> QED
  BY <1>2, <1>3, <1>4, <1>5, <1>6, <1>7 DEF Holds

\* In a step of any program but the scheduler the turn stays with whom it is
\* with, and the MMU counts nobody else as terminated.
StaysPut ==
    IF ipc = "up" /\ sched = "mmu"
    THEN \E h \in Process :
             Holds(h) /\ Holds(h)' /\ \A q \in Process \ {h} : q \in ended' <=> q \in ended
    ELSE ended' = ended

(* A step that leaves everyone with the turn or without it.                *)
LEMMA TurnKept ==
    ASSUME Up, ReadyOnce', UNCHANGED <<sched, request, mmu, mq2, ended>>,
           master' = "mmupid" /\ mmu_life' # "starting"
               <=> master = "mmupid" /\ mmu_life # "starting",
           \A q \in Process : (Aside(q) => Aside(q)') /\ (Holds(q) => Holds(q)')
    PROVE  Up' /\ StaysPut
<1>1. CASE sched = "mmu"
  <2>1. PICK h \in Process : Holds(h) /\ \A q \in Process \ {h} : Aside(q)
    BY <1>1 DEF Up, TurnTaken
  <2>2. Holds(h)' /\ \A q \in Process \ {h} : Aside(q)'
    BY <2>1
  <2> QED
    BY <1>1, <2>1, <2>2 DEF Up, TurnTaken, StaysPut
<1>2. CASE sched # "mmu"
  <2>1. TurnFree'
    BY <1>2 DEF Up, TurnFree
  <2> QED
    BY <1>2, <2>1 DEF Up, StaysPut
<1> QED
  BY <1>1, <1>2

(* A step of the one that holds the turn, after which it still holds it.   *)
LEMMA TurnMoves ==
    ASSUME NEW p \in Process, \A q \in Process \ {p} : Aside(q) /\ Same(q),
           Holds(p), Holds(p)', sched = "mmu", sched' = "mmu", ipc = "up", ReadyOnce'
    PROVE  Up' /\ StaysPut
<1>1. \A q \in Process \ {p} : Aside(q)'
  BY AsideKept
<1> QED
  BY <1>1 DEF Up, TurnTaken, StaysPut, Same

\* Each place of the turn is known by one thing in it.
HoldsAt(p, place) == place /\ sched = "mmu" /\ \A q \in Process \ {p} : Aside(q)

LEMMA WhoHolds ==
    ASSUME Up, NEW p \in Process
    PROVE  /\ dispatched[p] # 0 => HoldsAt(p, Dispatched(p) /\ ~InReady(p))
           /\ proc[p] = "run" => HoldsAt(p, Computing(p) /\ ~InReady(p))
           /\ request # <<>> /\ Head(request).pid = p
                 => HoldsAt(p, Requesting(p) /\ ~InReady(p))
           /\ mmu # "recv" /\ msg3.pid = p => HoldsAt(p, Branching(p) /\ ~InReady(p))
           /\ proc[p] = "waitmmu" /\ reply[p] # <<>>
                 /\ Head(reply[p]) \notin {Fault, Illegal}
                 => HoldsAt(p, Answered(p) /\ ~InReady(p))
<1> USE DEF HoldsAt
<1>1. ASSUME Aside(p)
      PROVE  /\ dispatched[p] = 0 /\ proc[p] # "run"
             /\ reply[p] \in {<<>>, <<Fault>>, <<Illegal>>}
  BY <1>1 DEF Aside, Young, Waits, Gone
<1>2. reply[p] \in {<<>>, <<Fault>>, <<Illegal>>}
         => reply[p] = <<>> \/ Head(reply[p]) \in {Fault, Illegal}
  BY Single
<1>3. CASE sched # "mmu"
  BY <1>1, <1>2, <1>3 DEF Up, TurnFree
<1>4. CASE sched = "mmu"
  <2>1. PICK h \in Process : Holds(h) /\ \A q \in Process \ {h} : Aside(q)
    BY <1>4 DEF Up, TurnTaken
  <2>2. CASE h # p
    <3>1. Aside(p)
      BY <2>1, <2>2
    <3>2. request # <<>> => Head(request).pid = h
      BY <2>1, Single DEF Holds, Dispatched, Computing, Requesting, Branching, Answered,
         Reported
    <3>3. mmu # "recv" => msg3.pid = h
      BY <2>1 DEF Holds, Dispatched, Computing, Requesting, Branching, Answered, Reported
    <3> QED
      BY <1>1, <1>2, <2>2, <3>1, <3>2, <3>3
  <2>3. CASE h = p
    <3>1. ~InReady(p) /\ \A q \in Process \ {p} : Aside(q)
      BY <2>1, <2>3 DEF Holds
    <3>2. CASE Dispatched(p)
      BY <1>2, <1>4, <3>1, <3>2 DEF Dispatched, Waits
    <3>3. CASE Computing(p)
      BY <1>4, <3>1, <3>3 DEF Computing
    <3>4. CASE Requesting(p)
      BY <1>4, <3>1, <3>4 DEF Requesting
    <3>5. CASE Branching(p)
      BY <1>2, <1>4, <3>1, <3>5 DEF Branching, Waits, Gone
    <3>6. CASE Answered(p)
      BY <1>4, <3>1, <3>6 DEF Answered
    <3>7. CASE Reported(p)
      BY <1>2, <1>4, <3>1, <3>7 DEF Reported, Waits, Gone
    <3> QED
      BY <2>1, <2>3, <3>2, <3>3, <3>4, <3>5, <3>6, <3>7 DEF Holds
  <2> QED
    BY <2>2, <2>3
<1> QED
  BY <1>3, <1>4

LEMMA WhoIsReported ==
    ASSUME Up, sched = "mmu", mq2 # <<>>
    PROVE  \E p \in Process : HoldsAt(p, Reported(p) /\ ~InReady(p))
<1>1. PICK p \in Process : Holds(p) /\ \A q \in Process \ {p} : Aside(q)
  BY DEF Up, TurnTaken
<1>2. Reported(p)
  BY <1>1 DEF Holds, Dispatched, Computing, Requesting, Branching, Answered
<1> QED
  BY <1>1, <1>2 DEF Holds, HoldsAt

(* Ends are counted when the scheduler reads them, so a step that neither  *)
(* ends a process nor has its end read leaves the count.                   *)
LEMMA CountKept ==
    ASSUME LiveExact, live' = live, Counted' = Counted
    PROVE  LiveExact'
  BY DEF LiveExact
-----------------------------------------------------------------------------
(* Types.                                                                  *)

(* The MMU's pid is alone in MQ2 when the master reads it (master.c:201).  *)
LEMMA PidAlone ==
    ASSUME SysInv, MasterLearnsMmu
    PROVE  /\ sched # "mmu" /\ mmu_life # "starting" /\ ipc = "up"
           /\ mq2 = <<Msg(100, MmuPid)>> /\ mq2' = <<>>
<1>1. master = "mmupid" /\ HasType(mq2, 100) /\ mq2' = Without(mq2, 100) /\ ipc = "up"
  BY DEF MasterLearnsMmu, SysInv, Ending, SysTypeOK
<1>2. \A p \in Process : proc[p] = "unborn"
  BY <1>1, ParamAssumption DEF SysInv, Starting, Process
<1>3. \A p \in Process : ~Holds(p)
  BY <1>2 DEF Holds, Dispatched, Computing, Requesting, Branching, Answered, Reported, Waits,
     Gone
<1>4. sched # "mmu" /\ TurnFree
  BY <1>1, <1>3 DEF SysInv, Up, TurnTaken
<1>5. mq2 = <<Msg(100, MmuPid)>> /\ mmu_life # "starting"
  BY <1>1, <1>4 DEF TurnFree, HasType
<1> DEFINE m == Msg(100, MmuPid)
<1>6. m.type = 100
  BY DEF Msg
<1> HIDE DEF m
<1>7. Without(<<m>>, 100) = SubSeq(<<m>>, 1, 0) \o SubSeq(<<m>>, 2, 1)
  <2> DEFINE q == <<m>>
             c == CHOOSE i \in 1 .. Len(q) : q[i].type = 100 /\ \A j \in 1 .. i - 1 : q[j].type # 100
  <2>1. Len(q) = 1 /\ q[1] = m
    OBVIOUS
  <2>2. Without(q, 100) = SubSeq(q, 1, c - 1) \o SubSeq(q, c + 1, Len(q))
    BY DEF Without
  <2> HIDE DEF q
  <2>3. \E i \in 1 .. Len(q) : q[i].type = 100 /\ \A j \in 1 .. i - 1 : q[j].type # 100
    BY <1>6, <2>1
  <2>4. c = 1
    BY <2>1, <2>3
  <2> HIDE DEF c
  <2>5. Without(q, 100) = SubSeq(q, 1, 0) \o SubSeq(q, 2, 1)
    BY <2>1, <2>2, <2>4
  <2> QED
    BY <2>5 DEF q
<1>8. SubSeq(<<m>>, 1, 0) = <<>> /\ SubSeq(<<m>>, 2, 1) = <<>>
  OBVIOUS
<1>9. Without(<<m>>, 100) = <<>>
  BY <1>7, <1>8
<1> QED
  BY <1>1, <1>4, <1>5, <1>9 DEF m

LEMMA MasterTypes == ASSUME SysInv, MasterNext PROVE SysTypeOK'
<1>pid. MasterLearnsMmu => mq2' = <<>>
  BY PidAlone
<1> USE DEF SysInv, SysTypeOK, procVars, schedVars, queues
<1>1. CASE MasterLearnsMmu
  <2>1. mq2' \in Seq([type : {1, 2, 100}, pid : Process \cup {MmuPid}])
    BY <1>1, <1>pid
  <2> QED
    BY <1>1, <2>1 DEF MasterLearnsMmu
<1>2. CASE MasterForks
  <2>1. created \in Process /\ created + 1 \in 0 .. K
    BY <1>2, ParamAssumption DEF MasterForks, Starting, Process
  <2> QED
    BY <1>2, <2>1 DEF MasterForks
<1>3. CASE MasterNotified
  BY <1>3 DEF MasterNotified
<1>4. CASE MasterKillsMmu
  BY <1>4 DEF MasterKillsMmu
<1>5. CASE MasterRemoves
  BY <1>5 DEF MasterRemoves
<1> QED
  BY <1>1, <1>2, <1>3, <1>4, <1>5 DEF MasterNext

LEMMA ProcTypes ==
    ASSUME SysTypeOK, NEW p \in Process, ProcNext(p)
    PROVE  SysTypeOK'
<1> USE DEF SysTypeOK, Others, masterVars, schedVars
<1>1. CASE ChildExecs(p)
  BY <1>1 DEF ChildExecs
<1>2. CASE ProcEnqueues(p)
  BY <1>2 DEF ProcEnqueues
<1>3. CASE ProcScheduled(p)
  <2>1. dispatched[p] - 1 \in Nat
    BY <1>3 DEF ProcScheduled
  <2> QED
    BY <1>3, <2>1 DEF ProcScheduled
<1>sent. ASSUME NEW a \in Page \cup {EndOfRefs}, SendToMmu(p, a)
      PROVE  request' \in Seq([pid : Process, page : Page \cup {EndOfRefs}])
  <2>1. [pid |-> p, page |-> a] \in [pid : Process, page : Page \cup {EndOfRefs}]
    OBVIOUS
  <2>2. Append(request, [pid |-> p, page |-> a])
           \in Seq([pid : Process, page : Page \cup {EndOfRefs}])
    BY <2>1, AppendProperties
  <2> QED
    BY <1>sent, <2>2 DEF SendToMmu
<1>4. CASE ProcRefers(p)
  <2>1. refs[p] \in Seq(Page) /\ index[p] \in 1 .. Len(refs[p])
    BY <1>4, RefStringAssumption DEF ProcRefers
  <2>2. refs[p][index[p]] \in Page
    BY <2>1
  <2>3. request' \in Seq([pid : Process, page : Page \cup {EndOfRefs}])
    BY <1>4, <1>sent, <2>2 DEF ProcRefers
  <2> QED
    BY <1>4, <2>2, <2>3 DEF ProcRefers
<1>5. CASE ProcEnds(p)
  <2>1. request' \in Seq([pid : Process, page : Page \cup {EndOfRefs}])
    BY <1>5, <1>sent DEF ProcEnds
  <2> QED
    BY <1>5, <2>1 DEF ProcEnds
<1>6. ASSUME NEW frame, ReceiveFrame(p, frame)
      PROVE  /\ reply' \in [Process -> Seq(Frame \cup {Fault, Illegal})]
             /\ frame \in Page \cup Frame \cup {Fault, Illegal, EndOfRefs}
                  => buf' \in [Process -> Page \cup Frame \cup {Fault, Illegal, EndOfRefs}]
  <2>1. reply[p] \in Seq(Frame \cup {Fault, Illegal})
    OBVIOUS
  <2>2. reply[p] # <<>> => Tail(reply[p]) \in Seq(Frame \cup {Fault, Illegal})
    BY <2>1
  <2>3. reply' \in [Process -> Seq(Frame \cup {Fault, Illegal})]
    BY <1>6, <2>2 DEF ReceiveFrame
  <2> QED
    BY <1>6, <2>3 DEF ReceiveFrame
<1>7. CASE ProcIllegal(p)
  BY <1>6, <1>7 DEF ProcIllegal, ReceiveFrame
<1>8. CASE ProcFaults(p)
  BY <1>6, <1>8 DEF ProcFaults, ReceiveFrame
<1>9. CASE ProcGranted(p)
  <2>1. PICK frame \in Frame \cup Page : ReceiveFrame(p, frame) /\ proc' = [proc EXCEPT ![p] = "run"]
                                        /\ index' = [index EXCEPT ![p] = @ + 1]
    BY <1>9 DEF ProcGranted
  <2>2. index' \in [Process -> Nat \ {0}]
    BY <2>1
  <2> QED
    BY <1>6, <2>1, <2>2 DEF ReceiveFrame
<1> QED
  BY <1>1, <1>2, <1>3, <1>4, <1>5, <1>7, <1>8, <1>9 DEF ProcNext

LEMMA MmuTypes == ASSUME SysTypeOK, TypeOK, TypeOK', MmuNext PROVE SysTypeOK'
<1>0. ASSUME Untouched,
             mq2' \in Seq([type : {1, 2, 100}, pid : Process \cup {MmuPid}]),
             request' \in Seq([pid : Process, page : Page \cup {EndOfRefs}]),
             reply' \in [Process -> Seq(Frame \cup {Fault, Illegal})]
      PROVE  SysTypeOK'
  BY <1>0 DEF SysTypeOK, Untouched, masterVars, schedVars, procVars
<1>00. /\ mq2 \in Seq([type : {1, 2, 100}, pid : Process \cup {MmuPid}])
       /\ request \in Seq([pid : Process, page : Page \cup {EndOfRefs}])
       /\ reply \in [Process -> Seq(Frame \cup {Fault, Illegal})]
  BY DEF SysTypeOK
<1>1. ASSUME NEW type \in {1, 2}, NEW p \in Process, Notify(type, p)
      PROVE  mq2' \in Seq([type : {1, 2, 100}, pid : Process \cup {MmuPid}])
  BY <1>00, <1>1 DEF Notify, Msg
<1>2. ASSUME NEW p \in Process, NEW frame \in Frame \cup {Fault, Illegal}, Answer(p, frame)
      PROVE  reply' \in [Process -> Seq(Frame \cup {Fault, Illegal})]
  BY <1>00, <1>2 DEF Answer
<1>3. ASSUME NEW p \in Process, NEW page, Serve(p, page)
      PROVE  request' \in Seq([pid : Process, page : Page \cup {EndOfRefs}])
  BY <1>00, <1>3 DEF Serve
<1>4. CASE MmuStarts
  <2>1. mq2' \in Seq([type : {1, 2, 100}, pid : Process \cup {MmuPid}])
    BY <1>00, <1>4 DEF MmuStarts, Msg
  <2> QED
    BY <1>4, <2>1 DEF MmuStarts, SysTypeOK, masterVars, schedVars, procVars
<1>5. CASE MmuTerminates
  <2>1. PICK p \in Process :
            Serve(p, EndOfRefs) /\ Notify(2, p) /\ UNCHANGED reply /\ Untouched
    BY <1>5 DEF MmuTerminates
  <2> QED
    BY <1>0, <1>00, <1>1, <1>3, <2>1
<1>6. CASE MmuHit
  <2>1. PICK p \in Process, a \in Page :
            /\ Serve(p, a) /\ Hit(p, a) /\ Answer(p, pagetable[p][a].frame)
            /\ UNCHANGED mq2 /\ Untouched
    BY <1>6 DEF MmuHit
  <2>2. pagetable[p][a] \in EntryType /\ pagetable[p][a].frame # NoFrame
    BY <2>1 DEF TypeOK, Hit, InMemory, Resident
  <2>3. pagetable[p][a].frame \in Frame
    BY <2>2 DEF EntryType
  <2> QED
    BY <1>0, <1>00, <1>2, <1>3, <2>1, <2>3
<1>7. CASE MmuIllegalReply \/ MmuFaultReply
  <2>1. PICK p \in Process, a \in Page, frame \in {Fault, Illegal} :
            Serve(p, a) /\ Answer(p, frame) /\ UNCHANGED mq2 /\ Untouched
    BY <1>7 DEF MmuIllegalReply, MmuFaultReply
  <2> QED
    BY <1>0, <1>00, <1>2, <1>3, <2>1
<1>8. CASE MmuIllegalRelease \/ MmuFaultLoad \/ MmuFaultReplace \/ MmuFaultRetry
  <2>1. PICK type \in {1, 2} : Finish(type)
    BY <1>8 DEF MmuIllegalRelease, MmuFaultLoad, MmuFaultReplace, MmuFaultRetry
  <2>2. msg3.pid \in Process
    BY DEF TypeOK
  <2>3. UNCHANGED <<request, reply>> /\ Untouched /\ Notify(type, msg3.pid)
    BY <2>1 DEF Finish
  <2> QED
    BY <1>0, <1>00, <1>1, <2>2, <2>3
<1> QED
  BY <1>4, <1>5, <1>6, <1>7, <1>8 DEF MmuNext
-----------------------------------------------------------------------------
(* The steps of the master.                                                *)

LEMMA AllKept ==
    ASSUME Up, UNCHANGED <<dispatched, proc, reply, ended, ready, buf, request, mmu, msg3,
                           mq2, pagetable, sched>>,
           master' = "mmupid" /\ mmu_life' # "starting"
               <=> master = "mmupid" /\ mmu_life # "starting"
    PROVE  Up' /\ StaysPut
<1>1. \A q \in Process : Same(q)
  BY DEF Same, InReady
<1>2. ReadyOnce'
  BY DEF Up, ReadyOnce
<1>3. \A q \in Process : (Aside(q) => Aside(q)') /\ (Holds(q) => Holds(q)')
  BY <1>1, AsideKept, HoldsKept
<1> QED
  BY <1>2, <1>3, TurnKept

LEMMA MasterInv == ASSUME SysInv, MasterNext PROVE SysInv' /\ StaysPut
<1> USE DEF procVars, schedVars, queues, mmuVars, vars, tables
<1>1. SysTypeOK'
  BY MasterTypes
<1>2. CASE MasterLearnsMmu
  <2>1. /\ master = "mmupid" /\ master' = "fork" /\ sched # "mmu" /\ mmu_life # "starting"
        /\ ipc = "up" /\ mq2 = <<Msg(100, MmuPid)>> /\ mq2' = <<>>
        /\ UNCHANGED <<dispatched, proc, reply, ended, ready, request, mmu, msg3, sched, live,
                       created, registered, mmu_life, sync_sem, ipc>>
    BY <1>2, PidAlone DEF MasterLearnsMmu
  <2>2. Starting'
    BY <2>1, ParamAssumption DEF SysInv, Starting
  <2>3. LiveExact'
    <3>1. \A p : <<Msg(100, MmuPid)>> # <<Msg(2, p)>> /\ <<>> # <<Msg(2, p)>>
      BY DEF Msg
    <3>2. Counted' = Counted
      BY <2>1, <3>1 DEF Counted
    <3> QED
      BY <2>1, <3>2, CountKept DEF SysInv
  <2>4. Ending'
    BY <2>1 DEF SysInv, Ending
  <2>5. Up'
    <3>1. \A q \in Process : Same(q) /\ Aside(q)
      BY <2>1 DEF SysInv, Up, TurnFree, Same, InReady
    <3>2. \A q \in Process : Aside(q)'
      BY <3>1, AsideKept
    <3> QED
      BY <2>1, <3>2 DEF SysInv, Up, TurnFree, ReadyOnce
  <2> QED
    BY <1>1, <2>1, <2>2, <2>3, <2>4, <2>5 DEF SysInv, StaysPut
<1>3. CASE MasterForks
  <2>1. /\ master = "fork" /\ created \in Process /\ proc[created] = "unborn"
        /\ created' = created + 1 /\ proc' = [proc EXCEPT ![created] = "forked"]
        /\ master' = IF created + 1 = K THEN "wait" ELSE "fork"
        /\ UNCHANGED <<dispatched, reply, ended, ready, buf, request, mmu, msg3, mq2,
                       pagetable, sched, live, registered, mmu_life, sync_sem, ipc>>
    BY <1>3, ParamAssumption DEF MasterForks, SysInv, SysTypeOK, Starting, Process
  <2>2. Starting'
    BY <2>1, ParamAssumption DEF SysInv, Starting, SysTypeOK, Process
  <2>3. LiveExact'
    BY <2>1, CountKept DEF SysInv, Counted
  <2>4. Ending'
    BY <2>1 DEF SysInv, Ending
  <2>5. ASSUME Up PROVE Up' /\ StaysPut
    <3>0. PICK c \in Process : c = created
      BY <2>1
    <3>1. \A q \in Process : q # c => Same(q)
      BY <2>1, <3>0 DEF Same, InReady, SysInv, SysTypeOK
    <3>2. proc'[c] = "forked"
      BY <2>1, <3>0 DEF SysInv, SysTypeOK
    <3>3. ~Holds(c)
      BY <2>1, <3>0 DEF Holds, Dispatched, Computing, Requesting, Branching, Answered, Reported,
         Waits, Gone
    <3>4. Aside(c) => Aside(c)'
      BY <2>1, <3>0, <3>2 DEF Aside, Young, Waits, Gone, InReady
    <3>5. \A q \in Process : (Aside(q) => Aside(q)') /\ (Holds(q) => Holds(q)')
      BY <2>1, <3>0, <3>1, <3>3, <3>4, AsideKept, HoldsKept
    <3>6. ReadyOnce'
      BY <2>1, <3>0, <2>5 DEF Up, ReadyOnce
    <3> QED
      BY <2>1, <3>0, <2>5, <3>5, <3>6, TurnKept
  <2>6. ipc = "removed" => Down'
    BY <2>1 DEF SysInv, Down, Granted
  <2> QED
    BY <1>1, <2>1, <2>2, <2>3, <2>4, <2>5, <2>6 DEF SysInv, SysTypeOK, StaysPut
<1>4. CASE MasterNotified
  <2>1. /\ master = "wait" /\ sync_sem = 1 /\ sync_sem' = 0 /\ master' = "kill"
        /\ UNCHANGED <<dispatched, proc, reply, ended, ready, buf, request, mmu, msg3, mq2,
                       pagetable, sched, live, created, registered, mmu_life, ipc>>
    BY <1>4 DEF MasterNotified, SysInv, SysTypeOK
  <2>2. Starting'
    BY <2>1 DEF SysInv, Starting
  <2>3. LiveExact'
    BY <2>1, CountKept DEF SysInv, Counted
  <2>4. Ending'
    BY <2>1 DEF SysInv, Ending
  <2>5. Up => Up' /\ StaysPut
    BY <2>1, AllKept
  <2>6. ipc = "removed" => Down'
    BY <2>1 DEF SysInv, Down, Granted
  <2> QED
    BY <1>1, <2>1, <2>2, <2>3, <2>4, <2>5, <2>6 DEF SysInv, SysTypeOK, StaysPut
<1>5. CASE MasterKillsMmu
  <2>1. /\ master = "kill" /\ mmu_life' = "killed" /\ master' = "remove"
        /\ UNCHANGED <<dispatched, proc, reply, ended, ready, buf, request, mmu, msg3, mq2,
                       pagetable, sched, live, created, registered, sync_sem, ipc>>
    BY <1>5 DEF MasterKillsMmu
  <2>2. Starting'
    BY <2>1 DEF SysInv, Starting
  <2>3. LiveExact'
    BY <2>1, CountKept DEF SysInv, Counted
  <2>4. Ending'
    BY <2>1 DEF SysInv, Ending
  <2>5. Up => Up' /\ StaysPut
    BY <2>1, AllKept
  <2>6. ipc = "removed" => Down'
    BY <2>1 DEF SysInv, Down, Granted
  <2> QED
    BY <1>1, <2>1, <2>2, <2>3, <2>4, <2>5, <2>6 DEF SysInv, SysTypeOK, StaysPut
<1>6. CASE MasterRemoves
  <2>1. /\ master = "remove" /\ ipc' = "removed" /\ master' = "done"
        /\ UNCHANGED <<dispatched, proc, reply, ended, ready, buf, request, mmu, msg3, mq2,
                       pagetable, sched, live, created, registered, sync_sem, mmu_life>>
    BY <1>6 DEF MasterRemoves
  <2>2. Starting'
    BY <2>1 DEF SysInv, Starting
  <2>3. LiveExact'
    BY <2>1, CountKept DEF SysInv, Counted
  <2>4. Ending'
    BY <2>1 DEF SysInv, Ending
  <2>5. ipc = "up" /\ sched # "mmu"
    BY <2>1 DEF SysInv, Ending, SysTypeOK
  <2>6. TurnFree
    BY <2>5 DEF SysInv, Up
  <2>7. \A q \in Process : ~Granted(q)
    <3> SUFFICES ASSUME NEW q \in Process PROVE ~Granted(q)
      OBVIOUS
    <3>1. reply[q] \in {<<>>, <<Fault>>, <<Illegal>>}
      BY <2>6 DEF TurnFree, Aside, Young, Waits, Gone
    <3>2. Fault \notin Frame /\ Illegal \notin Frame
      BY ParamAssumption DEF Fault, Illegal, Frame
    <3> QED
      BY <3>1, <3>2 DEF Granted
  <2>8. Down'
    BY <2>1, <2>6, <2>7 DEF Down, TurnFree, Granted
  <2> QED
    BY <1>1, <2>1, <2>2, <2>3, <2>4, <2>5, <2>8 DEF SysInv, StaysPut
<1> QED
  BY <1>2, <1>3, <1>4, <1>5, <1>6 DEF MasterNext
-----------------------------------------------------------------------------
(* The steps of the scheduler.                                             *)

LEMMA ProcessFinite == IsFiniteSet(Process) /\ Cardinality(Process) = K
<1>1. 0 \in Int /\ K - 1 \in Int /\ K \in Nat \ {0}
  BY ParamAssumption
<1>2. IsFiniteSet(0 .. K - 1) /\ Cardinality(0 .. K - 1) = K
  BY <1>1, FS_Interval
<1> QED
  BY <1>2 DEF Process

(* A process that is past its exec: the master knows the MMU.              *)
LEMMA MasterPast ==
    ASSUME SysTypeOK, Starting, NEW p \in Process, Waits(p) \/ Gone(p)
    PROVE  master # "mmupid" /\ mmu_life # "starting"
<1>1. proc[p] # "unborn"
  BY DEF Waits, Gone
<1>2. p >= 0
  BY ParamAssumption DEF Process
<1> QED
  BY <1>1, <1>2 DEF Starting

LEMMA DispatchInv == ASSUME SysInv, SchedDispatch PROVE SysInv'
<1>0. SysTypeOK /\ Starting /\ LiveExact /\ Ending /\ (ipc = "up" => Up)
  BY DEF SysInv
<1>1. /\ sched = "ready" /\ ready # <<>> /\ sched' = "mmu" /\ ready' = Tail(ready)
      /\ dispatched' = [dispatched EXCEPT ![Head(ready)] = @ + 1]
      /\ UNCHANGED <<refs, master, created, registered, sync_sem, ipc, live, mq2, request,
                     reply, mmu_life, proc, index, buf, mmu, msg3, ended, pagetable>>
  BY DEF SchedDispatch, mmuVars, vars, tables, masterVars, procVars
<1>2. ipc = "up" /\ Up /\ TurnFree /\ ReadyOnce
  BY <1>0, <1>1 DEF Ending, SysTypeOK, Up
<1>3. ready \in Seq(Process)
  BY <1>0 DEF SysTypeOK
<1>4. /\ Head(ready) \in Process /\ InReady(Head(ready)) /\ ReadyOnce'
      /\ \A q \in Process : InReady(q)' <=> InReady(q) /\ q # Head(ready)
  BY <1>1, <1>2, <1>3, ReadyShrinks
<1>5. PICK p \in Process : p = Head(ready)
  BY <1>4
<1>6. InReady(p) /\ \A q \in Process : InReady(q)' <=> InReady(q) /\ q # p
  BY <1>4, <1>5
<1>7. dispatched[p] = 0 /\ Waits(p)
  BY <1>2, <1>6 DEF TurnFree, Aside
<1>8. dispatched \in [Process -> Nat] /\ dispatched' = [dispatched EXCEPT ![p] = @ + 1]
  BY <1>0, <1>1, <1>5 DEF SysTypeOK
<1>9. master # "mmupid" /\ mq2 = <<>>
  BY <1>0, <1>2, <1>7, MasterPast DEF TurnFree
<1>10. Dispatched(p)'
  BY <1>1, <1>2, <1>7, <1>8, <1>9 DEF Dispatched, TurnFree, Waits
<1>11. Holds(p)'
  BY <1>6, <1>10 DEF Holds
<1>12. \A q \in Process \ {p} : Aside(q) /\ Same(q)
  BY <1>1, <1>2, <1>6, <1>8 DEF TurnFree, Same
<1>13. Up'
  BY <1>1, <1>4, <1>11, <1>12, AsideKept DEF Up, TurnTaken
<1>14. ready' \in Seq(Process) /\ dispatched' \in [Process -> Nat]
  BY <1>1, <1>3, <1>8
<1>15. SysTypeOK'
  BY <1>0, <1>1, <1>14 DEF SysTypeOK
<1>16. Starting' /\ Ending'
  BY <1>0, <1>1 DEF Starting, Ending
<1>17. LiveExact'
  BY <1>0, <1>1, CountKept DEF Counted
<1> QED
  BY <1>1, <1>2, <1>13, <1>15, <1>16, <1>17 DEF SysInv

(* The scheduler reads that a process faulted, and queues it again; or     *)
(* that it ended, and counts it, for the first and only time.              *)
LEMMA NotifiedInv == ASSUME SysInv, SchedNotified PROVE SysInv'
<1>0. SysTypeOK /\ Starting /\ LiveExact /\ Ending /\ (ipc = "up" => Up)
  BY DEF SysInv
<1>1. /\ sched = "mmu" /\ mq2 # <<>> /\ sched' = "ready" /\ mq2' = Tail(mq2)
      /\ ready' = IF Head(mq2).type = 1 THEN Append(ready, Head(mq2).pid) ELSE ready
      /\ live' = IF Head(mq2).type = 2 THEN live - 1 ELSE live
      /\ UNCHANGED <<refs, master, created, registered, sync_sem, ipc, dispatched, request,
                     reply, mmu_life, proc, index, buf, mmu, msg3, ended, pagetable>>
  BY DEF SchedNotified, mmuVars, vars, tables, masterVars, procVars
<1>2. ipc = "up" /\ Up /\ ReadyOnce
  BY <1>0, <1>1 DEF Ending, SysTypeOK, Up
<1>3. PICK p \in Process : HoldsAt(p, Reported(p) /\ ~InReady(p))
  BY <1>1, <1>2, WhoIsReported
<1>4. /\ ~InReady(p) /\ \A q \in Process \ {p} : Aside(q)
      /\ dispatched[p] = 0 /\ request = <<>> /\ mmu = "recv"
      /\ \/ mq2 = <<Msg(1, p)>> /\ Waits(p)
         \/ mq2 = <<Msg(2, p)>> /\ Gone(p)
  BY <1>3 DEF HoldsAt, Reported
<1>5. master # "mmupid"
  BY <1>0, <1>4, MasterPast
<1>6. Starting' /\ Ending'
  BY <1>0, <1>1 DEF Starting, Ending
<1>7. ready \in Seq(Process)
  BY <1>0 DEF SysTypeOK
<1>8. ASSUME ReadyOnce', \A q \in Process \ {p} : InReady(q)' <=> InReady(q),
             mq2' = <<>>, Aside(p)'
      PROVE  Up'
  <2>1. \A q \in Process \ {p} : Same(q)
    BY <1>1, <1>8 DEF Same
  <2>2. \A q \in Process : Aside(q)'
    BY <1>4, <1>8, <2>1, AsideKept
  <2> QED
    BY <1>1, <1>4, <1>5, <1>8, <2>2 DEF Up, TurnFree
<1>9. CASE mq2 = <<Msg(1, p)>> /\ Waits(p)
  <2>1. Head(mq2).type = 1 /\ Head(mq2).pid = p /\ mq2' = <<>>
    BY <1>1, <1>9, Single DEF Msg
  <2>2. ready' = Append(ready, p) /\ live' = live
    BY <1>1, <2>1
  <2>3. /\ \A q \in Process : InReady(q)' <=> InReady(q) \/ q = p
        /\ ReadyOnce'
    BY <1>2, <1>4, <1>7, <2>2, ReadyGrows
  <2>4. Aside(p)'
    BY <1>1, <1>4, <1>9, <2>3 DEF Aside, Waits
  <2>5. Up'
    BY <1>8, <2>1, <2>3, <2>4
  <2>6. \A q : mq2 # <<Msg(2, q)>> /\ mq2' # <<Msg(2, q)>>
    BY <1>9, <2>1 DEF Msg
  <2>7. LiveExact'
    <3>1. Counted' = Counted
      BY <1>1, <2>6 DEF Counted
    <3> QED
      BY <1>0, <2>2, <3>1, CountKept
  <2>8. ready' \in Seq(Process)
    BY <1>7, <2>2
  <2>9. SysTypeOK'
    BY <1>0, <1>1, <2>1, <2>2, <2>8 DEF SysTypeOK
  <2> QED
    BY <1>1, <1>2, <1>6, <2>5, <2>7, <2>9 DEF SysInv
<1>10. CASE mq2 = <<Msg(2, p)>> /\ Gone(p)
  <2>1. Head(mq2).type = 2 /\ Head(mq2).pid = p /\ mq2' = <<>>
    BY <1>1, <1>10, Single DEF Msg
  <2>2. ready' = ready /\ live' = live - 1
    BY <1>1, <2>1
  <2>3. ReadyOnce' /\ \A q \in Process : InReady(q)' <=> InReady(q)
    BY <1>2, <2>2 DEF ReadyOnce, InReady
  <2>4. Aside(p)'
    BY <1>1, <1>4, <1>10, <2>3 DEF Aside, Gone
  <2>5. Up'
    BY <1>8, <2>1, <2>3, <2>4
  <2>6. Counted' = Counted \cup {p} /\ p \notin Counted
    <3>1. \A q : mq2 = <<Msg(2, q)>> <=> q = p
      BY <1>10, Single DEF Msg
    <3>2. \A q : mq2' # <<Msg(2, q)>>
      BY <2>1
    <3> QED
      BY <1>1, <1>4, <1>10, <3>1, <3>2 DEF Counted, Gone
  <2>7. LiveExact' /\ live' \in 0 .. K
    <3> DEFINE S == Process \ Counted
    <3>1. Process \ Counted' = S \ {p} /\ p \in S
      BY <2>6
    <3>2. IsFiniteSet(S)
      BY ProcessFinite, FS_Difference
    <3> HIDE DEF S
    <3>3. IsFiniteSet(S \ {p}) /\ Cardinality(S \ {p}) = Cardinality(S) - 1
      BY <3>1, <3>2, FS_RemoveElement
    <3>4. Cardinality(S \ {p}) \in Nat
      BY <3>3, FS_CardinalityType
    <3>5. live = Cardinality(S) /\ live \in 0 .. K
      BY <1>0 DEF LiveExact, S, SysTypeOK
    <3> QED
      BY <2>2, <3>1, <3>3, <3>4, <3>5, ParamAssumption DEF LiveExact
  <2>8. SysTypeOK'
    <3>1. mq2' \in Seq([type : {1, 2, 100}, pid : Process \cup {MmuPid}])
      BY <2>1
    <3>2. sched' \in {"ready", "mmu", "done"}
      BY <1>1
    <3> QED
      BY <1>0, <1>1, <2>2, <2>7, <3>1, <3>2 DEF SysTypeOK
  <2> QED
    BY <1>1, <1>2, <1>6, <2>5, <2>7, <2>8 DEF SysInv
<1> QED
  BY <1>4, <1>9, <1>10

LEMMA ExitsInv == ASSUME SysInv, SchedExits PROVE SysInv'
<1>0. SysTypeOK /\ Starting /\ LiveExact /\ Ending /\ (ipc = "up" => Up)
  BY DEF SysInv
<1>1. /\ sched = "ready" /\ live = 0 /\ sync_sem' = sync_sem + 1 /\ sched' = "done"
      /\ UNCHANGED <<refs, master, created, registered, ipc, live, ready, dispatched, mq2,
                     request, reply, mmu_life, proc, index, buf, mmu, msg3, ended, pagetable>>
  BY DEF SchedExits, mmuVars, vars, tables, queues, procVars
<1>2. ipc = "up" /\ Up /\ TurnFree /\ ReadyOnce /\ sync_sem = 0
  BY <1>0, <1>1 DEF Ending, SysTypeOK, Up
<1>3. \A q \in Process : Same(q) /\ Aside(q)
  BY <1>1, <1>2 DEF TurnFree, Same, InReady
<1>4. \A q \in Process : Aside(q)'
  BY <1>3, AsideKept
<1>5. Up'
  BY <1>1, <1>2, <1>4 DEF Up, TurnFree, ReadyOnce
<1>6. SysTypeOK'
  BY <1>0, <1>1, <1>2 DEF SysTypeOK
<1>7. Starting' /\ Ending'
  BY <1>0, <1>1, <1>2 DEF Starting, Ending
<1>8. LiveExact'
  BY <1>0, <1>1, CountKept DEF Counted
<1> QED
  BY <1>1, <1>2, <1>5, <1>6, <1>7, <1>8 DEF SysInv
-----------------------------------------------------------------------------
(* The steps of the MMU, each for the process that has the turn.           *)

LEMMA MmuStepInv ==
    ASSUME SysInv, SysTypeOK', ipc = "up", Untouched, sched = "mmu",
           NEW p \in Process, Holds(p), \A q \in Process \ {p} : Aside(q),
           \A q \in Process \ {p} : reply'[q] = reply[q] /\ (q \in ended' <=> q \in ended),
           ~InReady(p)' => Holds(p)', Counted' = Counted
    PROVE  SysInv' /\ StaysPut
<1>0. /\ Starting /\ LiveExact /\ Ending /\ ReadyOnce
      /\ UNCHANGED <<refs, master, created, sync_sem, ipc, sched, live, ready, dispatched,
                     mmu_life, registered, proc, index, buf, printed>>
  BY DEF SysInv, Up, Untouched, masterVars, schedVars, procVars
<1>1. \A q \in Process \ {p} : Aside(q) /\ Same(q)
  BY <1>0 DEF Same, InReady
<1>2. Holds(p)' /\ ReadyOnce'
  BY <1>0 DEF InReady, ReadyOnce, Holds
<1>3. Up' /\ StaysPut
  BY <1>0, <1>1, <1>2, TurnMoves
<1>4. Starting' /\ Ending'
  BY <1>0 DEF Starting, Ending
<1>5. LiveExact'
  BY <1>0, CountKept
<1> QED
  BY <1>0, <1>3, <1>4, <1>5 DEF SysInv

(* Whom the MMU serves has the turn.                                       *)
LEMMA Served ==
    ASSUME SysInv, NEW p \in Process, NEW page, Serve(p, page)
    PROVE  /\ ipc = "up" /\ sched = "mmu" /\ Requesting(p) /\ ~InReady(p)
           /\ \A q \in Process \ {p} : Aside(q)
           /\ request = <<[pid |-> p, page |-> page]>> /\ request' = <<>>
           /\ page = EndOfRefs => proc[p] = "exited"
           /\ page \in Page => proc[p] = "waitmmu" /\ buf[p] = page
<1>1. /\ mmu_life = "running" /\ request # <<>> /\ request' = Tail(request)
      /\ Head(request) = [pid |-> p, page |-> page] /\ Head(request).pid = p
  BY DEF Serve
<1>2. ipc = "up" /\ Up
  BY <1>1 DEF SysInv, Ending, SysTypeOK
<1>3. HoldsAt(p, Requesting(p) /\ ~InReady(p))
  BY <1>1, <1>2, WhoHolds
<1>4. Requesting(p)
  BY <1>3 DEF HoldsAt
<1>5. EndOfRefs \notin Page
  BY ParamAssumption DEF EndOfRefs, Page
<1>6. CASE /\ proc[p] = "waitmmu" /\ buf[p] \in Page
           /\ request = <<[pid |-> p, page |-> buf[p]]>>
  <2>1. [pid |-> p, page |-> buf[p]] = [pid |-> p, page |-> page] /\ Tail(request) = <<>>
    BY <1>1, <1>6, Single
  <2>2. buf[p] = page
    BY <2>1
  <2> QED
    BY <1>1, <1>2, <1>3, <1>5, <1>6, <2>1, <2>2 DEF HoldsAt
<1>7. CASE proc[p] = "exited" /\ request = <<[pid |-> p, page |-> EndOfRefs]>>
  <2>1. [pid |-> p, page |-> EndOfRefs] = [pid |-> p, page |-> page] /\ Tail(request) = <<>>
    BY <1>1, <1>7, Single
  <2>2. EndOfRefs = page
    BY <2>1
  <2> QED
    BY <1>1, <1>2, <1>3, <1>5, <1>7, <2>1, <2>2 DEF HoldsAt
<1> QED
  BY <1>4, <1>6, <1>7 DEF Requesting

LEMMA MmuStartsInv == ASSUME SysInv, SysTypeOK', MmuStarts PROVE SysInv' /\ StaysPut
<1>0. SysTypeOK /\ Starting /\ LiveExact /\ Ending /\ (ipc = "up" => Up)
  BY DEF SysInv
<1>1. /\ mmu_life = "starting" /\ mmu_life' = "running"
      /\ mq2' = Append(mq2, Msg(100, MmuPid))
      /\ UNCHANGED <<refs, master, created, registered, sync_sem, ipc, sched, live, ready,
                     dispatched, request, reply, proc, index, buf, mmu, msg3, ended,
                     pagetable>>
  BY DEF MmuStarts, mmuVars, vars, tables, masterVars, schedVars, procVars
<1>2. master = "mmupid" /\ ipc = "up" /\ Up
  BY <1>0, <1>1 DEF Starting, Ending, SysTypeOK
<1>3. \A p \in Process : proc[p] = "unborn"
  BY <1>0, <1>2, ParamAssumption DEF Starting, Process
<1>4. \A p \in Process : ~Holds(p)
  BY <1>3 DEF Holds, Dispatched, Computing, Requesting, Branching, Answered, Reported, Waits,
     Gone
<1>5. sched # "mmu" /\ TurnFree /\ mq2 = <<>> /\ ReadyOnce
  BY <1>1, <1>2, <1>4 DEF Up, TurnTaken, TurnFree
<1>6. mq2' = <<Msg(100, MmuPid)>>
  BY <1>1, <1>5, Single
<1>7. \A q \in Process : Same(q) /\ Aside(q)
  BY <1>1, <1>5 DEF TurnFree, Same, InReady
<1>8. \A q \in Process : Aside(q)'
  BY <1>7, AsideKept
<1>9. Up'
  BY <1>1, <1>2, <1>5, <1>6, <1>8 DEF Up, TurnFree, ReadyOnce
<1>10. LiveExact'
  <2>1. \A q : mq2 # <<Msg(2, q)>> /\ mq2' # <<Msg(2, q)>>
    BY <1>5, <1>6, Single DEF Msg
  <2>2. Counted' = Counted
    BY <1>1, <2>1 DEF Counted
  <2> QED
    BY <1>0, <1>1, <2>2, CountKept
<1>11. Starting' /\ Ending'
  BY <1>0, <1>1, <1>2 DEF Starting, Ending
<1> QED
  BY <1>1, <1>2, <1>5, <1>9, <1>10, <1>11 DEF SysInv, StaysPut

LEMMA MmuTerminatesInv == ASSUME SysInv, SysTypeOK', MmuTerminates PROVE SysInv' /\ StaysPut
<1>1. PICK p \in Process :
          Serve(p, EndOfRefs) /\ Terminate(p) /\ Notify(2, p) /\ UNCHANGED reply /\ Untouched
  BY DEF MmuTerminates
<1>2. /\ ipc = "up" /\ sched = "mmu" /\ Requesting(p) /\ ~InReady(p)
      /\ \A q \in Process \ {p} : Aside(q)
      /\ proc[p] = "exited" /\ request' = <<>>
  BY <1>1, Served
<1>3. /\ dispatched[p] = 0 /\ mmu = "recv" /\ mq2 = <<>> /\ p \notin ended /\ reply[p] = <<>>
  BY <1>2 DEF Requesting
<1>4. ended' = ended \cup {p} /\ mmu' = mmu /\ msg3' = msg3
  BY <1>1 DEF Terminate
<1>5. mq2' = <<Msg(2, p)>>
  BY <1>1, <1>3, Single DEF Notify
<1>6. UNCHANGED <<dispatched, proc>>
  BY <1>1 DEF Untouched, procVars
<1>7. Reported(p)'
  BY <1>1, <1>2, <1>3, <1>4, <1>5, <1>6 DEF Reported, Gone
<1>8. Counted' = Counted
  <2>1. \A q : (mq2' = <<Msg(2, q)>> <=> q = p) /\ mq2 # <<Msg(2, q)>>
    BY <1>3, <1>5, Single DEF Msg
  <2> QED
    BY <1>3, <1>4, <2>1 DEF Counted
<1> QED
  BY <1>1, <1>2, <1>4, <1>7, <1>8, MmuStepInv DEF Holds

LEMMA MmuHitInv == ASSUME SysInv, SysTypeOK', TypeOK, MmuHit PROVE SysInv' /\ StaysPut
<1>1. PICK p \in Process, a \in Page :
          /\ Serve(p, a) /\ Hit(p, a) /\ Answer(p, pagetable[p][a].frame)
          /\ UNCHANGED mq2 /\ Untouched
  BY DEF MmuHit
<1>2. /\ ipc = "up" /\ sched = "mmu" /\ Requesting(p) /\ ~InReady(p)
      /\ \A q \in Process \ {p} : Aside(q)
      /\ proc[p] = "waitmmu" /\ buf[p] = a /\ request' = <<>>
  BY <1>1, Served
<1>3. /\ dispatched[p] = 0 /\ mmu = "recv" /\ mq2 = <<>> /\ p \notin ended /\ reply[p] = <<>>
  BY <1>2 DEF Requesting
<1>4. ended' = ended /\ mmu' = mmu
  BY <1>1 DEF Hit
<1>5. UNCHANGED <<dispatched, proc, buf>>
  BY <1>1 DEF Untouched, procVars
<1>6. /\ pagetable'[p][a].frame = pagetable[p][a].frame
      /\ pagetable[p][a].frame \in Frame
  <2>1. pagetable[p][a] \in EntryType /\ pagetable[p][a].frame # NoFrame
    BY <1>1 DEF TypeOK, Hit, InMemory, Resident
  <2>2. pagetable' = [pagetable EXCEPT ![p][a].ts = timestamp']
    BY <1>1 DEF Hit
  <2> QED
    BY <2>1, <2>2 DEF TypeOK, EntryType
<1>7. /\ reply'[p] = <<pagetable[p][a].frame>>
      /\ \A q \in Process \ {p} : reply'[q] = reply[q]
  BY <1>1, <1>3, Single DEF Answer, SysInv, SysTypeOK
<1>8. Answered(p)'
  BY <1>1, <1>2, <1>3, <1>4, <1>5, <1>6, <1>7 DEF Answered
<1>9. Counted' = Counted
  BY <1>1, <1>3, <1>4 DEF Counted
<1> QED
  BY <1>1, <1>2, <1>4, <1>7, <1>8, <1>9, MmuStepInv DEF Holds

LEMMA MmuIllegalReplyInv == ASSUME SysInv, SysTypeOK', MmuIllegalReply PROVE SysInv' /\ StaysPut
<1>1. PICK p \in Process, a \in Page :
          /\ Serve(p, a) /\ IllegalReply(p, a) /\ Answer(p, Illegal)
          /\ UNCHANGED mq2 /\ Untouched
  BY DEF MmuIllegalReply
<1>2. /\ ipc = "up" /\ sched = "mmu" /\ Requesting(p) /\ ~InReady(p)
      /\ \A q \in Process \ {p} : Aside(q)
      /\ proc[p] = "waitmmu" /\ buf[p] = a /\ request' = <<>>
  BY <1>1, Served
<1>3. /\ dispatched[p] = 0 /\ mmu = "recv" /\ mq2 = <<>> /\ p \notin ended /\ reply[p] = <<>>
  BY <1>2 DEF Requesting
<1>4. ended' = ended \cup {p} /\ mmu' = "illegal" /\ msg3' = [pid |-> p, page |-> a]
  BY <1>1 DEF IllegalReply
<1>5. UNCHANGED <<dispatched, proc, buf>>
  BY <1>1 DEF Untouched, procVars
<1>6. reply'[p] = <<Illegal>> /\ \A q \in Process \ {p} : reply'[q] = reply[q]
  BY <1>1, <1>3, Single DEF Answer, SysInv, SysTypeOK
<1>7. Branching(p)'
  BY <1>1, <1>2, <1>3, <1>4, <1>5, <1>6 DEF Branching, Gone
<1>8. Counted' = Counted
  <2>1. \A q : mq2 # <<Msg(2, q)>>
    BY <1>3
  <2> QED
    BY <1>1, <1>3, <1>4, <2>1 DEF Counted
<1> QED
  BY <1>1, <1>2, <1>4, <1>6, <1>7, <1>8, MmuStepInv DEF Holds

LEMMA MmuFaultReplyInv == ASSUME SysInv, SysTypeOK', MmuFaultReply PROVE SysInv' /\ StaysPut
<1>1. PICK p \in Process, a \in Page :
          /\ Serve(p, a) /\ FaultReply(p, a) /\ Answer(p, Fault)
          /\ UNCHANGED mq2 /\ Untouched
  BY DEF MmuFaultReply
<1>2. /\ ipc = "up" /\ sched = "mmu" /\ Requesting(p) /\ ~InReady(p)
      /\ \A q \in Process \ {p} : Aside(q)
      /\ proc[p] = "waitmmu" /\ buf[p] = a /\ request' = <<>>
  BY <1>1, Served
<1>3. /\ dispatched[p] = 0 /\ mmu = "recv" /\ mq2 = <<>> /\ p \notin ended /\ reply[p] = <<>>
  BY <1>2 DEF Requesting
<1>4. ended' = ended /\ mmu' = "fault" /\ msg3' = [pid |-> p, page |-> a]
  BY <1>1 DEF FaultReply
<1>5. UNCHANGED <<dispatched, proc, buf>>
  BY <1>1 DEF Untouched, procVars
<1>6. reply'[p] = <<Fault>> /\ \A q \in Process \ {p} : reply'[q] = reply[q]
  BY <1>1, <1>3, Single DEF Answer, SysInv, SysTypeOK
<1>7. Branching(p)'
  BY <1>1, <1>2, <1>3, <1>4, <1>5, <1>6 DEF Branching, Waits
<1>8. Counted' = Counted
  BY <1>1, <1>3, <1>4 DEF Counted
<1> QED
  BY <1>1, <1>2, <1>4, <1>6, <1>7, <1>8, MmuStepInv DEF Holds

(* The second half of a branch: what the process was sent is what the      *)
(* scheduler is told.                                                      *)
LEMMA MmuFinishInv ==
    ASSUME SysInv, SysTypeOK', TypeOK, NEW type \in {1, 2}, Finish(type),
           mmu = IF type = 1 THEN "fault" ELSE "illegal", mmu' = "recv",
           UNCHANGED <<msg3, ended>>
    PROVE  SysInv' /\ StaysPut
<1>1. PICK p \in Process : p = msg3.pid
  BY DEF TypeOK
<1>2. /\ mmu_life = "running" /\ Notify(type, p) /\ UNCHANGED <<request, reply>> /\ Untouched
  BY <1>1 DEF Finish
<1>3. ipc = "up" /\ Up /\ mmu # "recv"
  BY <1>2 DEF SysInv, Ending, SysTypeOK
<1>4. HoldsAt(p, Branching(p) /\ ~InReady(p))
  BY <1>1, <1>3, WhoHolds
<1>5. /\ sched = "mmu" /\ Branching(p) /\ ~InReady(p) /\ \A q \in Process \ {p} : Aside(q)
      /\ dispatched[p] = 0 /\ request = <<>> /\ mq2 = <<>>
      /\ type = 1 => Waits(p)
      /\ type = 2 => Gone(p)
  BY <1>4 DEF HoldsAt, Branching
<1>6. mq2' = <<Msg(type, p)>>
  BY <1>2, <1>5, Single DEF Notify
<1>7. UNCHANGED <<dispatched, proc>>
  BY <1>2 DEF Untouched, procVars
<1>8. Reported(p)'
  BY <1>2, <1>5, <1>6, <1>7 DEF Reported, Waits, Gone
<1>9. Counted' = Counted
  <2>1. \A q : mq2 # <<Msg(2, q)>> /\ (mq2' = <<Msg(2, q)>> <=> type = 2 /\ q = p)
    BY <1>5, <1>6, Single DEF Msg
  <2> QED
    BY <1>1, <2>1 DEF Counted
<1> QED
  BY <1>2, <1>3, <1>5, <1>8, <1>9, MmuStepInv DEF Holds

LEMMA MmuInv == ASSUME SysInv, Inv, Inv', MmuNext PROVE SysInv' /\ StaysPut
<1>1. TypeOK /\ TypeOK' /\ SysTypeOK
  BY DEF Inv, SysInv
<1>2. SysTypeOK'
  BY <1>1, MmuTypes
<1>3. CASE MmuStarts \/ MmuTerminates \/ MmuHit
  BY <1>1, <1>2, <1>3, MmuStartsInv, MmuTerminatesInv, MmuHitInv
<1>4. CASE MmuIllegalReply \/ MmuFaultReply
  BY <1>2, <1>4, MmuIllegalReplyInv, MmuFaultReplyInv
<1>5. CASE MmuIllegalRelease
  <2>1. Finish(2) /\ mmu = "illegal" /\ mmu' = "recv" /\ UNCHANGED <<msg3, ended>>
    BY <1>5 DEF MmuIllegalRelease, IllegalRelease
  <2> QED
    BY <1>1, <1>2, <2>1, MmuFinishInv
<1>6. CASE MmuFaultLoad \/ MmuFaultReplace \/ MmuFaultRetry
  <2>1. Finish(1) /\ mmu = "fault" /\ mmu' = "recv" /\ UNCHANGED <<msg3, ended>>
    BY <1>6 DEF MmuFaultLoad, MmuFaultReplace, MmuFaultRetry, FaultLoad, FaultReplace,
       FaultRetry
  <2> QED
    BY <1>1, <1>2, <2>1, MmuFinishInv
<1> QED
  BY <1>3, <1>4, <1>5, <1>6 DEF MmuNext
-----------------------------------------------------------------------------
(* The steps of the processes.                                             *)

LEMMA ProcStepInv ==
    ASSUME SysInv, SysTypeOK', Others, NEW p \in Process,
           proc[p] # "unborn", registered \subseteq registered', p \in registered',
           \A q \in Process \ {p} : proc'[q] = proc[q],
           ipc = "up" => Up' /\ StaysPut, ipc = "removed" => reply' = reply
    PROVE  SysInv' /\ StaysPut
<1>0. /\ Starting /\ LiveExact /\ Ending /\ SysTypeOK
      /\ UNCHANGED <<master, created, sync_sem, ipc, sched, live, mmu_life, mmu, msg3, mq2,
                     ended, pagetable>>
  BY DEF SysInv, Others, mmuVars, vars, tables, masterVars, schedVars
<1>1. Starting'
  <2>1. ~(p >= created)
    BY <1>0 DEF Starting
  <2> QED
    BY <1>0, <2>1 DEF Starting
<1>2. Ending'
  BY <1>0 DEF Ending
<1>3. LiveExact'
  BY <1>0, CountKept DEF Counted
<1>4. ipc = "removed" => Down'
  BY <1>0 DEF SysInv, Down, Granted
<1> QED
  BY <1>0, <1>1, <1>2, <1>3, <1>4 DEF SysInv, SysTypeOK, StaysPut

(* A step that leaves p where it is in the turn.                           *)
LEMMA ProcStays ==
    ASSUME Up, Others, NEW p \in Process, ReadyOnce', UNCHANGED request,
           \A q \in Process \ {p} : Same(q) /\ buf'[q] = buf[q],
           Aside(p) => Aside(p)', Holds(p) => Holds(p)'
    PROVE  Up' /\ StaysPut
<1>1. UNCHANGED <<sched, ended, mmu, msg3, mq2, master, mmu_life, pagetable>>
  BY DEF Others, mmuVars, vars, tables, masterVars, schedVars
<1>2. \A q \in Process : (Aside(q) => Aside(q)') /\ (Holds(q) => Holds(q)')
  BY <1>1, AsideKept, HoldsKept
<1> QED
  BY <1>1, <1>2, TurnKept

(* What a process that waits for the MMU may find in MQ3.                  *)
LEMMA WhatIsSent ==
    ASSUME Up, NEW p \in Process, proc[p] = "waitmmu", reply[p] # <<>>
    PROVE  \/ Waits(p) /\ reply[p] = <<Fault>>
           \/ Gone(p) /\ reply[p] = <<Illegal>>
           \/ Answered(p) /\ reply[p] = <<pagetable[p][buf[p]].frame>>
                          /\ pagetable[p][buf[p]].frame \in Frame
<1>1. Aside(p) \/ Holds(p)
  BY DEF Up, TurnTaken, TurnFree
<1> QED
  BY <1>1 DEF Aside, Holds, Young, Waits, Gone, Dispatched, Computing, Requesting, Branching,
     Answered, Reported

LEMMA ChildExecsInv ==
    ASSUME SysInv, SysTypeOK', NEW p \in Process, ChildExecs(p) PROVE SysInv' /\ StaysPut
<1>1. /\ proc[p] = "forked" /\ registered' = registered \cup {p} /\ Others
      /\ proc' = [proc EXCEPT ![p] = "start"]
      /\ UNCHANGED <<ready, dispatched, request, reply, buf, ended>>
  BY DEF ChildExecs, Others, mmuVars, vars
<1>2. proc'[p] = "start" /\ \A q \in Process \ {p} : proc'[q] = proc[q]
  BY <1>1 DEF SysInv, SysTypeOK
<1>3. ASSUME Up PROVE Up' /\ StaysPut
  <2>1. \A q \in Process \ {p} : Same(q)
    BY <1>1, <1>2 DEF Same, InReady
  <2>2. Aside(p) => Aside(p)'
    BY <1>1, <1>2 DEF Aside, Young, Waits, Gone, InReady
  <2>3. ~Holds(p)
    BY <1>1 DEF Holds, Waits, Gone, Dispatched, Computing, Requesting, Branching, Answered,
       Reported
  <2>4. ReadyOnce'
    BY <1>1, <1>3 DEF Up, ReadyOnce
  <2> QED
    BY <1>1, <1>3, <2>1, <2>2, <2>3, <2>4, ProcStays
<1> QED
  BY <1>1, <1>2, <1>3, ProcStepInv DEF SysInv

LEMMA ProcEnqueuesInv ==
    ASSUME SysInv, SysTypeOK', NEW p \in Process, ProcEnqueues(p) PROVE SysInv' /\ StaysPut
<1>1. /\ proc[p] = "start" /\ ready' = Append(ready, p) /\ Others
      /\ proc' = [proc EXCEPT ![p] = "waitcpu"]
      /\ UNCHANGED <<registered, dispatched, request, reply, buf, ended>>
  BY DEF ProcEnqueues, Others, mmuVars, vars
<1>2. proc'[p] = "waitcpu" /\ \A q \in Process \ {p} : proc'[q] = proc[q]
  BY <1>1 DEF SysInv, SysTypeOK
<1>3. p \in registered /\ ready \in Seq(Process)
  BY <1>1 DEF SysInv, Starting, SysTypeOK
<1>4. ASSUME Up PROVE Up' /\ StaysPut
  <2>1. ~Holds(p)
    BY <1>1 DEF Holds, Waits, Gone, Dispatched, Computing, Requesting, Branching, Answered,
       Reported
  <2>2. Aside(p)
    BY <1>4, <2>1 DEF Up, TurnTaken, TurnFree
  <2>3. dispatched[p] = 0 /\ Young(p) /\ ~InReady(p)
    BY <1>1, <2>2 DEF Aside, Waits, Gone
  <2>4. (\A q \in Process : InReady(q)' <=> InReady(q) \/ q = p) /\ ReadyOnce'
    BY <1>1, <1>3, <1>4, <2>3, ReadyGrows DEF Up
  <2>5. \A q \in Process \ {p} : Same(q)
    BY <1>1, <1>2, <2>4 DEF Same
  <2>6. Aside(p)'
    BY <1>1, <1>2, <2>3, <2>4 DEF Aside, Young, Waits
  <2> QED
    BY <1>1, <1>4, <2>1, <2>4, <2>5, <2>6, ProcStays
<1> QED
  BY <1>1, <1>2, <1>3, <1>4, ProcStepInv DEF SysInv

LEMMA ProcScheduledInv ==
    ASSUME SysInv, SysTypeOK', NEW p \in Process, ProcScheduled(p) PROVE SysInv' /\ StaysPut
<1>1. /\ proc[p] = "waitcpu" /\ dispatched[p] > 0 /\ Others
      /\ dispatched' = [dispatched EXCEPT ![p] = @ - 1]
      /\ proc' = [proc EXCEPT ![p] = "run"]
      /\ UNCHANGED <<registered, ready, request, reply, buf, ended, sched, mmu, mq2>>
  BY DEF ProcScheduled, Others, mmuVars, vars, schedVars
<1>2. /\ proc'[p] = "run" /\ dispatched'[p] = dispatched[p] - 1
      /\ \A q \in Process \ {p} : proc'[q] = proc[q] /\ dispatched'[q] = dispatched[q]
  BY <1>1 DEF SysInv, SysTypeOK
<1>3. p \in registered
  BY <1>1 DEF SysInv, Starting
<1>4. ASSUME ipc = "up" PROVE Up' /\ StaysPut
  <2>0. Up
    BY <1>4 DEF SysInv
  <2>1. HoldsAt(p, Dispatched(p) /\ ~InReady(p))
    BY <1>1, <2>0, WhoHolds
  <2>2. /\ sched = "mmu" /\ ~InReady(p) /\ \A q \in Process \ {p} : Aside(q)
        /\ Dispatched(p) /\ dispatched[p] = 1 /\ p \notin ended /\ reply[p] = <<>>
        /\ request = <<>> /\ mmu = "recv" /\ mq2 = <<>>
    BY <1>1, <2>1 DEF HoldsAt, Dispatched, Waits
  <2>3. Computing(p)'
    BY <1>1, <1>2, <2>2 DEF Computing
  <2>4. Holds(p) /\ Holds(p)' /\ ReadyOnce'
    BY <1>1, <2>0, <2>2, <2>3 DEF Holds, InReady, Up, ReadyOnce
  <2>5. \A q \in Process \ {p} : Aside(q) /\ Same(q)
    BY <1>1, <1>2, <2>2 DEF Same, InReady
  <2> QED
    BY <1>1, <1>4, <2>2, <2>4, <2>5, TurnMoves
<1> QED
  BY <1>1, <1>2, <1>3, <1>4, ProcStepInv 

(* A request leaves the CPU idle until it is answered.                     *)
LEMMA ProcSendsInv ==
    ASSUME SysInv, SysTypeOK', NEW p \in Process, proc[p] = "run", Others,
           NEW a \in Page \cup {EndOfRefs}, SendToMmu(p, a),
           buf' = [buf EXCEPT ![p] = a],
           proc' = [proc EXCEPT ![p] = IF a = EndOfRefs THEN "exited" ELSE "waitmmu"],
           UNCHANGED <<registered, ready, dispatched, reply>>
    PROVE  SysInv' /\ StaysPut
<1>1. UNCHANGED <<ended, sched, mmu, mq2>>
  BY DEF Others, mmuVars, vars, schedVars
<1>2. /\ proc'[p] = IF a = EndOfRefs THEN "exited" ELSE "waitmmu"
      /\ buf'[p] = a
      /\ \A q \in Process \ {p} : proc'[q] = proc[q]
  BY DEF SysInv, SysTypeOK
<1>3. p \in registered
  BY DEF SysInv, Starting
<1>4. ASSUME ipc = "up" PROVE Up' /\ StaysPut
  <2>1. Up
    BY <1>4 DEF SysInv
  <2>2. HoldsAt(p, Computing(p) /\ ~InReady(p))
    BY <2>1, WhoHolds
  <2>3. /\ sched = "mmu" /\ ~InReady(p) /\ \A q \in Process \ {p} : Aside(q)
        /\ Computing(p) /\ dispatched[p] = 0 /\ p \notin ended /\ reply[p] = <<>>
        /\ request = <<>> /\ mmu = "recv" /\ mq2 = <<>>
    BY <2>2 DEF HoldsAt, Computing
  <2>4. request' = <<[pid |-> p, page |-> a]>>
    BY <1>4, <2>3, Single DEF SendToMmu
  <2>5. Requesting(p)'
    BY <1>1, <1>2, <2>3, <2>4 DEF Requesting
  <2>6. Holds(p) /\ Holds(p)' /\ ReadyOnce'
    BY <2>1, <2>3, <2>5 DEF Holds, InReady, Up, ReadyOnce
  <2>7. \A q \in Process \ {p} : Aside(q) /\ Same(q)
    BY <1>1, <1>2, <2>3 DEF Same, InReady
  <2> QED
    BY <1>1, <1>4, <2>3, <2>6, <2>7, TurnMoves
<1> QED
  BY <1>2, <1>3, <1>4, ProcStepInv

LEMMA ProcRefersInv ==
    ASSUME SysInv, SysTypeOK', NEW p \in Process, ProcRefers(p) PROVE SysInv' /\ StaysPut
<1>1. refs[p] \in Seq(Page) /\ index[p] \in 1 .. Len(refs[p])
  BY RefStringAssumption DEF ProcRefers, SysInv, SysTypeOK
<1>2. refs[p][index[p]] \in Page
  BY <1>1
<1>3. EndOfRefs \notin Page
  BY ParamAssumption DEF EndOfRefs, Page
<1> QED
  BY <1>2, <1>3, ProcSendsInv DEF ProcRefers

LEMMA ProcEndsInv ==
    ASSUME SysInv, SysTypeOK', NEW p \in Process, ProcEnds(p) PROVE SysInv' /\ StaysPut
  BY ProcSendsInv DEF ProcEnds

\* ReceiveFrame while the queue is there.
LEMMA Received ==
    ASSUME SysInv, NEW p \in Process, NEW frame, ReceiveFrame(p, frame), ipc = "up"
    PROVE  /\ Up /\ proc[p] = "waitmmu" /\ reply[p] # <<>> /\ frame = Head(reply[p])
           /\ reply'[p] = Tail(reply[p]) /\ Others
           /\ \A q \in Process \ {p} : reply'[q] = reply[q] /\ buf'[q] = buf[q]
           /\ UNCHANGED <<registered, ready, dispatched, request, ended, sched, mmu, msg3, mq2>>
  BY DEF ReceiveFrame, SysInv, SysTypeOK, Others, mmuVars, vars, schedVars

(* Once the queue is gone a step of a process changes nothing of the turn. *)
LEMMA ReceivesInv ==
    ASSUME SysInv, SysTypeOK', NEW p \in Process, NEW frame, ReceiveFrame(p, frame),
           \A q \in Process \ {p} : proc'[q] = proc[q],
           ipc = "up" => Up' /\ StaysPut
    PROVE  SysInv' /\ StaysPut
<1>1. proc[p] = "waitmmu" /\ UNCHANGED registered /\ Others /\ (ipc = "removed" => reply' = reply)
  BY DEF ReceiveFrame
<1>2. p \in registered
  BY <1>1 DEF SysInv, Starting
<1> QED
  BY <1>1, <1>2, ProcStepInv

LEMMA NotAFrame == Fault \notin Frame \cup Page /\ Illegal \notin Frame \cup Page /\ Fault # Illegal
  BY ParamAssumption DEF Fault, Illegal, Frame, Page

LEMMA ProcIllegalInv ==
    ASSUME SysInv, SysTypeOK', NEW p \in Process, ProcIllegal(p) PROVE SysInv' /\ StaysPut
<1>1. ReceiveFrame(p, Illegal) /\ proc' = [proc EXCEPT ![p] = "exited"]
  BY DEF ProcIllegal
<1>2. proc'[p] = "exited" /\ \A q \in Process \ {p} : proc'[q] = proc[q]
  BY <1>1 DEF SysInv, SysTypeOK
<1>3. ASSUME ipc = "up" PROVE Up' /\ StaysPut
  <2>1. /\ Up /\ proc[p] = "waitmmu" /\ reply[p] # <<>> /\ Illegal = Head(reply[p])
        /\ reply'[p] = Tail(reply[p]) /\ Others
        /\ \A q \in Process \ {p} : reply'[q] = reply[q] /\ buf'[q] = buf[q]
        /\ UNCHANGED <<ready, dispatched, request, ended, mmu, msg3, mq2>>
    BY <1>1, <1>3, Received
  <2>2. Gone(p) /\ reply[p] = <<Illegal>>
    BY <2>1, WhatIsSent, Single, NotAFrame
  <2>3. Gone(p)' /\ ~Waits(p) /\ ~Young(p)
    BY <1>2, <2>1, <2>2, Single DEF Gone, Waits, Young
  <2>4. Aside(p) => Aside(p)'
    BY <2>1, <2>2, <2>3 DEF Aside, InReady
  <2>5. Holds(p) => Holds(p)'
    BY <2>1, <2>2, <2>3 DEF Holds, InReady, Gone, Dispatched, Computing, Requesting, Branching,
       Answered, Reported
  <2>6. ReadyOnce' /\ \A q \in Process \ {p} : Same(q)
    BY <1>2, <2>1 DEF Up, ReadyOnce, Same, InReady
  <2> QED
    BY <2>1, <2>4, <2>5, <2>6, ProcStays
<1> QED
  BY <1>1, <1>2, <1>3, ReceivesInv

LEMMA ProcFaultsInv ==
    ASSUME SysInv, SysTypeOK', NEW p \in Process, ProcFaults(p) PROVE SysInv' /\ StaysPut
<1>1. ReceiveFrame(p, Fault) /\ proc' = [proc EXCEPT ![p] = "waitcpu"]
  BY DEF ProcFaults
<1>2. proc'[p] = "waitcpu" /\ \A q \in Process \ {p} : proc'[q] = proc[q]
  BY <1>1 DEF SysInv, SysTypeOK
<1>3. ASSUME ipc = "up" PROVE Up' /\ StaysPut
  <2>1. /\ Up /\ proc[p] = "waitmmu" /\ reply[p] # <<>> /\ Fault = Head(reply[p])
        /\ reply'[p] = Tail(reply[p]) /\ Others
        /\ \A q \in Process \ {p} : reply'[q] = reply[q] /\ buf'[q] = buf[q]
        /\ UNCHANGED <<ready, dispatched, request, ended, mmu, msg3, mq2>>
    BY <1>1, <1>3, Received
  <2>2. Waits(p) /\ reply[p] = <<Fault>>
    BY <2>1, WhatIsSent, Single, NotAFrame
  <2>3. Waits(p)' /\ ~Gone(p) /\ ~Young(p)
    BY <1>2, <2>1, <2>2, Single DEF Gone, Waits, Young
  <2>4. Aside(p) => Aside(p)'
    BY <2>1, <2>2, <2>3 DEF Aside, InReady
  <2>5. ~Answered(p) /\ ~Requesting(p) /\ ~Computing(p)
    BY <2>1, <2>2, Single, NotAFrame DEF Answered, Requesting, Computing
  <2>6. Holds(p) => Holds(p)'
    BY <2>1, <2>2, <2>3, <2>5 DEF Holds, InReady, Dispatched, Branching, Reported, Msg
  <2>7. ReadyOnce' /\ \A q \in Process \ {p} : Same(q)
    BY <1>2, <2>1 DEF Up, ReadyOnce, Same, InReady
  <2> QED
    BY <2>1, <2>4, <2>6, <2>7, ProcStays
<1> QED
  BY <1>1, <1>2, <1>3, ReceivesInv

LEMMA ProcGrantedInv ==
    ASSUME SysInv, SysTypeOK', NEW p \in Process, ProcGranted(p) PROVE SysInv' /\ StaysPut
<1>1. PICK frame \in Frame \cup Page :
          ReceiveFrame(p, frame) /\ proc' = [proc EXCEPT ![p] = "run"]
  BY DEF ProcGranted
<1>2. proc'[p] = "run" /\ \A q \in Process \ {p} : proc'[q] = proc[q]
  BY <1>1 DEF SysInv, SysTypeOK
<1>3. ASSUME ipc = "up" PROVE Up' /\ StaysPut
  <2>1. /\ Up /\ proc[p] = "waitmmu" /\ reply[p] # <<>> /\ frame = Head(reply[p])
        /\ reply'[p] = Tail(reply[p])
        /\ \A q \in Process \ {p} : reply'[q] = reply[q]
        /\ UNCHANGED <<ready, dispatched, request, ended, sched, mmu, mq2>>
    BY <1>1, <1>3, Received
  <2>2. Head(reply[p]) \notin {Fault, Illegal}
    BY <2>1, NotAFrame
  <2>3. HoldsAt(p, Answered(p) /\ ~InReady(p))
    BY <2>1, <2>2, WhoHolds
  <2>4. /\ sched = "mmu" /\ ~InReady(p) /\ \A q \in Process \ {p} : Aside(q)
        /\ Answered(p) /\ dispatched[p] = 0 /\ p \notin ended /\ Tail(reply[p]) = <<>>
        /\ request = <<>> /\ mmu = "recv" /\ mq2 = <<>>
    BY <2>3, Single DEF HoldsAt, Answered
  <2>5. Computing(p)'
    BY <1>2, <2>1, <2>4 DEF Computing
  <2>6. Holds(p) /\ Holds(p)' /\ ReadyOnce'
    BY <2>1, <2>4, <2>5 DEF Holds, InReady, Up, ReadyOnce
  <2>7. \A q \in Process \ {p} : Aside(q) /\ Same(q)
    BY <1>2, <2>1, <2>4 DEF Same, InReady
  <2> QED
    BY <1>3, <2>1, <2>4, <2>6, <2>7, TurnMoves
<1> QED
  BY <1>1, <1>2, <1>3, ReceivesInv

LEMMA ProcInv == ASSUME SysInv, NEW p \in Process, ProcNext(p) PROVE SysInv' /\ StaysPut
<1>1. SysTypeOK'
  BY ProcTypes DEF SysInv
<1> QED
  BY <1>1, ChildExecsInv, ProcEnqueuesInv, ProcScheduledInv, ProcRefersInv, ProcEndsInv,
     ProcIllegalInv, ProcFaultsInv, ProcGrantedInv DEF ProcNext
-----------------------------------------------------------------------------
(* The invariant of the simulator.                                         *)

LEMMA InitSysInv == SysInit => SysInv
<1> SUFFICES ASSUME SysInit PROVE SysInv
  OBVIOUS
<1> USE DEF SysInit
<1>1. SysTypeOK
  <2>1. 0 \in Page /\ K \in 0 .. K /\ 0 \in 0 .. K
    BY ParamAssumption DEF Page
  <2>2. /\ dispatched \in [Process -> Nat] /\ index \in [Process -> Nat \ {0}]
        /\ proc \in [Process -> {"unborn", "forked", "start", "waitcpu", "run", "waitmmu",
                                 "exited"}]
        /\ buf \in [Process -> Page \cup Frame \cup {Fault, Illegal, EndOfRefs}]
    BY <2>1
  <2>3. /\ reply \in [Process -> Seq(Frame \cup {Fault, Illegal})]
        /\ ready \in Seq(Process)
        /\ mq2 \in Seq([type : {1, 2, 100}, pid : Process \cup {MmuPid}])
        /\ request \in Seq([pid : Process, page : Page \cup {EndOfRefs}])
    OBVIOUS
  <2> QED
    BY <2>1, <2>2, <2>3 DEF SysTypeOK
<1>2. Starting
  BY DEF Starting
<1>3. LiveExact
  <2>1. Process \ Counted = Process
    BY DEF Init, Counted
  <2> QED
    BY <2>1, ProcessFinite DEF LiveExact
<1>4. Ending
  BY ParamAssumption DEF Ending
<1>5. Up
  BY DEF Up, ReadyOnce, TurnFree, Aside, Young, InReady, Init
<1> QED
  BY <1>1, <1>2, <1>3, <1>4, <1>5 DEF SysInv

LEMMA SysStutterInv == ASSUME SysInv, UNCHANGED sysVars PROVE SysInv'
<1>1. UNCHANGED <<refs, master, created, registered, sync_sem, ipc, sched, live, ready,
                  dispatched, mq2, request, reply, mmu_life, proc, index, buf, mmu, msg3,
                  ended, pagetable>>
  BY DEF sysVars, vars, tables, masterVars, schedVars, queues, procVars
<1>2. SysTypeOK'
  BY <1>1 DEF SysInv, SysTypeOK
<1>3. Starting' /\ Ending'
  BY <1>1 DEF SysInv, Starting, Ending
<1>4. LiveExact'
  BY <1>1, CountKept DEF SysInv, Counted
<1>5. ipc = "up" => Up'
  BY <1>1, AllKept DEF SysInv
<1>6. ipc = "removed" => Down'
  BY <1>1 DEF SysInv, Down, Granted
<1> QED
  BY <1>1, <1>2, <1>3, <1>4, <1>5, <1>6 DEF SysInv

LEMMA SysStepInv == SysInv /\ Inv /\ Inv' /\ [SysNext]_sysVars => SysInv'
<1> SUFFICES ASSUME SysInv, Inv, Inv', [SysNext]_sysVars PROVE SysInv'
  OBVIOUS
<1>1. CASE MasterNext
  BY <1>1, MasterInv
<1>2. CASE SchedNext
  BY <1>2, DispatchInv, NotifiedInv, ExitsInv DEF SchedNext
<1>3. CASE MmuNext
  BY <1>3, MmuInv
<1>4. CASE \E p \in Process : ProcNext(p)
  BY <1>4, ProcInv
<1>5. CASE UNCHANGED sysVars
  BY <1>5, SysStutterInv
<1> QED
  BY <1>1, <1>2, <1>3, <1>4, <1>5 DEF SysNext

(* For any number of processes, pages and frames and any reference         *)
(* strings: there is one turn and it is in one of its six places, live is  *)
(* exact, and the start and the end are in order (master.c, sched.c, mmu.c *)
(* and process.c together).                                                *)
THEOREM SysInvariance == SysSafety => [](SysInv /\ Inv)
<1>1. SysSafety => []Inv
  BY SysImplementsMmu, Invariance, PTL
<1> QED
  BY <1>1, InitSysInv, SysStepInv, PTL DEF SysSafety

(* For any workload every message reaches whom it is for: the scheduler,   *)
(* which reads MQ2 with type 0 (sched.c:83), never takes the MMU's pid     *)
(* from the master, and the MMU finds every requester in SM1, registered   *)
(* and not ended (mmu.c:141-152).                                          *)
THEOREM EveryMessageInStep == SysSafety => []MessagesInStep
<1>1. SysInv => MessagesInStep
  <2> SUFFICES ASSUME SysInv PROVE MessagesInStep
    OBVIOUS
  <2>1. ASSUME sched = "mmu" PROVE ~HasType(mq2, 100)
    <3>1. Up
      BY <2>1 DEF SysInv, SysTypeOK, Ending
    <3>2. PICK p \in Process : Holds(p)
      BY <2>1, <3>1 DEF Up, TurnTaken
    <3>3. mq2 \in {<<>>, <<Msg(1, p)>>, <<Msg(2, p)>>}
      BY <3>2 DEF Holds, Dispatched, Computing, Requesting, Branching, Answered, Reported
    <3> QED
      BY <3>3 DEF HasType, Msg
  <2>2. ASSUME ipc = "up", NEW i \in 1 .. Len(request)
        PROVE  request[i].pid \in registered /\ request[i].pid \notin ended
    <3>1. Up /\ request # <<>>
      BY <2>2 DEF SysInv
    <3>2. PICK p \in Process : Holds(p)
      BY <3>1 DEF Up, TurnTaken, TurnFree
    <3>3. Requesting(p)
      BY <3>1, <3>2 DEF Holds, Dispatched, Computing, Branching, Answered, Reported
    <3>4. request[i].pid = p
      BY <2>2, <3>3 DEF Requesting
    <3>5. p \in registered
      BY <3>3 DEF Requesting, SysInv, Starting
    <3> QED
      BY <3>3, <3>4, <3>5 DEF Requesting
  <2> QED
    BY <2>1, <2>2 DEF MessagesInStep, PidForMaster, RequesterKnown, SysInv
<1> QED
  BY <1>1, SysInvariance, PTL

\* A queue of one message at most.
LEMMA ShortQueue ==
    ASSUME NEW s, NEW x, s = <<>> \/ s = <<x>>
    PROVE  Len(s) <= 1 /\ \A i \in 1 .. Len(s) : s[i] = x
<1>1. CASE s = <<>>
  BY <1>1
<1>2. CASE s = <<x>>
  BY <1>2
<1> QED
  BY <1>1, <1>2

\* The places of the turn that OneTurn names are those of Holds.
TurnPlaced ==
    IF ipc = "up" /\ sched = "mmu"
    THEN /\ \E h \in Process : Holds(h)
         /\ \A h \in Process : Holds(h) => Turn = {h}
    ELSE Turn = {}

LEMMA AsideHasNoTurn ==
    ASSUME NEW p \in Process, Aside(p)
    PROVE  dispatched[p] = 0 /\ proc[p] # "run" /\ ~Granted(p) /\ Len(reply[p]) <= 1
<1>1. PICK x \in {Fault, Illegal} : reply[p] = <<>> \/ reply[p] = <<x>>
  BY DEF Aside, Young, Waits, Gone
<1>2. Len(reply[p]) <= 1 /\ \A i \in 1 .. Len(reply[p]) : reply[p][i] = x
  BY <1>1, ShortQueue
<1>3. ~Granted(p)
  BY <1>2, NotAFrame DEF Granted
<1> QED
  BY <1>2, <1>3 DEF Aside, Young, Waits, Gone

LEMMA HolderHasTurn ==
    ASSUME NEW h \in Process, Holds(h)
    PROVE  HasTurn(h) /\ dispatched[h] \in {0, 1} /\ Len(reply[h]) <= 1
<1>1. reply[h] \in {<<>>, <<Fault>>, <<Illegal>>, <<pagetable[h][buf[h]].frame>>}
  BY DEF Holds, Dispatched, Computing, Requesting, Branching, Answered, Reported, Waits, Gone
<1>2. Len(reply[h]) <= 1
  BY <1>1, ShortQueue
<1> USE DEF HasTurn, OnCPU
<1>3. CASE Dispatched(h) \/ Computing(h)
  BY <1>2, <1>3 DEF Dispatched, Computing
<1>4. CASE Requesting(h)
  <2>1. \E a : request = <<[pid |-> h, page |-> a]>>
    BY <1>4 DEF Requesting
  <2>2. Asked(h)
    BY <2>1, Single DEF Asked
  <2> QED
    BY <1>2, <1>4, <2>2 DEF Requesting
<1>5. CASE Branching(h)
  BY <1>2, <1>5 DEF Branching, AtMmu
<1>6. CASE Answered(h)
  <2>1. Granted(h)
    BY <1>6, Single DEF Answered, Granted
  <2> QED
    BY <1>2, <1>6, <2>1 DEF Answered
<1>7. CASE Reported(h)
  <2>1. \E t \in {1, 2} : mq2 = <<Msg(t, h)>>
    BY <1>7 DEF Reported
  <2>2. Told(h)
    BY <2>1, Single DEF Told, Msg
  <2> QED
    BY <1>2, <1>7, <2>2 DEF Reported
<1> QED
  BY <1>3, <1>4, <1>5, <1>6, <1>7 DEF Holds

(* Whoever holds the turn, no other process has a trace of it.             *)
LEMMA OthersHaveNoTurn ==
    ASSUME NEW h \in Process, Holds(h), NEW p \in Process, p # h, Aside(p)
    PROVE  ~HasTurn(p)
<1>1. dispatched[p] = 0 /\ ~(proc[p] = "run") /\ ~Granted(p)
  BY AsideHasNoTurn
<1>2. ~Asked(p)
  <2>1. request = <<>> \/ \E a : request = <<[pid |-> h, page |-> a]>>
    BY DEF Holds, Dispatched, Computing, Requesting, Branching, Answered, Reported
  <2> QED
    BY <2>1 DEF Asked
<1>3. ~AtMmu(p)
  BY DEF AtMmu, Holds, Dispatched, Computing, Requesting, Branching, Answered, Reported
<1>4. ~Told(p)
  <2>1. mq2 = <<>> \/ \E t : mq2 = <<Msg(t, h)>>
    BY DEF Holds, Dispatched, Computing, Requesting, Branching, Answered, Reported
  <2> QED
    BY <2>1 DEF Told, Msg
<1> QED
  BY <1>1, <1>2, <1>3, <1>4 DEF HasTurn, OnCPU

LEMMA FreeHasNoTurn == ASSUME TurnFree, NEW p \in Process PROVE ~HasTurn(p)
<1>1. Aside(p) /\ request = <<>> /\ mmu = "recv"
  BY DEF TurnFree
<1>2. dispatched[p] = 0 /\ ~(proc[p] = "run") /\ ~Granted(p)
  BY <1>1, AsideHasNoTurn
<1>3. ~Told(p)
  <2>1. mq2 = <<>> \/ mq2 = <<Msg(100, MmuPid)>>
    BY DEF TurnFree
  <2> QED
    BY <2>1 DEF Told, Msg
<1> QED
  BY <1>1, <1>2, <1>3 DEF HasTurn, OnCPU, AtMmu, Asked

LEMMA WhoseTurn == SysInv => TurnPlaced
<1> SUFFICES ASSUME SysInv PROVE TurnPlaced
  OBVIOUS
<1>1. CASE ipc = "up" /\ sched = "mmu"
  <2>1. PICK g \in Process : Holds(g) /\ \A q \in Process \ {g} : Aside(q)
    BY <1>1 DEF SysInv, Up, TurnTaken
  <2>2. HasTurn(g) /\ \A q \in Process \ {g} : ~HasTurn(q)
    BY <2>1, HolderHasTurn, OthersHaveNoTurn
  <2>3. Turn = {g}
    BY <1>1, <2>2 DEF Turn
  <2>4. ASSUME NEW h \in Process, Holds(h) PROVE h = g
    BY <2>2, <2>4, HolderHasTurn
  <2> QED
    BY <1>1, <2>1, <2>3, <2>4 DEF TurnPlaced
<1>2. CASE ipc = "up" /\ sched # "mmu"
  <2>1. TurnFree
    BY <1>2 DEF SysInv, Up
  <2> QED
    BY <1>2, <2>1, FreeHasNoTurn DEF TurnPlaced, Turn
<1>3. CASE ipc # "up"
  BY <1>3 DEF TurnPlaced, Turn
<1> QED
  BY <1>1, <1>2, <1>3

(* For any workload the simulator has one CPU: no two processes have the   *)
(* turn, the scheduler hands out no other while one has it, and no queue   *)
(* grows (sched.c:71-96).                                                  *)
THEOREM OneTurnAtATime == SysSafety => []OneTurn
<1>1. SysInv => OneTurn
  <2> SUFFICES ASSUME SysInv, ipc = "up" PROVE OneTurn
    BY DEF OneTurn
  <2>1. Up /\ TurnPlaced
    BY WhoseTurn DEF SysInv
  <2>2. \A p \in Process : HasTurn(p) => sched = "mmu" /\ Turn = {p}
    BY <2>1 DEF TurnPlaced, Turn
  <2>3. ASSUME NEW p \in Process PROVE dispatched[p] + Len(reply[p]) <= 2
    <3>1. Aside(p) \/ Holds(p)
      BY <2>1 DEF Up, TurnTaken, TurnFree
    <3>2. dispatched[p] \in {0, 1} /\ Len(reply[p]) <= 1
      BY <3>1, AsideHasNoTurn, HolderHasTurn
    <3>3. Len(reply[p]) \in Nat
      BY DEF SysInv, SysTypeOK
    <3> QED
      BY <3>2, <3>3
  <2>4. Len(request) <= 1
    <3>1. CASE sched # "mmu"
      BY <2>1, <3>1 DEF Up, TurnFree
    <3>2. CASE sched = "mmu"
      <4>1. PICK h \in Process : Holds(h)
        BY <2>1, <3>2 DEF Up, TurnTaken
      <4>2. request = <<>> \/ \E a : request = <<[pid |-> h, page |-> a]>>
        BY <4>1 DEF Holds, Dispatched, Computing, Requesting, Branching, Answered, Reported
      <4> QED
        BY <4>2, ShortQueue
    <3> QED
      BY <3>1, <3>2
  <2> QED
    BY <2>2, <2>3, <2>4 DEF OneTurn
<1> QED
  BY <1>1, SysInvariance, PTL

(* For any workload a frame sent to a process is still that process's, and *)
(* holds the page it asked for, when the process reads it (mmu.c:200-213,  *)
(* process.c:115-133).                                                     *)
THEOREM GrantStaysCurrent == SysSafety => []GrantIsCurrent
<1>1. SysInv /\ Inv => GrantIsCurrent
  <2> SUFFICES ASSUME SysInv, Inv, NEW p \in Process, proc[p] = "waitmmu", Granted(p)
               PROVE  /\ buf[p] \in Page
                      /\ pagetable[p][buf[p]].frame = Head(reply[p])
                      /\ sm2[Head(reply[p])] = 0
    BY DEF GrantIsCurrent
  <2>1. Up /\ reply[p] # <<>>
    BY DEF SysInv, SysTypeOK, Down, Granted
  <2>2. reply[p] # <<Fault>> /\ reply[p] # <<Illegal>>
    BY NotAFrame DEF Granted
  <2>3. /\ Answered(p) /\ reply[p] = <<pagetable[p][buf[p]].frame>>
        /\ pagetable[p][buf[p]].frame \in Frame
    BY <2>1, <2>2, WhatIsSent
  <2>4. buf[p] \in Page /\ Head(reply[p]) = pagetable[p][buf[p]].frame
    BY <2>3, Single DEF Answered
  <2> QED
    BY <2>3, <2>4 DEF Inv, FrameOwnership, FreeListExact
<1> QED
  BY <1>1, SysInvariance, PTL

(* What follows from live = 0, which the scheduler has seen (sched.c:71).   *)
LEMMA EndsClean == SysInv /\ Inv => CleanShutdown
<1> SUFFICES ASSUME SysInv, Inv, master \in {"kill", "remove", "done"}
             PROVE  /\ ended = Process
                    /\ total_num_processes = K
                    /\ \A f \in Frame : sm2[f] = 1
                    /\ mmu = "recv" /\ mq2 = <<>>
                    /\ ipc = "up" => request = <<>>
  BY DEF CleanShutdown
<1>1. sched = "done" /\ live = 0
  BY DEF SysInv, Ending
<1>2. Process \subseteq ended
  <2>1. IsFiniteSet(Process \ Counted) /\ Cardinality(Process \ Counted) = 0
    BY <1>1, ProcessFinite, FS_Difference DEF SysInv, LiveExact
  <2>2. Process \ Counted = {}
    BY <2>1, FS_EmptySet
  <2> QED
    BY <2>2 DEF Counted
<1>3. ended = Process
  BY <1>2 DEF Inv, TypeOK
<1>4. total_num_processes = K
  BY <1>3, ProcessFinite DEF Inv, CountedOnce
<1>5. mmu = "recv" /\ mq2 = <<>> /\ (ipc = "up" => request = <<>>)
  <2>1. ipc = "up" => TurnFree
    BY <1>1 DEF SysInv, Up
  <2> QED
    BY <2>1 DEF SysInv, SysTypeOK, TurnFree, Down
<1>6. \A f \in Frame : sm2[f] = 1
  <2> SUFFICES ASSUME NEW f \in Frame PROVE sm2[f] = 1
    OBVIOUS
  <2>1. \A q \in Process, a \in Page : pagetable[q][a].frame = NoFrame
    BY <1>3, <1>5 DEF Inv, EndedHoldsNothing, Resident
  <2>2. f # NoFrame /\ f # F /\ f \in 0 .. F
    BY ParamAssumption DEF NoFrame, Frame
  <2>3. sm2[f] # 0
    BY <2>1, <2>2 DEF Inv, FrameOwnership, FreeListExact
  <2> QED
    BY <2>2, <2>3 DEF Inv, TypeOK
<1> QED
  BY <1>3, <1>4, <1>5, <1>6

(* For any workload, when the master starts to tear the system down every  *)
(* process has been counted once, every frame is back on the free list and *)
(* nothing is left in a queue that is still read (master.c:257-272).       *)
THEOREM ShutdownIsClean == SysSafety => []CleanShutdown
  BY EndsClean, SysInvariance, PTL

-----------------------------------------------------------------------------
(* First come first served.                                                *)

(* In the steps of the master, the MMU and a process the queue of the      *)
(* scheduler is touched by arrivals only.                                  *)
LEMMA OthersKeepQueue ==
    ASSUME SysInv, MasterNext \/ MmuNext
    PROVE  ready' = ready /\ Arrived' = Arrived
<1>1. CASE MasterForks
  <2>1. PICK c \in Process : c = created /\ proc[c] = "unborn"
    BY <1>1, ParamAssumption DEF MasterForks, SysInv, SysTypeOK, Starting, Process
  <2>2. ready' = ready /\ proc' = [proc EXCEPT ![c] = "forked"]
    BY <1>1, <2>1 DEF MasterForks, queues
  <2> QED
    BY <2>1, <2>2 DEF Arrived, SysInv, SysTypeOK
<1>2. CASE MasterLearnsMmu \/ MasterNotified \/ MasterKillsMmu \/ MasterRemoves
  BY <1>2 DEF MasterLearnsMmu, MasterNotified, MasterKillsMmu, MasterRemoves, queues,
     procVars, Arrived
<1>3. CASE MmuStarts
  BY <1>3 DEF MmuStarts, procVars, Arrived
<1>4. CASE Untouched
  BY <1>4 DEF Untouched, procVars, Arrived
<1>5. MmuNext => MmuStarts \/ Untouched
  BY DEF MmuNext, MmuTerminates, MmuHit, MmuIllegalReply, MmuIllegalRelease, MmuFaultReply,
     MmuFaultLoad, MmuFaultReplace, MmuFaultRetry, Finish
<1> QED
  BY <1>1, <1>2, <1>3, <1>4, <1>5 DEF MasterNext

(* A step that leaves the turn where it is, seen by the abstract scheduler.*)
LEMMA RunningKept ==
    ASSUME SysInv, TurnPlaced, TurnPlaced', StaysPut, TypeOK, TypeOK',
           sched' = sched, ipc' = ipc \/ sched = "done"
    PROVE  Running' = Running /\ Finished' = Finished
<1>1. CASE ipc = "up" /\ sched = "mmu"
  <2>1. PICK h \in Process :
            Holds(h) /\ Holds(h)' /\ \A q \in Process \ {h} : q \in ended' <=> q \in ended
    BY <1>1 DEF StaysPut
  <2>2. Turn = {h} /\ Turn' = {h}
    BY <1>1, <2>1 DEF TurnPlaced
  <2> QED
    BY <2>1, <2>2 DEF Running, Finished, TypeOK
<1>2. CASE ~(ipc = "up" /\ sched = "mmu")
  BY <1>2 DEF StaysPut, TurnPlaced, Running, Finished
<1> QED
  BY <1>1, <1>2

LEMMA InitFCFS == SysInit => FCFS!Init
<1> SUFFICES ASSUME SysInit PROVE FCFS!Init
  OBVIOUS
<1>1. Arrived = {} /\ ready = <<>> /\ ended = {}
  BY DEF SysInit, Init, Arrived
<1>2. SysInv
  BY InitSysInv
<1>3. Turn = {}
  BY <1>2, WhoseTurn DEF TurnPlaced, SysInit
<1> QED
  BY <1>1, <1>3 DEF FCFS!Init, Running, Finished

(* Every step of the four programs is one of the abstract scheduler, or    *)
(* none of its business.                                                   *)
LEMMA StepFCFS ==
    SysInv /\ SysInv' /\ Inv /\ Inv' /\ TurnPlaced /\ TurnPlaced' /\ [SysNext]_sysVars
        => [FCFS!Next]_FCFS!vars
<1> SUFFICES ASSUME SysInv, SysInv', Inv, Inv', TurnPlaced, TurnPlaced', [SysNext]_sysVars
             PROVE  FCFS!Next \/ UNCHANGED <<Arrived, ready, Running, Finished>>
  BY DEF FCFS!vars
<1>0. TypeOK /\ TypeOK' /\ ended \subseteq Process
  BY DEF Inv, TypeOK
<1>1. CASE MasterNext
  <2>1. sched' = sched /\ (ipc' = ipc \/ sched = "done")
    BY <1>1 DEF MasterNext, MasterLearnsMmu, MasterForks, MasterNotified, MasterKillsMmu,
       MasterRemoves, schedVars, SysInv, Ending
  <2>2. StaysPut
    BY <1>1, MasterInv
  <2> QED
    BY <1>0, <1>1, <2>1, <2>2, OthersKeepQueue, RunningKept
<1>2. CASE MmuNext
  <2>1. sched' = sched /\ ipc' = ipc
    BY <1>2 DEF MmuNext, MmuStarts, MmuTerminates, MmuHit, MmuIllegalReply, MmuIllegalRelease,
       MmuFaultReply, MmuFaultLoad, MmuFaultReplace, MmuFaultRetry, Finish, Untouched,
       masterVars, schedVars
  <2>2. StaysPut
    BY <1>2, MmuInv
  <2> QED
    BY <1>0, <1>2, <2>1, <2>2, OthersKeepQueue, RunningKept
<1>3. ASSUME NEW p \in Process, ProcNext(p)
      PROVE  FCFS!Next \/ UNCHANGED <<Arrived, ready, Running, Finished>>
  <2>1. StaysPut /\ Others
    BY <1>3, ProcInv DEF ProcNext, ChildExecs, ProcEnqueues, ProcScheduled, ProcRefers,
       ProcEnds, ProcIllegal, ProcFaults, ProcGranted, ReceiveFrame
  <2>2. sched' = sched /\ ipc' = ipc
    BY <2>1 DEF Others, masterVars, schedVars
  <2>3. Running' = Running /\ Finished' = Finished
    BY <1>0, <2>1, <2>2, RunningKept
  <2>4. proc \in [Process -> {"unborn", "forked", "start", "waitcpu", "run", "waitmmu", "exited"}]
    BY DEF SysInv, SysTypeOK
  <2>5. CASE ProcEnqueues(p)
    <3>1. p \notin Arrived /\ Arrived' = Arrived \cup {p} /\ ready' = Append(ready, p)
      BY <2>4, <2>5 DEF ProcEnqueues, Arrived
    <3> QED
      BY <2>3, <3>1 DEF FCFS!Next, FCFS!Arrive
  <2>6. CASE ~ProcEnqueues(p)
    <3>1. ready' = ready /\ Arrived' = Arrived
      BY <1>3, <2>4, <2>6 DEF ProcNext, ChildExecs, ProcScheduled, ProcRefers, ProcEnds,
         ProcIllegal, ProcFaults, ProcGranted, ReceiveFrame, Arrived
    <3> QED
      BY <2>3, <3>1
  <2> QED
    BY <2>5, <2>6
<1>4. CASE SchedDispatch
  <2>1. /\ sched = "ready" /\ ready # <<>> /\ sched' = "mmu" /\ ready' = Tail(ready)
        /\ dispatched' = [dispatched EXCEPT ![Head(ready)] = @ + 1]
        /\ UNCHANGED <<ipc, proc, ended>>
    BY <1>4 DEF SchedDispatch, masterVars, procVars, mmuVars, vars
  <2>2. ipc = "up" /\ TurnFree /\ ready \in Seq(Process)
    BY <2>1 DEF SysInv, Ending, SysTypeOK, Up
  <2>3. PICK p \in Process : p = Head(ready) /\ InReady(p)
    BY <2>1, <2>2, HeadTailProperties DEF InReady
  <2>4. p \notin ended
    BY <2>2, <2>3 DEF TurnFree, Aside, Waits
  <2>5. dispatched'[p] > 0
    <3>1. dispatched \in [Process -> Nat]
      BY DEF SysInv, SysTypeOK
    <3> QED
      BY <2>1, <2>3, <3>1
  <2>6. Turn = {} /\ p \in Turn'
    BY <2>1, <2>2, <2>5 DEF TurnPlaced, Turn, HasTurn
  <2>7. Turn' = {p}
    BY <2>1, <2>2, <2>6 DEF TurnPlaced
  <2>8. Running = Idle /\ Running' = Head(ready) /\ Finished' = Finished /\ Arrived' = Arrived
    BY <2>1, <2>3, <2>4, <2>6, <2>7 DEF Running, Finished, Arrived
  <2> QED
    BY <2>1, <2>8 DEF FCFS!Next, FCFS!Dispatch
<1>5. CASE SchedNotified
  <2>1. /\ sched = "mmu" /\ mq2 # <<>> /\ sched' = "ready" /\ mq2' = Tail(mq2)
        /\ ready' = IF Head(mq2).type = 1 THEN Append(ready, Head(mq2).pid) ELSE ready
        /\ UNCHANGED <<ipc, proc, ended>>
    BY <1>5 DEF SchedNotified, masterVars, procVars, mmuVars, vars
  <2>2. ipc = "up" /\ Up
    BY <2>1 DEF SysInv, Ending, SysTypeOK
  <2>3. PICK p \in Process : HoldsAt(p, Reported(p) /\ ~InReady(p))
    BY <2>1, <2>2, WhoIsReported
  <2>4. Turn = {p} /\ Turn' = {} /\ Reported(p)
    BY <2>1, <2>2, <2>3 DEF TurnPlaced, HoldsAt, Holds
  <2>5. Running = p /\ p # Idle /\ Running' = Idle /\ Arrived' = Arrived /\ Finished' = ended
    BY <2>1, <2>4, ParamAssumption DEF Running, Finished, Arrived, Idle, Process
  <2>6. CASE mq2 = <<Msg(1, p)>> /\ p \notin ended
    <3>1. ready' = Append(ready, p)
      BY <2>1, <2>6, Single DEF Msg
    <3>2. Finished' = Finished
      BY <2>4, <2>5, <2>6 DEF Finished
    <3> QED
      BY <2>5, <3>1, <3>2 DEF FCFS!Next, FCFS!Block
  <2>7. CASE mq2 = <<Msg(2, p)>> /\ p \in ended
    <3>1. ready' = ready
      BY <2>1, <2>7, Single DEF Msg
    <3>2. Finished' = Finished \cup {p}
      BY <2>4, <2>5, <2>7 DEF Finished
    <3> QED
      BY <2>5, <3>1, <3>2 DEF FCFS!Next, FCFS!End
  <2> QED
    BY <2>4, <2>6, <2>7 DEF Reported, Waits, Gone
<1>6. CASE SchedExits
  <2>1. sched = "ready" /\ sched' = "done" /\ UNCHANGED <<ipc, proc, ready, ended>>
    BY <1>6 DEF SchedExits, queues, procVars, mmuVars, vars
  <2>2. Turn = {} /\ Turn' = {}
    BY <2>1 DEF TurnPlaced
  <2> QED
    BY <2>1, <2>2 DEF Running, Finished, Arrived
<1>7. CASE UNCHANGED sysVars
  <2>1. UNCHANGED <<ipc, proc, ready, ended, dispatched, request, reply, mq2, mmu, msg3>>
    BY <1>7 DEF sysVars, vars, masterVars, queues, procVars
  <2> QED
    BY <2>1 DEF Running, Finished, Arrived, Turn, HasTurn, OnCPU, AtMmu, Told, Asked, Granted
<1> QED
  BY <1>1, <1>2, <1>3, <1>4, <1>5, <1>6, <1>7 DEF SysNext, SchedNext

(* For any workload the four programs and their three queues implement a   *)
(* scheduler that gives one CPU to the processes first come first served:  *)
(* a process that faulted goes to the back, one that ended leaves, and     *)
(* nobody else gets the CPU meanwhile (sched.c:71-96, mmu.c:178-270,       *)
(* process.c:66-146).                                                      *)
THEOREM SysImplementsFCFS == SysSafety => FirstComeFirstServed
  BY SysInvariance, WhoseTurn, InitFCFS, StepFCFS, PTL DEF SysSafety, FirstComeFirstServed,
     FCFS!Spec
-----------------------------------------------------------------------------
(* The retry of a fault.                                                   *)

\* The reference p is at.
Ref(p) == refs[p][index[p]]

\* p has been told of a fault, or is about to read that.
Faulted(p) == buf[p] = Fault \/ (proc[p] = "waitmmu" /\ reply[p] = <<Fault>>)

InFault(p) == mmu = "fault" /\ msg3.pid = p

Found(p) == InMemory(p, Ref(p)) \/ \A a \in Page : ~Resident(p, a)

(* While the MMU is still busy with the fault, it is busy with the page p  *)
(* will ask for again.                                                     *)
Retries(p) ==
    /\ proc[p] = "waitmmu" => index[p] <= Len(refs[p]) /\ buf[p] = Ref(p)
    /\ buf[p] = Fault => proc[p] \in {"waitcpu", "run"}
    /\ Faulted(p) => /\ index[p] <= Len(refs[p])
                     /\ IF InFault(p) THEN msg3.page = Ref(p) ELSE Found(p)
    /\ ipc = "removed" => reply[p] # <<Fault>>

RetryInv == \A p \in Process : Retries(p)

LEMMA RefIsPage ==
    ASSUME SysTypeOK, NEW p \in Process, index[p] <= Len(refs[p])
    PROVE  Ref(p) \in Page
<1>1. refs[p] \in Seq(Page) /\ index[p] \in 1 .. Len(refs[p])
  BY RefStringAssumption DEF SysTypeOK
<1> QED
  BY <1>1 DEF Ref

(* A step that leaves p and its pages alone.                               *)
LEMMA RetriesKept ==
    ASSUME NEW p \in Process, Retries(p), proc'[p] = proc[p], reply'[p] = reply[p],
           buf'[p] = buf[p], index'[p] = index[p], UNCHANGED <<ipc, refs>>, pagetable'[p] = pagetable[p],
           InFault(p)' <=> InFault(p), InFault(p) => msg3' = msg3
    PROVE  Retries(p)'
<1>1. Ref(p)' = Ref(p)
  BY DEF Ref
<1>2. Found(p)' <=> Found(p)
  BY <1>1 DEF Found, InMemory, Resident
<1> QED
  BY <1>1, <1>2 DEF Retries, Faulted

(* A step after which p knows of no fault.                                 *)
LEMMA NoRetry ==
    ASSUME NEW p \in Process, buf'[p] # Fault, ~(proc'[p] = "waitmmu" /\ reply'[p] = <<Fault>>),
           proc'[p] = "waitmmu" => index'[p] <= Len(refs'[p]) /\ buf'[p] = Ref(p)',
           ipc' = "removed" => reply'[p] # <<Fault>>
    PROVE  Retries(p)'
  BY DEF Retries, Faulted

-----------------------------------------------------------------------------
(* The steps of the other programs that touch p's pages or replies.        *)

LEMMA RemovesRetry ==
    ASSUME SysInv, Inv, RetryInv, MasterNext PROVE RetryInv'
<1>1. UNCHANGED <<refs, index, buf, reply, pagetable, mmu, msg3>>
      /\ (UNCHANGED ipc \/ master = "remove")
  BY DEF MasterNext, MasterLearnsMmu, MasterForks, MasterNotified, MasterKillsMmu, MasterRemoves,
     mmuVars, vars, tables, schedVars, procVars, queues
<1>2. ASSUME NEW p \in Process PROVE Retries(p)'
  <2>1. Retries(p) /\ Ref(p)' = Ref(p) /\ (InFault(p)' <=> InFault(p))
    BY <1>1 DEF RetryInv, Ref, InFault
  <2>2. Found(p)' <=> Found(p)
    BY <1>1, <2>1 DEF Found, InMemory, Resident
  <2>3. CASE MasterForks
    <3>1. UNCHANGED ipc /\ proc' = [proc EXCEPT ![created] = "forked"]
      BY <2>3 DEF MasterForks
    <3>2. master = "fork" /\ created \in Process /\ proc[created] = "unborn"
      BY <2>3, ParamAssumption DEF MasterForks, SysInv, Starting, SysTypeOK, Process
    <3>3. CASE p # created
      BY <1>1, <2>1, <3>1, <3>3, RetriesKept DEF SysInv, SysTypeOK
    <3>4. CASE p = created
      <4>1. proc[p] = "unborn" /\ proc'[p] = "forked"
        BY <3>1, <3>2, <3>4 DEF SysInv, SysTypeOK
      <4> QED
        BY <1>1, <2>1, <3>1, <4>1, NoRetry DEF Retries
    <3> QED
      BY <3>3, <3>4
  <2>4. CASE MasterRemoves
    <3>1. UNCHANGED proc /\ ipc' = "removed" /\ master = "remove"
      BY <2>4 DEF MasterRemoves, procVars
    <3>2. ended = Process /\ ipc = "up"
      BY <3>1, EndsClean DEF CleanShutdown, SysInv, Ending, SysTypeOK
    <3>3. Up /\ sched = "done"
      BY <3>1, <3>2 DEF SysInv, Ending
    <3>4. Gone(p)
      BY <3>2, <3>3 DEF Up, TurnFree, Aside, Young, Waits
    <3>5. reply[p] # <<Fault>>
      BY <3>4, Single, NotAFrame DEF Gone
    <3> QED
      BY <1>1, <2>1, <2>2, <3>1, <3>5 DEF Retries, Faulted
  <2>5. CASE ~MasterForks /\ ~MasterRemoves
    <3>1. UNCHANGED <<proc, ipc>>
      BY <2>5 DEF MasterNext, MasterLearnsMmu, MasterNotified, MasterKillsMmu, procVars
    <3> QED
      BY <1>1, <2>1, <3>1, RetriesKept
  <2> QED
    BY <2>3, <2>4, <2>5
<1> QED
  BY <1>2 DEF RetryInv

LEMMA SchedRetry == ASSUME RetryInv, SchedNext \/ UNCHANGED sysVars PROVE RetryInv'
<1>1. UNCHANGED <<refs, index, buf, reply, pagetable, mmu, msg3, ipc, proc>>
  BY DEF SchedNext, SchedDispatch, SchedNotified, SchedExits, sysVars, mmuVars, vars, tables,
     masterVars, procVars, queues
<1>2. \A p \in Process : Retries(p)'
  BY <1>1, RetriesKept DEF RetryInv, InFault
<1> QED
  BY <1>2 DEF RetryInv

(* A step of one process: nothing of the others, and no page table.        *)
LEMMA ProcRetry ==
    ASSUME SysInv, RetryInv, NEW p \in Process, ProcNext(p) PROVE RetryInv'
<1>1. SysTypeOK /\ Retries(p) /\ UNCHANGED <<refs, ipc, pagetable, mmu, msg3>>
  BY DEF SysInv, RetryInv, ProcNext, ChildExecs, ProcEnqueues, ProcScheduled, ProcRefers, ProcEnds,
     ProcIllegal, ProcFaults, ProcGranted, ReceiveFrame, Others, mmuVars, vars, tables, masterVars
<1>2. \A a \in Frame \cup Page : a # Fault
  BY NotAFrame
<1>3. EndOfRefs # Fault /\ Illegal # Fault
  BY DEF EndOfRefs, Illegal, Fault
<1>4. proc[p] = "waitmmu" => buf[p] \in Page /\ index[p] <= Len(refs[p]) /\ buf[p] = Ref(p)
  BY <1>1, RefIsPage DEF Retries
<1>5. ASSUME NEW frame, ReceiveFrame(p, frame)
      PROVE  /\ proc[p] = "waitmmu" /\ buf'[p] = frame
             /\ ipc = "removed" => frame = buf[p] /\ reply'[p] = reply[p]
  BY <1>1, <1>5 DEF ReceiveFrame, SysTypeOK
<1>6. Retries(p)'
  <2>1. CASE ChildExecs(p) \/ ProcEnqueues(p)
    <3>1. proc[p] \in {"forked", "start"} /\ proc'[p] \in {"start", "waitcpu"}
          /\ buf'[p] = buf[p] /\ reply'[p] = reply[p]
      BY <1>1, <2>1 DEF ChildExecs, ProcEnqueues, SysTypeOK
    <3> QED
      BY <1>1, <3>1, NoRetry DEF Retries
  <2>2. CASE ProcScheduled(p)
    <3>1. proc[p] = "waitcpu" /\ proc'[p] = "run" /\ UNCHANGED <<buf, reply, index>>
      BY <1>1, <2>2 DEF ProcScheduled, SysTypeOK
    <3> QED
      BY <1>1, <3>1 DEF Retries, Faulted, InFault, Found, InMemory, Resident, Ref
  <2>3. CASE ProcRefers(p)
    <3>1. /\ proc[p] = "run" /\ proc'[p] = "waitmmu" /\ UNCHANGED <<reply, index>>
          /\ index[p] <= Len(refs[p]) /\ buf'[p] = Ref(p)
      BY <1>1, <2>3 DEF ProcRefers, SysTypeOK, Ref
    <3>2. buf'[p] # Fault
      BY <1>1, <1>2, <3>1, RefIsPage
    <3>3. ipc = "up" => reply[p] = <<>>
      BY <3>1, WhoHolds DEF SysInv, HoldsAt, Computing
    <3>4. reply[p] # <<Fault>>
      <4>1. <<Fault>> # <<>>
        OBVIOUS
      <4> QED
        BY <1>1, <3>3, <4>1 DEF Retries, SysTypeOK
    <3>5. Ref(p)' = Ref(p)
      BY <1>1, <3>1 DEF Ref
    <3> QED
      BY <1>1, <3>1, <3>2, <3>4, <3>5, NoRetry
  <2>4. CASE ProcEnds(p)
    <3>1. proc'[p] = "exited" /\ buf'[p] = EndOfRefs /\ UNCHANGED reply
      BY <1>1, <2>4 DEF ProcEnds, SysTypeOK
    <3> QED
      BY <1>1, <1>3, <3>1, NoRetry DEF Retries
  <2>5. CASE ProcIllegal(p)
    <3>1. ReceiveFrame(p, Illegal) /\ proc'[p] = "exited"
      BY <1>1, <2>5 DEF ProcIllegal, SysTypeOK
    <3> QED
      BY <1>1, <1>3, <1>5, <3>1, NoRetry DEF Retries
  <2>6. CASE ProcGranted(p)
    <3>1. PICK frame \in Frame \cup Page : ReceiveFrame(p, frame) /\ proc' = [proc EXCEPT ![p] = "run"]
      BY <2>6 DEF ProcGranted
    <3>2. proc'[p] = "run"
      BY <1>1, <3>1 DEF SysTypeOK
    <3> QED
      BY <1>1, <1>2, <1>5, <3>1, <3>2, NoRetry DEF Retries
  <2>7. CASE ProcFaults(p)
    <3>1. ReceiveFrame(p, Fault) /\ proc'[p] = "waitcpu" /\ UNCHANGED index
      BY <1>1, <2>7 DEF ProcFaults, SysTypeOK
    <3>2. proc[p] = "waitmmu" /\ buf'[p] = Fault /\ ipc = "up"
      BY <1>1, <1>2, <1>4, <1>5, <3>1 DEF SysTypeOK
    <3>3. reply[p] = <<Fault>>
      <4>1. Up /\ reply[p] # <<>> /\ Fault = Head(reply[p])
        BY <3>1, <3>2, Received
      <4> QED
        BY <3>2, <4>1, WhatIsSent, Single, NotAFrame
    <3>4. Faulted(p)
      BY <3>2, <3>3 DEF Faulted
    <3> QED
      BY <1>1, <3>1, <3>2, <3>4 DEF Retries, InFault, Found, InMemory, Resident, Ref
  <2> QED
    BY <2>1, <2>2, <2>3, <2>4, <2>5, <2>6, <2>7 DEF ProcNext
<1>7. ASSUME NEW q \in Process \ {p} PROVE Retries(q)'
  <2>1. proc'[q] = proc[q] /\ reply'[q] = reply[q] /\ buf'[q] = buf[q] /\ index'[q] = index[q]
    BY <1>1 DEF ProcNext, ChildExecs, ProcEnqueues, ProcScheduled, ProcRefers, ProcEnds,
     ProcIllegal, ProcFaults, ProcGranted, ReceiveFrame, SysTypeOK
  <2>2. Retries(q)
    BY DEF RetryInv
  <2> QED
    BY <1>1, <2>1, <2>2, RetriesKept DEF InFault
<1> QED
  BY <1>6, <1>7 DEF RetryInv

(* Either half-way fault ends with the page loaded, and nobody else's page *)
(* moved (mmu.c:224-257).                                                  *)
LEMMA LoadEffect ==
    ASSUME Inv, FaultLoad \/ FaultReplace
    PROVE  /\ \A q \in Process \ {msg3.pid} : pagetable'[q] = pagetable[q]
           /\ \E f \in Frame : pagetable'[msg3.pid][msg3.page] = Loaded(f)
<1>1. CASE FaultLoad
  BY <1>1, LoadPuts
<1>2. CASE FaultReplace
  <2>1. pagetable[msg3.pid][LRUVictim(msg3.pid)].frame \in Frame
    BY <1>2, ReplacePuts DEF Inv, TypeOK, EntryType
  <2> QED
    BY <1>2, <2>1, ReplacePuts
<1> QED
  BY <1>1, <1>2

(* When the scan finds no victim the process has no page at all: it does   *)
(* not take a loaded page for an absent one.                               *)
LEMMA NothingLoaded ==
    ASSUME Inv, Stamped, NEW p \in Process, LRUVictim(p) = NoPage, NEW a \in Page
    PROVE  ~Resident(p, a)
<1>1. Candidates(p) = {}
  <2>1. Candidates(p) # {} => LRUVictim(p) \in Candidates(p)
    BY VictimFound DEF Inv
  <2>2. NoPage \notin Candidates(p)
    BY DEF NoPage, Candidates, Required
  <2> QED
    BY <2>1, <2>2
<1>2. mi[p] \in 1 .. M /\ EntriesAgree
  BY DEF Inv, TypeOK, FrameOwnership
<1>3. Resident(p, a) => a \in Required(p)
  BY <1>2, ParamAssumption DEF EntriesAgree, Resident, Absent, Required, Page
<1>4. Resident(p, a) => pagetable[p][a].ts < IntMax
  BY ParamAssumption DEF Stamped, Inv, TypeOK, EntryType, TimestampType
<1> QED
  BY <1>1, <1>3, <1>4 DEF Candidates

(* A request is answered, or the fault is handled: the process the MMU     *)
(* serves finds its page, or has none, when it asks again.                 *)
LEMMA MmuRetry == ASSUME SysInv, Inv, Stamped, RetryInv, MmuNext PROVE RetryInv'
<1>0. UNCHANGED <<refs, ipc, proc, buf, index>>
  BY DEF MmuNext, MmuStarts, MmuTerminates, MmuHit, MmuIllegalReply,
     MmuIllegalRelease, MmuFaultReply, MmuFaultLoad, MmuFaultReplace, MmuFaultRetry, Finish,
     Untouched, masterVars, procVars
<1> SUFFICES \A r \in Process : Retries(r)'
  BY DEF RetryInv
\* It is enough to see the process that is served.
<1>1. ASSUME NEW p \in Process, \A q \in Process \ {p} : pagetable'[q] = pagetable[q],
             \A q \in Process \ {p} : reply'[q] = reply[q],
             \A q \in Process \ {p} : ~InFault(q) /\ ~InFault(q)',
             Retries(p)'
      PROVE  \A r \in Process : Retries(r)'
  BY <1>0, <1>1, RetriesKept DEF RetryInv
<1>2. \A q \in Process : Ref(q)' = Ref(q)
  BY <1>0 DEF Ref
<1>3. \A q \in Process : \A a : Serve(q, a) =>
         /\ ipc = "up" /\ Requesting(q) /\ reply[q] = <<>> /\ mmu = "recv"
         /\ a = EndOfRefs => proc[q] = "exited"
         /\ a \in Page => proc[q] = "waitmmu" /\ buf[q] = a
  BY Served DEF Requesting
<1>4. \A q \in Process : reply \in [Process -> Seq(Frame \cup {Fault, Illegal})] /\ Retries(q)
  BY DEF SysInv, SysTypeOK, RetryInv
<1>5. CASE MmuStarts
  <2>1. UNCHANGED <<pagetable, reply, mmu, msg3>>
    BY <1>5 DEF MmuStarts, mmuVars, vars, tables
  <2> QED
    BY <1>0, <1>4, <2>1, RetriesKept DEF InFault
<1>6. CASE MmuTerminates
  <2>1. PICK p \in Process : Serve(p, EndOfRefs) /\ Terminate(p) /\ UNCHANGED reply
    BY <1>6 DEF MmuTerminates
  <2>2. proc[p] = "exited" /\ mmu = "recv" /\ mmu' = "recv"
    BY <1>3, <2>1 DEF Terminate
  <2>3. \A q \in Process \ {p} : pagetable'[q] = pagetable[q]
    BY <2>1 DEF Terminate, Release, Inv, TypeOK
  <2>4. Retries(p)'
    BY <1>0, <1>4, <2>1, <2>2, NoRetry DEF Retries
  <2> QED
    BY <1>1, <2>1, <2>2, <2>3, <2>4 DEF InFault
<1>7. CASE MmuHit
  <2>1. PICK p \in Process, a \in Page :
            Serve(p, a) /\ Hit(p, a) /\ Answer(p, pagetable[p][a].frame)
    BY <1>7 DEF MmuHit
  <2>2. /\ ipc = "up" /\ reply[p] = <<>> /\ mmu = "recv" /\ mmu' = "recv"
        /\ proc[p] = "waitmmu" /\ buf[p] = a
    BY <1>3, <2>1 DEF Hit
  <2>3. \A q \in Process \ {p} : pagetable'[q] = pagetable[q] /\ reply'[q] = reply[q]
    BY <1>4, <2>1 DEF Hit, Inv, TypeOK, Answer
  <2>4. reply'[p] # <<Fault>>
    <3>1. reply'[p] = <<pagetable[p][a].frame>>
      BY <1>4, <2>1, <2>2, Single DEF Answer
    <3>2. pagetable[p][a].frame # Fault
      BY <2>1 DEF Hit, InMemory, Resident, NoFrame, Fault
    <3> QED
      BY <3>1, <3>2
  <2>5. buf[p] # Fault
    BY <2>2, NotAFrame
  <2>6. Retries(p)'
    BY <1>0, <1>2, <1>4, <2>2, <2>4, <2>5, NoRetry DEF Retries
  <2> QED
    BY <1>1, <2>2, <2>3, <2>6 DEF InFault
<1>8. CASE MmuIllegalReply
  <2>1. PICK p \in Process, a \in Page : Serve(p, a) /\ IllegalReply(p, a) /\ Answer(p, Illegal)
    BY <1>8 DEF MmuIllegalReply
  <2>2. /\ ipc = "up" /\ reply[p] = <<>> /\ mmu = "recv" /\ mmu' = "illegal"
        /\ proc[p] = "waitmmu" /\ buf[p] = a /\ UNCHANGED pagetable
    BY <1>3, <2>1 DEF IllegalReply, tables
  <2>3. \A q \in Process \ {p} : pagetable'[q] = pagetable[q] /\ reply'[q] = reply[q]
    BY <1>4, <2>1, <2>2 DEF Answer
  <2>4. reply'[p] # <<Fault>>
    <3>1. reply'[p] = <<Illegal>>
      BY <1>4, <2>1, <2>2, Single DEF Answer
    <3> QED
      BY <3>1, NotAFrame
  <2>5. buf[p] # Fault
    BY <2>2, NotAFrame
  <2>6. Retries(p)'
    BY <1>0, <1>2, <1>4, <2>2, <2>4, <2>5, NoRetry DEF Retries
  <2> QED
    BY <1>1, <2>2, <2>3, <2>6 DEF InFault
<1>9. CASE MmuFaultReply
  <2>1. PICK p \in Process, a \in Page : Serve(p, a) /\ FaultReply(p, a) /\ Answer(p, Fault)
    BY <1>9 DEF MmuFaultReply
  <2>2. /\ ipc = "up" /\ mmu = "recv" /\ mmu' = "fault" /\ msg3' = [pid |-> p, page |-> a]
        /\ proc[p] = "waitmmu" /\ buf[p] = a /\ UNCHANGED pagetable
    BY <1>3, <2>1 DEF FaultReply, tables
  <2>3. \A q \in Process \ {p} : pagetable'[q] = pagetable[q] /\ reply'[q] = reply[q]
    BY <1>4, <2>1, <2>2 DEF Answer
  <2>4. index[p] <= Len(refs[p]) /\ a = Ref(p)
    BY <1>4, <2>2 DEF Retries
  <2>5. InFault(p)' /\ msg3'.page = Ref(p)'
    BY <1>2, <2>2, <2>4 DEF InFault
  <2>6. buf[p] # Fault
    BY <2>2, NotAFrame
  <2>7. Retries(p)'
    BY <1>0, <1>2, <2>2, <2>4, <2>5, <2>6 DEF Retries
  <2> QED
    BY <1>1, <2>2, <2>3, <2>7 DEF InFault
\* The second half of a branch is of the process the first half answered.
<1>10. ASSUME mmu # "recv", mmu' = "recv", UNCHANGED <<reply, msg3>>, mmu_life = "running"
       PROVE  \E p \in Process :
                 /\ p = msg3.pid /\ Branching(p)
                 /\ \A q \in Process \ {p} : ~InFault(q) /\ ~InFault(q)'
                 /\ ~InFault(p)'
  <2>1. PICK p \in Process : p = msg3.pid
    BY DEF Inv, TypeOK
  <2>2. Up
    BY <1>10 DEF SysInv, Ending, SysTypeOK
  <2>3. Branching(p)
    BY <1>10, <2>1, <2>2, WhoHolds DEF HoldsAt
  <2> QED
    BY <1>10, <2>1, <2>3 DEF InFault
<1>11. CASE MmuIllegalRelease
  <2>1. /\ mmu = "illegal" /\ mmu' = "recv" /\ UNCHANGED <<reply, msg3>> /\ mmu_life = "running"
        /\ Release(msg3.pid)
    BY <1>11 DEF MmuIllegalRelease, IllegalRelease, Finish
  <2>2. PICK p \in Process :
            /\ p = msg3.pid /\ Branching(p)
            /\ \A q \in Process \ {p} : ~InFault(q) /\ ~InFault(q)'
            /\ ~InFault(p)'
    BY <1>10, <2>1
  <2>3. \A q \in Process \ {p} : pagetable'[q] = pagetable[q]
    BY <2>1, <2>2 DEF Release, Inv, TypeOK
  <2>4. Gone(p)
    BY <2>1, <2>2 DEF Branching
  <2>5. Retries(p)'
    <3>1. buf[p] # Fault
      BY <1>4, <2>4 DEF Gone, Retries
    <3>2. reply[p] # <<Fault>>
      BY <2>4, NotAFrame, Single DEF Gone
    <3> QED
      BY <1>0, <1>2, <1>4, <2>1, <3>1, <3>2, NoRetry DEF Retries
  <2> QED
    BY <1>1, <2>1, <2>2, <2>3, <2>5
<1>12. CASE MmuFaultLoad \/ MmuFaultReplace \/ MmuFaultRetry
  <2>1. /\ mmu = "fault" /\ mmu' = "recv" /\ UNCHANGED <<reply, msg3>> /\ mmu_life = "running"
        /\ FaultLoad \/ FaultReplace \/ FaultRetry
    BY <1>12 DEF MmuFaultLoad, MmuFaultReplace, MmuFaultRetry, FaultLoad, FaultReplace, FaultRetry,
       Finish
  <2>2. PICK p \in Process :
            /\ p = msg3.pid /\ Branching(p)
            /\ \A q \in Process \ {p} : ~InFault(q) /\ ~InFault(q)'
            /\ ~InFault(p)'
    BY <1>10, <2>1
  <2>3. InFault(p)
    BY <2>1, <2>2 DEF InFault
  <2>4. \A q \in Process \ {p} : pagetable'[q] = pagetable[q]
    BY <2>1, <2>2, LoadEffect DEF FaultRetry, tables
  <2>5. Faulted(p) => Found(p)'
    <3>1. CASE FaultLoad \/ FaultReplace
      <4>1. InMemory(p, msg3.page)'
        <5>1. PICK f \in Frame : pagetable'[msg3.pid][msg3.page] = Loaded(f)
          BY <3>1, LoadEffect
        <5>2. f # NoFrame
          BY ParamAssumption DEF Frame, NoFrame
        <5> QED
          BY <2>1, <2>2, <5>1, <5>2 DEF InMemory, Resident, Loaded
      <4>2. Faulted(p) => msg3'.page = Ref(p)'
        BY <1>2, <1>4, <2>1, <2>3 DEF Retries
      <4> QED
        BY <4>1, <4>2 DEF Found
    <3>2. CASE FaultRetry
      <4>1. UNCHANGED pagetable /\ LRUVictim(p) = NoPage
        BY <2>2, <3>2 DEF FaultRetry, tables
      <4>2. \A a \in Page : ~Resident(p, a)
        BY <4>1, NothingLoaded
      <4> QED
        BY <4>1, <4>2 DEF Found, Resident
    <3> QED
      BY <2>1, <3>1, <3>2
  <2>6. Retries(p)'
    BY <1>0, <1>2, <1>4, <2>1, <2>2, <2>5 DEF Retries, Faulted
  <2> QED
    BY <1>1, <2>1, <2>2, <2>4, <2>6
<1> QED
  BY <1>5, <1>6, <1>7, <1>8, <1>9, <1>11, <1>12 DEF MmuNext

LEMMA InitRetry == SysInit => RetryInv
<1> SUFFICES ASSUME SysInit, NEW p \in Process PROVE Retries(p)
  BY DEF RetryInv
<1>1. proc[p] = "unborn" /\ buf[p] # Fault /\ ipc = "up"
  BY DEF SysInit, Fault
<1> QED
  BY <1>1 DEF Retries, Faulted

LEMMA StepRetry == SysInv /\ Inv /\ Stamped /\ RetryInv /\ [SysNext]_sysVars => RetryInv'
  BY RemovesRetry, SchedRetry, ProcRetry, MmuRetry DEF SysNext

(* For any workload, a process asks again for a page that faulted only     *)
(* when it will find it, unless it has no page at all because no frame was *)
(* to be had (process.c:129, mmu.c:216-270).                               *)
THEOREM RetrySucceeds == SysSafety => RetryFinds
<1>1. ASSUME SysInv, RetryInv, [SysNext]_sysVars, NEW p \in Process,
             buf[p] = Fault, buf'[p] \in Page
      PROVE  InMemory(p, buf'[p]) \/ \A a \in Page : ~Resident(p, a)
  <2>1. Retries(p) /\ SysTypeOK
    BY <1>1 DEF RetryInv, SysInv
  <2>2. proc[p] \in {"waitcpu", "run"} /\ Faulted(p) /\ buf'[p] # buf[p]
    BY <1>1, <2>1, NotAFrame DEF Retries, Faulted
  <2>3. PICK q \in Process : ProcNext(q)
    <3>1. ~MasterNext /\ ~SchedNext /\ ~MmuNext /\ ~UNCHANGED sysVars
      BY <2>2 DEF MasterNext, MasterLearnsMmu, MasterForks, MasterNotified, MasterKillsMmu,
         MasterRemoves, SchedNext, SchedDispatch, SchedNotified, SchedExits, MmuNext, MmuStarts,
         MmuTerminates, MmuHit, MmuIllegalReply, MmuIllegalRelease, MmuFaultReply, MmuFaultLoad,
         MmuFaultReplace, MmuFaultRetry, Finish, Untouched, sysVars, procVars
    <3> QED
      BY <1>1, <3>1 DEF SysNext
  <2>4. ProcRefers(p)
    <3>1. \A r : r # q => buf'[r] = buf[r] \/ r \notin Process
      BY <2>1, <2>3 DEF ProcNext, ChildExecs, ProcEnqueues, ProcScheduled, ProcRefers, ProcEnds,
         ProcIllegal, ProcFaults, ProcGranted, ReceiveFrame, SysTypeOK
    <3>2. ProcNext(p)
      BY <2>2, <2>3, <3>1
    <3>3. ~ChildExecs(p) /\ ~ProcEnqueues(p) /\ ~ProcScheduled(p)
      BY <2>2 DEF ChildExecs, ProcEnqueues, ProcScheduled
    <3>4. ~ProcIllegal(p) /\ ~ProcFaults(p) /\ ~ProcGranted(p)
      BY <2>2 DEF ProcIllegal, ProcFaults, ProcGranted, ReceiveFrame
    <3>5. ~ProcEnds(p)
      BY <1>1, <2>1, ParamAssumption DEF ProcEnds, EndOfRefs, Page, SysTypeOK
    <3> QED
      BY <3>2, <3>3, <3>4, <3>5 DEF ProcNext
  <2>5. proc[p] = "run" /\ buf'[p] = Ref(p)
    BY <2>1, <2>4 DEF ProcRefers, SysTypeOK, Ref
  <2>6. mmu = "recv"
    <3>1. ipc = "up" => Up
      BY <1>1 DEF SysInv
    <3>2. ipc = "up" => mmu = "recv"
      BY <2>5, <3>1, WhoHolds DEF HoldsAt, Computing
    <3>3. ipc = "removed" => mmu = "recv"
      BY <1>1 DEF SysInv, Down
    <3> QED
      BY <2>1, <3>2, <3>3 DEF SysTypeOK
  <2>7. Found(p)
    BY <2>1, <2>2, <2>6 DEF Retries, InFault
  <2> QED
    BY <2>5, <2>7 DEF Found
<1>2. SysInv /\ RetryInv /\ [SysNext]_sysVars =>
         [\A p \in Process :
            (buf[p] = Fault /\ buf'[p] \in Page) =>
               \/ InMemory(p, buf'[p])
               \/ \A a \in Page : ~Resident(p, a)]_sysVars
  BY <1>1
<1> QED
  BY <1>2, SysInvariance, SysImplementsMmu, StampsInOrder, InitRetry, StepRetry, PTL
  DEF SysSafety, RetryFinds
=============================================================================
