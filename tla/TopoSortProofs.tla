--------------------------- MODULE TopoSortProofs ---------------------------
(***************************************************************************)
(* Mutual exclusion and the topological order of T in TopoSort, for every  *)
(* number of workers and every graph (acyclic or not: a cycle would only   *)
(* stop the workers on it).                                                *)
(***************************************************************************)
EXTENDS TopoSort, FiniteSetTheorems, SequenceTheorems, TLAPS

\* Workers that have written their node and advanced idx.
Placed == {i \in Node : worker[i] \in {"edges", "notify", "done"}}

\* Predecessors of j that have still to decrement sync[j].
Signalled(i, j) ==
    \/ worker[i] \in {"notify", "done"}
    \/ worker[i] = "edges" /\ edge[i] > j

Pending(j) == {i \in Node : <<i, j>> \in A /\ ~Signalled(i, j)}

Outside == \A i \in Node : ~InCS(i)

(* The token is in one place at most.                                      *)
Token ==
    /\ MutualExclusion
    /\ mtx = 1 => Outside /\ ntfy = 0 /\ boss # "admit"
    /\ ntfy = 1 => Outside /\ mtx = 0 /\ boss # "admit"
    /\ boss = "admit" => Outside /\ mtx = 0 /\ ntfy = 0

(* idx counts the placed workers; the boss leaves its loop when it is N.   *)
Count ==
    /\ idx = Cardinality(Placed)
    /\ boss \in {"print", "remove", "done"} => idx = N
    /\ ipc = "removed" => boss = "done"

(* sync[j] counts the predecessors that have not signalled j.              *)
SyncExact == ipc = "up" => \A j \in Node : sync[j] = Cardinality(Pending(j))

EdgeIndex ==
    \A i \in Node : /\ worker[i] \in {"sync", "mtx", "write", "inc"} => edge[i] = 0
                    /\ worker[i] = "edges" => edge[i] < N

(* All the predecessors of a worker that got past its wait have signalled  *)
(* it, so they are in T and have nothing more to signal it.                *)
Released ==
    \A i, j \in Node : worker[j] # "sync" /\ <<i, j>> \in A => Signalled(i, j)

(* The boss has not printed, or its check said "Well done".                *)
Verdict == boss \in {"remove", "done"} => correct

(* T holds the placed nodes, and the node about to be placed.              *)
Written ==
    /\ \A k \in 0 .. idx-1 : T[k] \in Placed
    /\ \A i \in Placed : \E k \in 0 .. idx-1 : T[k] = i
    /\ \A i \in Node : worker[i] = "inc" => T[idx] = i

Inv ==
    /\ TypeOK
    /\ Token
    /\ Count
    /\ SyncExact
    /\ EdgeIndex
    /\ Released
    /\ Written
    /\ TopologicalOrder
    /\ Verdict

-----------------------------------------------------------------------------
(* Counting.                                                               *)

LEMMA NodeFinite == IsFiniteSet(Node) /\ Cardinality(Node) = N
<1>1. 0 \in Int /\ N-1 \in Int /\ ~(0 > N-1) /\ (N-1) - 0 + 1 = N
  BY ParamAssumption
<1> QED
  BY <1>1, FS_Interval DEF Node

(* idx is N only when every worker has written its node.                   *)
LEMMA AllPlaced ==
    ASSUME TypeOK, Count
    PROVE  /\ IsFiniteSet(Placed)
           /\ idx = N => Placed = Node
           /\ Placed # Node => idx < N
<1>1. Placed \in SUBSET Node
  BY DEF Placed
<1> QED
  BY <1>1, NodeFinite, FS_Subset, ParamAssumption DEF Count, TypeOK

LEMMA PendingFinite == \A j \in Node : IsFiniteSet(Pending(j))
<1> SUFFICES ASSUME NEW j \in Node
             PROVE  IsFiniteSet(Pending(j))
  OBVIOUS
<1>1. Pending(j) \in SUBSET Node
  BY DEF Pending
<1> QED
  BY <1>1, NodeFinite, FS_Subset

(* A worker that sees sync zero has no predecessor that is not in T.       *)
LEMMA ZeroMeansReleased ==
    ASSUME Inv, NEW j \in Node, ipc = "up", sync[j] = 0
    PROVE  \A i \in Node : <<i, j>> \in A => Signalled(i, j)
<1>1. Cardinality(Pending(j)) = 0
  BY DEF Inv, SyncExact
<1>2. Pending(j) = {}
  BY <1>1, PendingFinite, FS_EmptySet
<1> QED
  BY <1>2 DEF Pending

LEMMA SignalledIsPlaced ==
    ASSUME NEW i \in Node, NEW j \in Node, Signalled(i, j)
    PROVE  i \in Placed
  BY DEF Signalled, Placed

(* When T is complete the boss's check finds nothing: the nodes before     *)
(* T[k] that are its predecessors are as many as its predecessors.         *)
LEMMA CheckSucceeds ==
    ASSUME Inv, Placed = Node, idx = N
    PROVE  Valid
<1> SUFFICES ASSUME NEW k \in Node
             PROVE  Cardinality({m \in 0 .. k-1 : <<T[m], T[k]>> \in A}) = Indegree(A, T[k])
  BY DEF Valid
<1> DEFINE Before == {m \in 0 .. k-1 : <<T[m], T[k]>> \in A}
           Preds == {j \in Node : <<j, T[k]>> \in A}
           Name == [m \in Before |-> T[m]]
<1>1. /\ 0 .. idx-1 = Node /\ k \in Int
      /\ \A m \in 0 .. k-1 : m \in Node
  BY ParamAssumption DEF Node
<1>2. Name \in Bijection(Before, Preds)
  <2>1. Name \in [Before -> Preds]
    BY <1>1 DEF Inv, TopologicalOrder
  <2>2. \A m, n \in Before : Name[m] = Name[n] => m = n
    BY <1>1 DEF Inv, TopologicalOrder
  <2>3. \A j \in Preds : \E m \in Before : Name[m] = j
    <3> SUFFICES ASSUME NEW j \in Node, <<j, T[k]>> \in A PROVE \E m \in Before : Name[m] = j
      OBVIOUS
    <3>1. PICK m \in 0 .. k-1 : T[m] = j
      BY <1>1 DEF Inv, TopologicalOrder
    <3> QED
      BY <3>1
  <2> HIDE DEF Before, Preds, Name
  <2>4. Name \in Injection(Before, Preds)
    BY <2>1, <2>2 DEF Injection, IsInjective
  <2>5. Name \in Surjection(Before, Preds)
    BY <2>1, <2>3 DEF Surjection
  <2> QED
    BY <2>4, <2>5 DEF Bijection
<1>3. IsFiniteSet(Before)
  <2>1. Before \in SUBSET Node
    BY <1>1
  <2> QED
    BY <2>1, NodeFinite, FS_Subset
<1> HIDE DEF Before, Preds, Name
<1>4. Cardinality(Before) = Cardinality(Preds)
  BY <1>2, <1>3, FS_Bijection DEF ExistsBijection
<1> QED
  BY <1>4 DEF Before, Preds, Indegree

(* Once the boss has removed the semaphores every worker is past its waits. *)
LEMMA RemovedMeansPlaced ==
    ASSUME Inv, ipc = "removed"
    PROVE  Placed = Node
  BY AllPlaced DEF Inv, Count

-----------------------------------------------------------------------------
LEMMA InitInv == Init => Inv
<1> SUFFICES ASSUME Init
             PROVE  Inv
  OBVIOUS
<1>1. Placed = {}
  BY DEF Init, Placed
<1>2. \A j \in Node : Pending(j) = {i \in Node : <<i, j>> \in A}
  BY DEF Init, Pending, Signalled
<1>3. \A j \in Node : Indegree(A, j) = Cardinality(Pending(j))
  BY <1>2 DEF Indegree
<1>4. TypeOK
  <2>1. \A j \in Node : sync[j] \in Nat
    BY <1>3, PendingFinite, FS_CardinalityType DEF Init
  <2> QED
    BY <2>1, ParamAssumption DEF Init, TypeOK
<1>5. SyncExact
  BY <1>3 DEF Init, SyncExact
<1>6. Token
  BY DEF Init, Token, MutualExclusion, Outside, InCS
<1>7. Count
  BY <1>1, FS_EmptySet DEF Init, Count
<1>8. EdgeIndex /\ Released
  BY DEF Init, EdgeIndex, Released
<1>9. Written /\ TopologicalOrder /\ Verdict
  BY <1>1 DEF Init, Written, TopologicalOrder, Verdict
<1> QED
  BY <1>4, <1>5, <1>6, <1>7, <1>8, <1>9 DEF Inv

(* The boss's steps leave the workers, T and idx alone.                    *)
LEMMA BossInv ==
    ASSUME Inv, BossNext
    PROVE  Inv'
<1> USE DEF shared, sems
<1>1. /\ UNCHANGED <<A, T, idx, sync, worker, edge>>
      /\ ipc' = "up" => ipc = "up"
      /\ boss' \in {"print", "remove", "done"} => idx = N
      /\ ipc' = "removed" => boss' = "done"
      /\ TypeOK'
  <2> USE DEF Inv, TypeOK, Count
  <2>1. CASE BossWaits
    BY <2>1 DEF BossWaits, Token
  <2>2. CASE BossAdmits
    BY <2>2 DEF BossAdmits, Token
  <2>3. CASE BossChecks
    BY <2>3 DEF BossChecks
  <2>4. CASE BossPrints
    BY <2>4 DEF BossPrints, Valid
  <2>5. CASE BossRemoves
    BY <2>5 DEF BossRemoves
  <2> QED
    BY <2>1, <2>2, <2>3, <2>4, <2>5 DEF BossNext
<1>2. Placed' = Placed /\ (\A j \in Node : Pending(j)' = Pending(j))
  BY <1>1 DEF Placed, Pending, Signalled
<1>3. Token'
  <2> USE DEF Inv, Token, MutualExclusion, Outside, InCS, TypeOK
  <2>1. CASE BossWaits
    BY <2>1 DEF BossWaits
  <2>2. CASE BossAdmits
    BY <2>2 DEF BossAdmits
  <2>3. CASE BossChecks \/ BossPrints \/ BossRemoves
    BY <2>3 DEF BossChecks, BossPrints, BossRemoves
  <2> QED
    BY <2>1, <2>2, <2>3 DEF BossNext
<1>4. Count' /\ SyncExact'
  BY <1>1, <1>2 DEF Inv, Count, SyncExact
<1>5. EdgeIndex' /\ Released' /\ Written' /\ TopologicalOrder'
  BY <1>1, <1>2 DEF Inv, EdgeIndex, Released, Signalled, Written, TopologicalOrder
<1>6. Verdict'
  <2>1. CASE BossPrints
    <3>1. boss = "print" /\ correct' = Valid
      BY <2>1 DEF BossPrints
    <3>2. Valid
      BY <3>1, AllPlaced, CheckSucceeds DEF Inv, Count
    <3> QED
      BY <3>1, <3>2 DEF Verdict
  <2>2. CASE BossWaits \/ BossAdmits \/ BossChecks \/ BossRemoves
    BY <2>2 DEF BossWaits, BossAdmits, BossChecks, BossRemoves, Inv, Verdict
  <2> QED
    BY <2>1, <2>2 DEF BossNext
<1> QED
  BY <1>1, <1>3, <1>4, <1>5, <1>6 DEF Inv

(* Before its write a worker changes only mtx, and takes the token.        *)
LEMMA WorkerSyncedInv ==
    ASSUME Inv, NEW i \in Node, WorkerSynced(i)
    PROVE  Inv'
<1> USE DEF WorkerSynced, At, shared, sems
<1>1. TypeOK'
  BY DEF Inv, TypeOK
<1>2. \A j \in Node : worker'[j] = IF j = i THEN "mtx" ELSE worker[j]
  BY DEF Inv, TypeOK
<1>3. Placed' = Placed /\ (\A j \in Node : Pending(j)' = Pending(j))
  BY <1>2 DEF Placed, Pending, Signalled
<1>4. Token'
  BY <1>2 DEF Inv, Token, MutualExclusion, Outside, InCS
<1>5. Count' /\ SyncExact'
  BY <1>3 DEF Inv, Count, SyncExact
<1>6. Released'
  <2>1. ipc = "up"
    <3>1. i \notin Placed
      BY DEF Placed
    <3> QED
      BY <3>1, RemovedMeansPlaced DEF Inv, TypeOK
  <2>2. \A j \in Node : <<j, i>> \in A => Signalled(j, i)
    BY <2>1, ZeroMeansReleased
  <2>3. \A j, k \in Node : Signalled(j, k) => Signalled(j, k)'
    BY <1>2 DEF Signalled
  <2> QED
    BY <1>2, <2>2, <2>3 DEF Inv, Released
<1>7. EdgeIndex' /\ Written' /\ TopologicalOrder' /\ Verdict'
  BY <1>2, <1>3 DEF Inv, EdgeIndex, Written, TopologicalOrder, Verdict
<1> QED
  BY <1>1, <1>4, <1>5, <1>6, <1>7 DEF Inv

LEMMA WorkerLocksInv ==
    ASSUME Inv, NEW i \in Node, WorkerLocks(i)
    PROVE  Inv'
<1> USE DEF WorkerLocks, At, shared, sems
<1>1. ipc = "up" /\ mtx = 1 /\ mtx' = 0
  <2>1. i \notin Placed
    BY DEF Placed
  <2>2. ipc = "up"
    BY <2>1, RemovedMeansPlaced DEF Inv, TypeOK
  <2> QED
    BY <2>2 DEF Inv, TypeOK
<1>2. TypeOK'
  BY <1>1 DEF Inv, TypeOK
<1>3. \A j \in Node : worker'[j] = IF j = i THEN "write" ELSE worker[j]
  BY DEF Inv, TypeOK
<1>4. Placed' = Placed /\ (\A j \in Node : Pending(j)' = Pending(j))
  BY <1>3 DEF Placed, Pending, Signalled
<1>5. Token'
  BY <1>1, <1>3 DEF Inv, Token, MutualExclusion, Outside, InCS
<1>6. Count' /\ SyncExact'
  BY <1>4 DEF Inv, Count, SyncExact
<1>7. EdgeIndex' /\ Released' /\ Written' /\ TopologicalOrder' /\ Verdict'
  BY <1>3, <1>4 DEF Inv, EdgeIndex, Released, Signalled, Written, TopologicalOrder, Verdict
<1> QED
  BY <1>2, <1>5, <1>6, <1>7 DEF Inv

(* The write is past the listed part of T, inside the array.               *)
LEMMA WorkerWritesInv ==
    ASSUME Inv, NEW i \in Node, WorkerWrites(i)
    PROVE  Inv'
<1> USE DEF WorkerWrites, At, shared, sems
<1>1. idx \in Node
  <2>1. i \notin Placed
    BY DEF Placed
  <2>2. idx < N
    BY <2>1, AllPlaced DEF Inv
  <2> QED
    BY <2>2, ParamAssumption DEF Inv, TypeOK, Node
<1>2. TypeOK'
  BY DEF Inv, TypeOK
<1>3. \A j \in Node : worker'[j] = IF j = i THEN "inc" ELSE worker[j]
  BY DEF Inv, TypeOK
<1>4. T'[idx] = i /\ \A k \in 0 .. idx-1 : T'[k] = T[k]
  <2>1. \A k \in 0 .. idx-1 : k \in Node /\ k # idx
    BY <1>1, ParamAssumption DEF Node
  <2> QED
    BY <1>1, <2>1 DEF Inv, TypeOK
<1>5. Placed' = Placed /\ (\A j \in Node : Pending(j)' = Pending(j))
  BY <1>3 DEF Placed, Pending, Signalled
<1>6. Token'
  BY <1>3 DEF Inv, Token, MutualExclusion, Outside, InCS
<1>7. Count' /\ SyncExact'
  BY <1>5 DEF Inv, Count, SyncExact
<1>8. EdgeIndex' /\ Released' /\ Verdict'
  BY <1>3, <1>5 DEF Inv, EdgeIndex, Released, Signalled, Verdict
<1>9. Written'
  <2>1. \A j \in Node : worker'[j] = "inc" => j = i
    BY <1>3 DEF Inv, Token, MutualExclusion, InCS
  <2> QED
    BY <1>4, <1>5, <2>1 DEF Inv, Written
<1>10. TopologicalOrder'
  <2>1. \A k \in 0 .. idx-1 : 0 .. k-1 \subseteq 0 .. idx-1
    BY DEF Inv, TypeOK
  <2> QED
    BY <1>4, <2>1 DEF Inv, TopologicalOrder
<1> QED
  BY <1>2, <1>6, <1>7, <1>8, <1>9, <1>10 DEF Inv

(* The step that lists a node: its predecessors are listed already.        *)
LEMMA WorkerIncrementsInv ==
    ASSUME Inv, NEW i \in Node, WorkerIncrements(i)
    PROVE  Inv'
<1> USE DEF WorkerIncrements, At, shared, sems
<1>1. i \notin Placed
  BY DEF Placed
<1>2. idx < N /\ IsFiniteSet(Placed)
  BY <1>1, AllPlaced DEF Inv
<1>3. TypeOK'
  BY <1>2, ParamAssumption DEF Inv, TypeOK
<1>4. \A j \in Node : worker'[j] = IF j = i THEN "edges" ELSE worker[j]
  BY DEF Inv, TypeOK
<1>5. Placed' = Placed \cup {i} /\ T[idx] = i
  BY <1>4 DEF Placed, Inv, Written
<1>sig. \A j, k \in Node : Signalled(k, j)' <=> Signalled(k, j)
  <2>1. ~(edge[i] > 0)
    BY ParamAssumption DEF Inv, TypeOK, EdgeIndex
  <2> QED
    BY <1>4, <2>1, ParamAssumption DEF Signalled, Inv, TypeOK, EdgeIndex, Node
<1>6. \A j \in Node : Pending(j)' = Pending(j)
  BY <1>sig DEF Pending
<1>7. Token'
  BY <1>4 DEF Inv, Token, MutualExclusion, Outside, InCS
<1>8. Count'
  <2>1. Cardinality(Placed') = Cardinality(Placed) + 1
    BY <1>1, <1>2, <1>5, FS_AddElement
  <2>2. ~(boss \in {"print", "remove", "done"})
    BY <1>2, ParamAssumption DEF Inv, Count, TypeOK
  <2> QED
    BY <2>1, <2>2 DEF Inv, Count
<1>9. SyncExact'
  BY <1>6 DEF Inv, SyncExact
<1>10. EdgeIndex'
  BY <1>4, ParamAssumption DEF Inv, EdgeIndex
<1>11. Released' /\ Verdict'
  BY <1>4, <1>sig DEF Inv, Released, Verdict
<1>12. \A k : k \in 0 .. idx'-1 <=> k \in 0 .. idx-1 \/ k = idx
  BY DEF Inv, TypeOK
<1>13. Written'
  <2>1. \A j \in Node : worker'[j] # "inc"
    BY <1>4 DEF Inv, Token, MutualExclusion, InCS
  <2> QED
    BY <1>5, <1>12, <2>1 DEF Inv, Written
<1>14. TopologicalOrder'
  <2>1. \A k \in 0 .. idx-1 : T[k] # i
    BY <1>1 DEF Inv, Written
  <2>2. \A k, m \in 0 .. idx'-1 : T[k] = T[m] => k = m
    BY <1>5, <1>12, <2>1 DEF Inv, TopologicalOrder
  <2>3. \A j \in Node : <<j, i>> \in A => \E m \in 0 .. idx-1 : T[m] = j
    BY SignalledIsPlaced DEF Inv, Released, Written
  <2>4. \A k \in 0 .. idx'-1 :
           /\ T[k] \in Node
           /\ \A j \in Node : <<j, T[k]>> \in A => \E m \in 0 .. k-1 : T[m] = j
    BY <1>5, <1>12, <2>3 DEF Inv, TopologicalOrder
  <2> QED
    BY <2>2, <2>4 DEF TopologicalOrder
<1> QED
  BY <1>3, <1>7, <1>8, <1>9, <1>10, <1>11, <1>13, <1>14 DEF Inv

(* Decrementing sync[j] takes the worker out of the pending predecessors   *)
(* of j, and of no other node.                                             *)
LEMMA WorkerSignalsInv ==
    ASSUME Inv, NEW i \in Node, WorkerSignals(i)
    PROVE  Inv'
<1> DEFINE j == edge[i]
           next == IF j + 1 = N THEN "notify" ELSE "edges"
<1> USE DEF WorkerSignals, At, shared
<1>1. j \in Node /\ j + 1 \in 0 .. N
  BY ParamAssumption DEF Inv, TypeOK, EdgeIndex, Node
<1>2. /\ \A k \in Node : worker'[k] = IF k = i THEN next ELSE worker[k]
      /\ \A k \in Node : edge'[k] = IF k = i THEN j + 1 ELSE edge[k]
  BY DEF Inv, TypeOK
<1>3. TypeOK'
  BY <1>1 DEF Inv, TypeOK
<1>4. Placed' = Placed
  BY <1>2 DEF Placed
<1>5. Token'
  BY <1>2 DEF Inv, Token, MutualExclusion, Outside, InCS
<1>6. Count'
  BY <1>4 DEF Inv, Count
<1>sig. \A m, k \in Node : Signalled(k, m)' <=> Signalled(k, m) \/ (m = j /\ k = i)
  <2> SUFFICES ASSUME NEW m \in Node, NEW k \in Node
               PROVE  Signalled(k, m)' <=> Signalled(k, m) \/ (m = j /\ k = i)
    OBVIOUS
  <2>1. CASE k = i
    <3>1. j \in Int /\ m \in Int /\ worker[i] = "edges"
      BY <1>1, ParamAssumption DEF Node
    <3>2. (j + 1 > m) <=> (j > m \/ m = j)
      BY <3>1
    <3>3. worker'[i] = next /\ edge'[i] = j + 1
      BY <1>2
    <3>4. next = "notify" => j + 1 > m
      BY <3>1, ParamAssumption DEF Node
    <3>5. next \in {"notify", "edges"}
      OBVIOUS
    <3> HIDE DEF next, WorkerSignals
    <3> QED
      BY <2>1, <3>1, <3>2, <3>3, <3>4, <3>5 DEF Signalled
  <2>2. CASE k # i
    BY <1>2, <2>2 DEF Signalled
  <2> QED
    BY <2>1, <2>2
<1>7. \A m \in Node : Pending(m)' = IF m = j THEN Pending(m) \ {i} ELSE Pending(m)
  BY <1>sig DEF Pending
<1>8. SyncExact'
  <2> SUFFICES ASSUME ipc = "up", NEW m \in Node
               PROVE  sync'[m] = Cardinality(Pending(m)')
    BY DEF SyncExact
  <2>1. sync[m] = Cardinality(Pending(m)) /\ sync[m] \in Nat
    BY DEF Inv, TypeOK, SyncExact
  <2>2. CASE m # j
    BY <1>7, <2>1, <2>2 DEF Inv, TypeOK
  <2>3. CASE m = j /\ <<i, j>> \in A
    <3>1. i \in Pending(m)
      BY <1>1, <2>3 DEF Pending, Signalled, Inv, TypeOK
    <3>2. Cardinality(Pending(m) \ {i}) = Cardinality(Pending(m)) - 1
      BY <3>1, PendingFinite, FS_RemoveElement
    <3>3. sync'[m] = sync[m] - 1
      BY <1>1, <2>3 DEF Inv, TypeOK
    <3> QED
      BY <1>7, <2>1, <2>3, <3>2, <3>3
  <2>4. CASE m = j /\ <<i, j>> \notin A
    <3>1. i \notin Pending(m)
      BY <2>4 DEF Pending
    <3>2. Pending(m) \ {i} = Pending(m)
      BY <3>1
    <3> QED
      BY <1>7, <2>1, <2>4, <3>2 DEF Inv, TypeOK
  <2> QED
    BY <2>2, <2>3, <2>4
<1>9. EdgeIndex'
  BY <1>1, <1>2, ParamAssumption DEF Inv, EdgeIndex
<1>10. Released' /\ Written' /\ TopologicalOrder' /\ Verdict'
  BY <1>2, <1>4, <1>sig DEF Inv, Released, Written, TopologicalOrder, Verdict
<1> QED
  BY <1>3, <1>5, <1>6, <1>8, <1>9, <1>10 DEF Inv

(* V(ntfy) gives the token back to the boss.                               *)
LEMMA WorkerNotifiesInv ==
    ASSUME Inv, NEW i \in Node, WorkerNotifies(i)
    PROVE  Inv'
<1> USE DEF WorkerNotifies, At, shared
<1>1. InCS(i) /\ mtx = 0 /\ ntfy = 0 /\ boss # "admit"
  BY DEF Inv, TypeOK, Token, Outside, InCS
<1>2. \A k \in Node : worker'[k] = IF k = i THEN "done" ELSE worker[k]
  BY DEF Inv, TypeOK
<1>3. TypeOK'
  BY <1>1 DEF Inv, TypeOK
<1>4. Placed' = Placed /\ (\A j \in Node : Pending(j)' = Pending(j))
  BY <1>2 DEF Placed, Pending, Signalled
<1>5. Token'
  BY <1>1, <1>2 DEF Inv, Token, MutualExclusion, Outside, InCS
<1>6. Count' /\ SyncExact'
  BY <1>4 DEF Inv, Count, SyncExact
<1>7. EdgeIndex' /\ Released' /\ Written' /\ TopologicalOrder' /\ Verdict'
  BY <1>2, <1>4 DEF Inv, EdgeIndex, Released, Signalled, Written, TopologicalOrder, Verdict
<1> QED
  BY <1>3, <1>5, <1>6, <1>7 DEF Inv

LEMMA StutterInv ==
    ASSUME Inv, UNCHANGED vars
    PROVE  Inv'
<1> USE DEF vars, shared, sems
<1>1. Placed' = Placed /\ (\A j \in Node : Pending(j)' = Pending(j))
  BY DEF Placed, Pending, Signalled
<1>2. TypeOK' /\ Token'
  BY DEF Inv, TypeOK, Token, MutualExclusion, Outside, InCS
<1>3. Count' /\ SyncExact' /\ EdgeIndex'
  BY <1>1 DEF Inv, Count, SyncExact, EdgeIndex
<1>4. Released' /\ Written' /\ TopologicalOrder' /\ Verdict'
  BY <1>1 DEF Inv, Released, Signalled, Written, TopologicalOrder, Verdict
<1> QED
  BY <1>2, <1>3, <1>4 DEF Inv

LEMMA NextInv == Inv /\ [Next]_vars => Inv'
<1> SUFFICES ASSUME Inv, [Next]_vars
             PROVE  Inv'
  OBVIOUS
<1>1. CASE BossNext
  BY <1>1, BossInv
<1>2. ASSUME NEW i \in Node, WorkerNext(i)
      PROVE  Inv'
  BY <1>2, WorkerSyncedInv, WorkerLocksInv, WorkerWritesInv,
     WorkerIncrementsInv, WorkerSignalsInv, WorkerNotifiesInv DEF WorkerNext
<1>3. CASE UNCHANGED vars
  BY <1>3, StutterInv
<1> QED
  BY <1>1, <1>2, <1>3 DEF Next

THEOREM Invariance == Safety => []Inv
  BY InitInv, NextInv, PTL DEF Safety

(* At most one worker is between P(mtx) and V(ntfy), and the semaphores    *)
(* mtx and ntfy stay binary (worker.c:106-124, boss.c:152-157).            *)
THEOREM WorkersExclude == Safety => []TokenExact
<1>1. Inv => TokenExact
  BY DEF Inv, Token, TokenExact
<1> QED
  BY <1>1, Invariance, PTL

(* T is a topological listing of its nodes at all times, for every graph   *)
(* (worker.c:100-120).                                                     *)
THEOREM ListedInOrder == Safety => []TopologicalOrder
<1>1. Inv => TopologicalOrder
  BY DEF Inv
<1> QED
  BY <1>1, Invariance, PTL

(* When the boss leaves its loop on idx == n, T lists every node, though   *)
(* the last worker may not have notified it (boss.c:156-163).              *)
LEMMA CompleteWhenPrinted ==
    ASSUME Inv, boss \in {"print", "remove", "done"}
    PROVE  \A i \in Node : \E k \in Node : T[k] = i
<1>1. idx = N /\ Placed = Node
  BY AllPlaced DEF Inv, Count
<1>2. 0 .. idx-1 = Node
  BY <1>1 DEF Node
<1> QED
  BY <1>1, <1>2 DEF Inv, Written

(* For any graph and any number of workers, when the boss has printed, T   *)
(* is complete and its check said "Well done", and the removal of the      *)
(* semaphores fails no operation that matters, although the boss waits for *)
(* no last notification (boss.c:156-193, worker.c:100-124).                *)
THEOREM EndsInOrder == Safety => []OrderlyEnd
<1>1. Inv => BossApproves
  BY CompleteWhenPrinted DEF Inv, Verdict, BossApproves
<1>2. Inv => RemovalHarmless
  <2> SUFFICES ASSUME Inv, ipc = "removed", NEW i \in Node
               PROVE  /\ worker[i] \in {"edges", "notify", "done"}
                      /\ worker[i] = "edges" => \A j \in edge[i] .. N-1 : <<i, j>> \notin A
    BY DEF RemovalHarmless
  <2>1. Placed = Node
    BY RemovedMeansPlaced
  <2>2. \A j \in Node : worker[j] \in {"edges", "notify", "done"}
    BY <2>1 DEF Placed
  <2>3. ASSUME worker[i] = "edges", NEW j \in edge[i] .. N-1 PROVE <<i, j>> \notin A
    <3>1. j \in Node /\ ~(edge[i] > j)
      BY ParamAssumption DEF Inv, TypeOK, Node
    <3> QED
      BY <2>2, <2>3, <3>1 DEF Inv, Released, Signalled
  <2> QED
    BY <2>2, <2>3
<1> QED
  BY <1>1, <1>2, Invariance, PTL DEF OrderlyEnd

-----------------------------------------------------------------------------
(* Refinement: the processes implement TopologicalListing.                 *)

(* Incrementing idx adds a node whose predecessors are listed; every other *)
(* step leaves the listed part of T alone (worker.c:108-111).              *)
LEMMA IncrementLists ==
    ASSUME Inv, NEW i \in Node, WorkerIncrements(i)
    PROVE  Listing!Add(i)
<1> DEFINE list == [k \in 1 .. idx |-> T[k-1]]
<1> USE DEF WorkerIncrements, At, shared, sems
<1>1. i \notin Placed /\ T[idx] = i /\ idx \in Nat
  BY DEF Placed, Inv, Written, TypeOK
<1>2. Listing!Listed = {T[k] : k \in 0 .. idx-1}
  <2>1. DOMAIN list = 1 .. idx
    OBVIOUS
  <2>2. {list[k] : k \in 1 .. idx} = {T[k] : k \in 0 .. idx-1}
    BY <1>1
  <2> QED
    BY <2>1, <2>2 DEF Listing!Listed, Listing!ToSet
<1>3. i \notin Listing!Listed
  BY <1>1, <1>2 DEF Inv, Written
<1>4. \A j \in Node : <<j, i>> \in A => j \in Listing!Listed
  BY <1>2, SignalledIsPlaced DEF Inv, Released, Written
<1>5. list' = Append(list, i)
  <2>1. list \in Seq(Node) /\ Len(list) = idx
    BY <1>1 DEF Inv, TopologicalOrder
  <2>2. list' \in Seq(Node) /\ Len(list') = idx + 1
    BY <1>1 DEF Inv, TopologicalOrder
  <2>3. /\ list'[idx+1] = i
        /\ \A k \in 1 .. idx : list'[k] = list[k]
    BY <1>1
  <2> HIDE DEF list
  <2>4. /\ Append(list, i) \in Seq(Node)
        /\ Len(Append(list, i)) = idx + 1
        /\ Append(list, i)[idx+1] = i
        /\ \A k \in 1 .. idx : Append(list, i)[k] = list[k]
    BY <2>1, AppendProperties
  <2>5. \A k \in 1 .. idx + 1 : list'[k] = Append(list, i)[k]
    BY <1>1, <2>3, <2>4
  <2> QED
    BY <2>2, <2>4, <2>5, SeqEqual
<1> QED
  BY <1>3, <1>4, <1>5 DEF Listing!Add

LEMMA OthersKeepListed ==
    ASSUME Inv, [Next]_vars, \A i \in Node : ~WorkerIncrements(i)
    PROVE  /\ A' = A
           /\ [k \in 1 .. idx |-> T[k-1]]' = [k \in 1 .. idx |-> T[k-1]]
<1>1. CASE BossNext
  BY <1>1 DEF BossNext, BossWaits, BossAdmits, BossChecks, BossPrints,
     BossRemoves, shared
<1>2. ASSUME NEW i \in Node, WorkerWrites(i)
      PROVE  /\ A' = A /\ idx' = idx
             /\ \A k \in 1 .. idx : T'[k-1] = T[k-1]
  BY <1>2 DEF WorkerWrites, Inv, TypeOK
<1>3. ASSUME NEW i \in Node,
             WorkerSynced(i) \/ WorkerLocks(i) \/ WorkerSignals(i) \/ WorkerNotifies(i)
      PROVE  UNCHANGED shared
  BY <1>3 DEF WorkerSynced, WorkerLocks, WorkerSignals, WorkerNotifies
<1>4. CASE UNCHANGED vars
  BY <1>4 DEF vars, shared
<1> QED
  BY <1>1, <1>2, <1>3, <1>4 DEF Next, WorkerNext, shared

(* The boss and the workers, with their semaphores, produce a topological  *)
(* listing one node at a time, for every graph.                            *)
THEOREM ImplementsListing == Spec => ListsInOrder
<1>1. Init => Listing!Init
  <2> SUFFICES ASSUME Init
               PROVE  [k \in 1 .. idx |-> T[k-1]] = <<>>
    BY DEF Listing!Init
  <2> QED
    BY DEF Init
<1>2. Inv /\ [Next]_vars => [Listing!Next]_<<A, [k \in 1 .. idx |-> T[k-1]]>>
  BY IncrementLists, OthersKeepListed DEF Listing!Next
<1> QED
  BY <1>1, <1>2, Invariance, PTL DEF Spec, Safety, ListsInOrder, Listing!Spec
=============================================================================
