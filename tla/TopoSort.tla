------------------------------ MODULE TopoSort ------------------------------
(***************************************************************************)
(* Assignment 5: the boss (boss.c) and N workers (worker.c), processes     *)
(* that were not forked by one another and share an adjacency matrix A, a  *)
(* listing T with its next index idx, and three semaphore sets.            *)
(*                                                                         *)
(*   sync[i]  predecessors of i that have not signalled it yet; worker i   *)
(*            waits for zero                                               *)
(*   mtx      one worker may write T and idx                               *)
(*   ntfy     the boss may let the next worker in                          *)
(*                                                                         *)
(* The boss's setup (boss.c:25-148) is the initial state: the assignment   *)
(* starts the workers strictly after it (LA5.pdf, "The worker processes"). *)
(***************************************************************************)
EXTENDS Integers, FiniteSets

CONSTANTS
    N,         \* number of workers
    Graphs     \* the graphs graph.txt may hold, each a set of edges <<i, j>>

Node == 0 .. N-1

ASSUME ParamAssumption ==
    /\ N \in Nat \ {0}
    /\ Graphs \subseteq SUBSET (Node \X Node)

VARIABLES
    A, T, idx,                \* the shared memory
    sync, mtx, ntfy,          \* the semaphores
    ipc,                      \* whether the boss has removed them
    boss,                     \* where the boss is
    correct,                  \* its verdict
    worker,                   \* where each worker is
    edge                      \* j of the loop over the outgoing edges

shared == <<A, T, idx>>
sems == <<sync, mtx, ntfy, ipc>>
vars == <<shared, sems, boss, correct, worker, edge>>

\* Operators whose name ends in _Mutant are no part of the model: each is the
\* operator it is named after with a plausible bug, to show that a property
\* can fail.

\* The row of i is counted instead of its column.
Indegree_Mutant(g, i) == Cardinality({j \in Node : <<i, j>> \in g})

Indegree(g, i) == Cardinality({j \in Node : <<j, i>> \in g})

\* mtx starts at 1, as for a lock that is free.
Init_Mutant ==
    /\ A \in Graphs
    /\ T = [k \in Node |-> -1]
    /\ idx = 0
    /\ sync = [i \in Node |-> Indegree(A, i)]
    /\ mtx = 1
    /\ ntfy = 1
    /\ ipc = "up"
    /\ boss = "wait"
    /\ correct = TRUE
    /\ worker = [i \in Node |-> "sync"]
    /\ edge = [i \in Node |-> 0]

Init ==
    /\ A \in Graphs
    /\ T = [k \in Node |-> -1]
    /\ idx = 0
    /\ sync = [i \in Node |-> Indegree(A, i)]
    /\ mtx = 0
    /\ ntfy = 1
    /\ ipc = "up"
    /\ boss = "wait"
    /\ correct = TRUE
    /\ worker = [i \in Node |-> "sync"]
    /\ edge = [i \in Node |-> 0]

-----------------------------------------------------------------------------
(* boss.c                                                                  *)

BossWaits ==                                            \* P(ntfy)
    /\ boss = "wait"
    /\ ntfy > 0
    /\ ntfy' = ntfy - 1
    /\ boss' = "admit"
    /\ UNCHANGED <<shared, sync, mtx, ipc, correct, worker, edge>>

BossAdmits ==                                           \* V(mtx)
    /\ boss = "admit"
    /\ mtx' = mtx + 1
    /\ boss' = "check"
    /\ UNCHANGED <<shared, sync, ntfy, ipc, correct, worker, edge>>

\* Stops one node early.
BossChecks_Mutant ==
    /\ boss = "check"
    /\ boss' = IF idx >= N - 1 THEN "print" ELSE "wait"
    /\ UNCHANGED <<shared, sems, correct, worker, edge>>

\* Reads idx while a worker it admitted may be changing it.
BossChecks ==
    /\ boss = "check"
    /\ boss' = IF idx = N THEN "print" ELSE "wait"
    /\ UNCHANGED <<shared, sems, correct, worker, edge>>

\* The check takes out the nodes of T in order: each must have no
\* predecessor left, that is, all its predecessors come before it in T.
Valid ==
    \A k \in Node :
        Cardinality({m \in 0 .. k-1 : <<T[m], T[k]>> \in A}) = Indegree(A, T[k])

BossPrints ==
    /\ boss = "print"
    /\ correct' = Valid
    /\ boss' = "remove"
    /\ UNCHANGED <<shared, sems, worker, edge>>

\* From here a worker's semop fails, and the worker does not notice.
BossRemoves ==
    /\ boss = "remove"
    /\ ipc' = "removed"
    /\ boss' = "done"
    /\ UNCHANGED <<shared, sync, mtx, ntfy, correct, worker, edge>>

BossNext == BossWaits \/ BossAdmits \/ BossChecks \/ BossPrints \/ BossRemoves

-----------------------------------------------------------------------------
(* worker.c                                                                *)

At(i, here, next) == worker[i] = here /\ worker' = [worker EXCEPT ![i] = next]

\* Does not wait for the predecessors.
WorkerSynced_Mutant(i) ==
    /\ At(i, "sync", "mtx")
    /\ UNCHANGED <<shared, sems, boss, correct, edge>>

\* Wait for zero: every predecessor has signalled.
WorkerSynced(i) ==
    /\ At(i, "sync", "mtx")
    /\ ipc = "up" => sync[i] = 0
    /\ UNCHANGED <<shared, sems, boss, correct, edge>>

WorkerLocks(i) ==                                       \* P(mtx)
    /\ At(i, "mtx", "write")
    /\ ipc = "up" => mtx > 0
    /\ mtx' = IF ipc = "up" THEN mtx - 1 ELSE mtx
    /\ UNCHANGED <<shared, sync, ntfy, ipc, boss, correct, edge>>

WorkerWrites(i) ==                                      \* T[*idx] = i
    /\ At(i, "write", "inc")
    /\ T' = [T EXCEPT ![idx] = i]
    /\ UNCHANGED <<A, idx, sems, boss, correct, edge>>

WorkerIncrements(i) ==
    /\ At(i, "inc", "edges")
    /\ idx' = idx + 1
    /\ UNCHANGED <<A, T, sems, boss, correct, edge>>

\* The loop ends one node short.
WorkerSignals_Mutant(i) ==
    LET j == edge[i]
        signal == ipc = "up" /\ <<i, j>> \in A
    IN /\ At(i, "edges", IF j + 2 >= N THEN "notify" ELSE "edges")
       /\ signal => sync[j] > 0
       /\ sync' = IF signal THEN [sync EXCEPT ![j] = @ - 1] ELSE sync
       /\ edge' = [edge EXCEPT ![i] = j + 1]
       /\ UNCHANGED <<shared, mtx, ntfy, ipc, boss, correct>>

\* One turn of the loop over j: decrement sync[j] if i -> j is an edge.
WorkerSignals(i) ==
    LET j == edge[i]
        signal == ipc = "up" /\ <<i, j>> \in A
    IN /\ At(i, "edges", IF j + 1 = N THEN "notify" ELSE "edges")
       /\ signal => sync[j] > 0
       /\ sync' = IF signal THEN [sync EXCEPT ![j] = @ - 1] ELSE sync
       /\ edge' = [edge EXCEPT ![i] = j + 1]
       /\ UNCHANGED <<shared, mtx, ntfy, ipc, boss, correct>>

WorkerNotifies(i) ==                                    \* V(ntfy)
    /\ At(i, "notify", "done")
    /\ ntfy' = IF ipc = "up" THEN ntfy + 1 ELSE ntfy
    /\ UNCHANGED <<shared, sync, mtx, ipc, boss, correct, edge>>

WorkerNext(i) ==
    \/ WorkerSynced(i)
    \/ WorkerLocks(i)
    \/ WorkerWrites(i)
    \/ WorkerIncrements(i)
    \/ WorkerSignals(i)
    \/ WorkerNotifies(i)

Next == BossNext \/ \E i \in Node : WorkerNext(i)

\* The boss and the workers are processes of their own.
Fairness == WF_vars(BossNext) /\ \A i \in Node : WF_vars(WorkerNext(i))

Safety == Init /\ [][Next]_vars

Spec == Safety /\ Fairness

-----------------------------------------------------------------------------
(* Properties.                                                             *)

(* Types; the token semaphores stay binary and idx within T.               *)
TypeOK ==
    /\ A \in Graphs
    /\ T \in [Node -> Node \cup {-1}]
    /\ idx \in 0 .. N
    /\ sync \in [Node -> Nat]
    /\ mtx \in {0, 1}
    /\ ntfy \in {0, 1}
    /\ ipc \in {"up", "removed"}
    /\ boss \in {"wait", "admit", "check", "print", "remove", "done"}
    /\ correct \in BOOLEAN
    /\ worker \in [Node -> {"sync", "mtx", "write", "inc", "edges", "notify",
                            "done"}]
    /\ edge \in [Node -> 0 .. N]

InCS(i) == worker[i] \in {"write", "inc", "edges", "notify"}

(* From P(mtx) to V(ntfy) a worker is alone (worker.c:106-124): the boss   *)
(* passes a single token between ntfy, itself, mtx and the worker.         *)
MutualExclusion == \A i, j \in Node : InCS(i) /\ InCS(j) => i = j

(* So the token semaphores stay binary, and a worker has the token alone.  *)
TokenExact == TypeOK /\ MutualExclusion

(* In the listed part of T no node is listed twice and every predecessor   *)
(* of a listed node is listed before it (worker.c:100-120).                *)
TopologicalOrder ==
    /\ \A k, m \in 0 .. idx-1 : T[k] = T[m] => k = m
    /\ \A k \in 0 .. idx-1 :
          /\ T[k] \in Node
          /\ \A j \in Node : <<j, T[k]>> \in A => \E m \in 0 .. k-1 : T[m] = j

(* What the boss prints is the complete listing, and its own check says    *)
(* "Well done" (boss.c:159-186), although it stops as soon as it sees      *)
(* idx == n and not when the last worker notifies it.                      *)
BossApproves ==
    boss \in {"remove", "done"} =>
        /\ correct
        /\ \A i \in Node : \E k \in Node : T[k] = i

(* Removing the semaphores (boss.c:191-193) fails no operation that        *)
(* matters: at most the last worker is still running, past its write and   *)
(* with no one left to signal.                                             *)
RemovalHarmless ==
    ipc = "removed" =>
        \A i \in Node :
            /\ worker[i] \in {"edges", "notify", "done"}
            /\ worker[i] = "edges" =>
                  \A j \in edge[i] .. N-1 : <<i, j>> \notin A

(* The boss may leave first.                                               *)
OrderlyEnd == BossApproves /\ RemovalHarmless

Listing == INSTANCE TopologicalListing WITH
              graph <- A,
              list  <- [k \in 1 .. idx |-> T[k-1]]

(* The processes grow T by one node at a time, each after its predecessors *)
(* (worker.c:108-111).                                                     *)
ListsInOrder == Listing!Spec

(* The boss and every worker finish, for every acyclic graph.              *)
Termination == <>(boss = "done" /\ \A i \in Node : worker[i] = "done")

(* "B waits until it receives notifications from all the workers. After    *)
(* this, B prints T" (LA5.pdf, "The boss process").                        *)
NotifiedByAll == boss = "print" => \A i \in Node : worker[i] = "done"
=============================================================================
