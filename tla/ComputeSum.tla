----------------------------- MODULE ComputeSum -----------------------------
(***************************************************************************)
(* The sum of a tree (Assignment 7, computesum.c): one thread for each     *)
(* node, created and at last collected by main, which wait for one another *)
(* at a barrier for each node.  Every barrier serves one round, of which   *)
(* BarrierRounds says what the library promises (FooBarrier implements     *)
(* it): nobody passes before all have arrived.  A mutex is its holder      *)
(* (FooMutex).  A sum is what has been added up in it: how many times it   *)
(* holds the number of each leaf.                                          *)
(***************************************************************************)
EXTENDS FiniteSets, Integers, Sequences

CONSTANTS
    n,            \* the number of nodes
    parent        \* parent[x] of each node x; the root is its own parent

Node == 0 .. n - 1

\* The file holds a tree: all but the root are deeper than their parents.
ASSUME TreeAssumption ==
    /\ n \in Nat \ {0} /\ parent \in [Node -> Node]
    /\ \E depth \in [Node -> Node], root \in Node :
          /\ parent[root] = root
          /\ \A x \in Node \ {root} : depth[parent[x]] < depth[x]

Children(x) == {c \in Node : parent[c] = x /\ c # x}

Leaf == {x \in Node : Children(x) = {}}

\* Operators whose name ends in _Mutant are no part of the model: each is the
\* operator it is named after with a plausible bug, to show that a property
\* can fail.

Done == n         \* stands for computation_done, and for main as its user

VARIABLES
    table, live, posted, stack, manager,   \* the thread table of FooThread
    pc,           \* where each node's thread is
    main,         \* where main is
    arrived,      \* barrier -> the threads counted at it
    exec,         \* the holder of func_exec, or Done when it is free
    locked,       \* the nodes whose mutex_sum is locked
    sum, seen,    \* the sums, and what a thread has read of its parent's
    total_sum,
    printed,      \* what each internal node and, at Done, main have printed
    destroyed     \* how many nodes' barrier and mutex main has destroyed

\* All threads are created joinable.
INSTANCE FooThread WITH Thread <- Node, Joinable <- Node

threadVars == <<table, live, posted, stack, manager>>

nodeVars == <<pc, arrived, exec, locked, sum, seen, total_sum, printed>>

vars == <<threadVars, nodeVars, main, destroyed>>

Zero == [l \in Leaf |-> 0]

Plus(f, g) == [l \in Leaf |-> f[l] + g[l]]

NotPrinted == [l \in Leaf |-> -1]

Size_Mutant(b) == IF b = Done THEN 1 ELSE Cardinality(Children(b)) + 1

\* What each barrier is initialised with.
Size(b) == IF b = Done THEN 2 ELSE Cardinality(Children(b)) + 1

Complete(b) == Cardinality(arrived[b]) = Size(b)

TypeOK ==
    /\ ThreadTypeOK
    /\ pc \in [Node -> {"none", "start", "own_barrier", "wait_exec", "in_exec", "own_locked",
                      "leave_exec", "to_parent", "adding", "notify", "notified", "exit",
                      "returning", "ended"}]
    /\ main \in {"create", "register", "arrive", "wait", "destroy", "exit", "exited"}
    /\ arrived \in [Node \cup {Done} -> SUBSET (Node \cup {Done})]
    /\ exec \in Node \cup {Done}
    /\ locked \subseteq Node
    /\ sum \in [Node -> [Leaf -> Nat]] /\ seen \in [Node -> [Leaf -> Nat]]
    /\ total_sum \in [Leaf -> Nat]
    /\ printed \in [Node \cup {Done} -> [Leaf -> Int]]
    /\ destroyed \in 0 .. n + 1

Init ==
    /\ ThreadInit
    /\ pc = [t \in Node |-> "none"]
    /\ main = "create"
    /\ arrived = [b \in Node \cup {Done} |-> {}]
    /\ exec = Done
    /\ locked = {}
    /\ sum = [x \in Node |-> Zero]
    /\ seen = [t \in Node |-> Zero]
    /\ total_sum = Zero
    /\ printed = [x \in Node \cup {Done} |-> NotPrinted]
    /\ destroyed = 0

-----------------------------------------------------------------------------
(* The thread of a node.  All of them end with the program.                *)

Goto(t, here, next) ==
    /\ main # "exited"
    /\ pc[t] = here
    /\ pc' = [pc EXCEPT ![t] = next]

ArriveAt(t, b) == arrived' = [arrived EXCEPT ![b] = @ \cup {t}]

OwnArrive(t) ==
    /\ Goto(t, "start", "own_barrier")
    /\ ArriveAt(t, t)
    /\ UNCHANGED <<threadVars, main, destroyed, exec, locked, sum, seen, total_sum, printed>>

ChildrenDone(t) ==
    /\ Complete(t)
    /\ Goto(t, "own_barrier", "wait_exec")
    /\ UNCHANGED <<threadVars, main, destroyed, arrived, exec, locked, sum, seen, total_sum, printed>>

LockExec(t) ==
    /\ exec = Done
    /\ Goto(t, "wait_exec", "in_exec")
    /\ exec' = t
    /\ UNCHANGED <<threadVars, main, destroyed, arrived, locked, sum, seen, total_sum, printed>>

LockOwn(t) ==
    /\ t \notin locked
    /\ Goto(t, "in_exec", "own_locked")
    /\ locked' = locked \cup {t}
    /\ UNCHANGED <<threadVars, main, destroyed, arrived, exec, sum, seen, total_sum, printed>>

\* A leaf takes the number the user has entered, an internal node prints.
OwnSum(t) ==
    /\ Goto(t, "own_locked", "leave_exec")
    /\ IF t \in Leaf
       THEN sum' = [sum EXCEPT ![t] = [Zero EXCEPT ![t] = 1]] /\ UNCHANGED printed
       ELSE printed' = [printed EXCEPT ![t] = sum[t]] /\ UNCHANGED sum
    /\ locked' = locked \ {t}
    /\ UNCHANGED <<threadVars, main, destroyed, arrived, exec, seen, total_sum>>

UnlockExec(t) ==
    /\ Goto(t, "leave_exec", "to_parent")
    /\ exec' = Done
    /\ UNCHANGED <<threadVars, main, destroyed, arrived, locked, sum, seen, total_sum, printed>>

\* The addition reads the parent's sum and writes it back.
LockParent_Mutant(t) ==
    /\ Goto(t, "to_parent", "adding")
    /\ locked' = locked \cup {parent[t]}
    /\ seen' = [seen EXCEPT ![t] = sum[parent[t]]]
    /\ UNCHANGED <<threadVars, main, destroyed, arrived, exec, sum, total_sum, printed>>

LockParent(t) ==
    /\ parent[t] \notin locked
    /\ Goto(t, "to_parent", "adding")
    /\ locked' = locked \cup {parent[t]}
    /\ seen' = [seen EXCEPT ![t] = sum[parent[t]]]
    /\ UNCHANGED <<threadVars, main, destroyed, arrived, exec, sum, total_sum, printed>>

AddToParent(t) ==
    /\ Goto(t, "adding", "notify")
    /\ sum' = IF parent[t] = t THEN sum
              ELSE [sum EXCEPT ![parent[t]] = Plus(seen[t], sum[t])]
    /\ locked' = locked \ {parent[t]}
    /\ UNCHANGED <<threadVars, main, destroyed, arrived, exec, seen, total_sum, printed>>

Notify(t) ==
    /\ Goto(t, "notify", "notified")
    /\ IF parent[t] = t
       THEN total_sum' = sum[t] /\ ArriveAt(t, Done)
       ELSE ArriveAt(t, parent[t]) /\ UNCHANGED total_sum
    /\ UNCHANGED <<threadVars, main, destroyed, exec, locked, sum, seen, printed>>

Passed(t) ==
    /\ Complete(IF parent[t] = t THEN Done ELSE parent[t])
    /\ Goto(t, "notified", "exit")
    /\ UNCHANGED <<threadVars, main, destroyed, arrived, exec, locked, sum, seen, total_sum, printed>>

\* foothread_exit; what is left is to return from compute_sum.
Exit(t) ==
    /\ Goto(t, "exit", "returning")
    /\ Post(t)
    /\ UNCHANGED <<main, destroyed, arrived, exec, locked, sum, seen, total_sum, printed>>

Return(t) ==
    /\ Goto(t, "returning", "ended")
    /\ UNCHANGED <<threadVars, main, destroyed, arrived, exec, locked, sum, seen, total_sum, printed>>

NodeStep(t) ==
    \/ OwnArrive(t) \/ ChildrenDone(t) \/ LockExec(t) \/ LockOwn(t)
    \/ OwnSum(t) \/ UnlockExec(t) \/ LockParent(t) \/ AddToParent(t)
    \/ Notify(t) \/ Passed(t) \/ Exit(t) \/ Return(t)

-----------------------------------------------------------------------------
(* Main.                                                                   *)

MainGoto(here, next) == main = here /\ main' = next

MainCreates ==
    /\ MainGoto("create", "register")
    /\ Clone(Len(table))
    /\ pc' = [pc EXCEPT ![Len(table)] = "start"]
    /\ UNCHANGED <<destroyed, arrived, exec, locked, sum, seen, total_sum, printed>>

MainRegisters ==
    /\ MainGoto("register", IF Len(table) + 1 < n THEN "create" ELSE "arrive")
    /\ Register(Len(table))
    /\ UNCHANGED <<nodeVars, destroyed>>

MainArrives ==
    /\ MainGoto("arrive", "wait")
    /\ ArriveAt(Done, Done)
    /\ UNCHANGED <<threadVars, destroyed, pc, exec, locked, sum, seen, total_sum, printed>>

MainPrints ==
    /\ Complete(Done)
    /\ MainGoto("wait", "destroy")
    /\ printed' = [printed EXCEPT ![Done] = total_sum]
    /\ UNCHANGED <<threadVars, destroyed, pc, arrived, exec, locked, sum, seen, total_sum>>

\* The last round destroys computation_done and func_exec.
MainDestroys ==
    /\ MainGoto("destroy", IF destroyed = n THEN "exit" ELSE "destroy")
    /\ destroyed' = destroyed + 1
    /\ UNCHANGED <<threadVars, nodeVars>>

MainCollects ==
    /\ MainGoto("exit", "exit")
    /\ \E k \in ToCollect(1) :
          /\ \A j \in ToCollect(1) : k <= j
          /\ Collect(k)
    /\ UNCHANGED <<nodeVars, destroyed>>

MainExits ==
    /\ ToCollect(1) = {}
    /\ MainGoto("exit", "exited")
    /\ UNCHANGED <<threadVars, nodeVars, destroyed>>

MainStep ==
    \/ MainCreates \/ MainRegisters \/ MainArrives \/ MainPrints
    \/ MainDestroys \/ MainCollects \/ MainExits

Next == MainStep \/ \E t \in Node : NodeStep(t)

\* Every thread runs on, and the user answers.
Fairness == WF_vars(MainStep) /\ \A t \in Node : WF_vars(NodeStep(t))

Spec == Init /\ [][Next]_vars /\ Fairness

-----------------------------------------------------------------------------
(* Properties.                                                             *)

\* The way from x up to the root: what is in every set that holds x and with
\* each node its parent.
Ancestors ==
    [x \in Node |-> {y \in Node : \A S \in SUBSET Node :
                        x \in S /\ (\A z \in S : parent[z] \in S) => y \in S}]

\* The numbers entered below x, each of them once.
SubtreeSum(x) == [l \in Leaf |-> IF x = Done \/ x \in Ancestors[l] THEN 1 ELSE 0]

\* What an internal node prints (computesum.c:115) and what main prints (78)
\* is the whole sum below it: no number is missing, lost between two children
\* that add at once or read too early, and none is counted twice.
SumsComplete ==
    /\ TypeOK
    /\ \A x \in Node \cup {Done} : printed[x] \in {NotPrinted, SubtreeSum(x)}

\* When main destroys the barriers and mutexes (computesum.c:81-86) every
\* thread is past its last call on one of them: the library would end the
\* program with an error at a call on a destroyed one (foothread.c:301).  A
\* thread may still be inside that last barrier_wait, but only on its way out:
\* all have arrived there, and nobody waits at a destroyed barrier for one who
\* could not come any more.
NoCallAfterDestroy ==
    destroyed > 0 =>
        \A t \in Node :
            \/ pc[t] \in {"exit", "returning", "ended"}
            \/ pc[t] = "notified" /\ Complete(IF parent[t] = t THEN Done ELSE parent[t])

\* Main does not give a stack back before its thread has posted
\* (foothread.c:148-150), and the program does not end before every thread
\* has (computesum.c:88), the ones included that were still to be registered
\* when they began to run.
NobodyLeftBehind ==
    /\ \A t \in Node : pc[t] \notin {"none", "returning", "ended"} => t \in stack
    /\ main = "exited" => \A t \in Node : pc[t] \in {"returning", "ended"}

\* Main prints the total and the program ends, whatever the order in which
\* the threads run: nobody waits for ever at a barrier, for a mutex or for a
\* post (foothread_exit, computesum.c:75-89).
Termination == <>(main = "exited")
=============================================================================
