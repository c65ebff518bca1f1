-------------------------- MODULE ComputeSumProofs --------------------------
(***************************************************************************)
(* For every tree: the sums are complete when they are printed, no barrier *)
(* or mutex is destroyed while a thread may still call on it, and main     *)
(* neither gives a stack back nor ends the program before the thread has   *)
(* posted.                                                                 *)
(***************************************************************************)
EXTENDS ComputeSum, FiniteSetTheorems, WellFoundedInduction, TLAPS

-----------------------------------------------------------------------------
(* The tree.                                                               *)

Root == CHOOSE x \in Node : parent[x] = x

LEMMA OneRoot ==
    /\ Root \in Node /\ parent[Root] = Root /\ \A x \in Node \ {Root} : parent[x] # x
    /\ \E depth \in [Node -> Node] : \A x \in Node \ {Root} : depth[parent[x]] < depth[x]
<1>1. PICK depth \in [Node -> Node], root \in Node :
          /\ parent[root] = root
          /\ \A x \in Node \ {root} : depth[parent[x]] < depth[x]
    BY TreeAssumption
<1>2. \A x \in Node \ {root} : parent[x] # x
    <2>1. \A x \in Node : depth[x] \in Int
        BY TreeAssumption DEF Node
    <2>2. QED
        BY <1>1, <2>1
<1>3. Root = root
    BY <1>1, <1>2 DEF Root
<1>4. QED
    BY <1>1, <1>2, <1>3

LEMMA NodeFacts ==
    /\ n \notin Node /\ Done \notin Node /\ IsFiniteSet(Node)
    /\ parent \in [Node -> Node]
<1>1. n \in Nat /\ parent \in [Node -> Node]
    BY TreeAssumption
<1>2. 0 \in Int /\ n - 1 \in Int
    BY <1>1
<1>3. IsFiniteSet(0 .. n - 1)
    BY <1>2, FS_Interval
<1>4. QED
    BY <1>1, <1>3 DEF Node, Done

\* A set of nodes has one whose parent is not in it, if the root is not.
LEMMA Shallowest ==
    ASSUME NEW S \in SUBSET Node, S # {}
    PROVE  \E x \in S : x = Root \/ parent[x] \notin S
<1>1. PICK depth \in [Node -> Node] : \A x \in Node \ {Root} : depth[parent[x]] < depth[x]
    BY OneRoot
<1> DEFINE D == {depth[x] : x \in S}
<1>2. D \in SUBSET Nat /\ D # {}
    <2>1. \A x \in Node : depth[x] \in Nat
        BY DEF Node
    <2>2. QED
        BY <2>1
<1>3. PICK d \in D : \A e \in D : ~ (<<e, d>> \in OpToRel(<, Nat))
    BY <1>2, NatLessThanWellFounded, WFMin
<1>4. PICK x \in S : depth[x] = d
    OBVIOUS
<1>5. ASSUME x # Root, parent[x] \in S PROVE FALSE
    <2>1. depth[parent[x]] < depth[x] /\ depth[parent[x]] \in D
        BY <1>1, <1>5
    <2>2. <<depth[parent[x]], d>> \in OpToRel(<, Nat)
        BY <1>2, <1>4, <2>1 DEF OpToRel
    <2>3. QED
        BY <1>3, <2>1, <2>2
<1>6. QED
    BY <1>5

\* What goes up a step at a time goes up to an ancestor.
LEMMA Climb ==
    ASSUME NEW x \in Node
    PROVE  /\ Ancestors[x] \subseteq Node /\ x \in Ancestors[x]
           /\ \A y \in Ancestors[x] : parent[y] \in Ancestors[x]
           /\ \A S \in SUBSET Node :
                  x \in S /\ (\A z \in S : parent[z] \in S) => Ancestors[x] \subseteq S
BY NodeFacts DEF Ancestors

LEMMA AboveParent ==
    ASSUME NEW x \in Node
    PROVE  \A y \in Ancestors[x] : y = x \/ y \in Ancestors[parent[x]]
<1> DEFINE S == {x} \cup Ancestors[parent[x]]
<1>1. parent[x] \in Node
    BY NodeFacts
<1>2. S \in SUBSET Node /\ x \in S
    BY <1>1, Climb
<1>3. \A z \in S : parent[z] \in S
    BY <1>1, Climb
<1>4. Ancestors[x] \subseteq S
    BY <1>2, <1>3, Climb
<1>5. QED
    BY <1>4

LEMMA ParentsAbove ==
    ASSUME NEW x \in Node
    PROVE  Ancestors[parent[x]] \subseteq Ancestors[x]
<1>1. parent[x] \in Node /\ parent[x] \in Ancestors[x] /\ Ancestors[x] \in SUBSET Node
    BY NodeFacts, Climb
<1>2. \A z \in Ancestors[x] : parent[z] \in Ancestors[x]
    BY Climb
<1>3. QED
    BY <1>1, <1>2, Climb

\* Who is reached from below is reached by one of its children.
LEMMA FromChild ==
    ASSUME NEW l \in Node, NEW x \in Ancestors[l], x # l
    PROVE  \E c \in Children(x) : c \in Ancestors[l]
<1> SUFFICES ASSUME \A c \in Children(x) : c \notin Ancestors[l] PROVE FALSE
    OBVIOUS
<1> DEFINE S == Ancestors[l] \ {x}
<1>1. S \in SUBSET Node /\ l \in S
    BY Climb
<1>2. ASSUME NEW z \in S PROVE parent[z] \in S
    <2>1. z \in Node /\ z \in Ancestors[l] /\ parent[z] \in Ancestors[l] /\ z # x
        BY Climb
    <2>2. parent[z] # x
        BY <2>1 DEF Children
    <2>3. QED
        BY <2>1, <2>2
<1>3. Ancestors[l] \subseteq S
    BY <1>1, <1>2, Climb
<1>4. QED
    BY <1>3

\* The ancestors of a node are on one line.
LEMMA OneLine ==
    ASSUME NEW l \in Node, NEW x \in Ancestors[l], NEW y \in Ancestors[l]
    PROVE  y \in Ancestors[x] \/ x \in Ancestors[y]
<1> DEFINE S == {z \in Ancestors[l] : \A w \in Ancestors[l] : w \in Ancestors[z] \/ z \in Ancestors[w]}
<1>1. S \in SUBSET Node /\ l \in S
    BY Climb
<1>2. ASSUME NEW z \in S PROVE parent[z] \in S
    <2>1. z \in Node /\ parent[z] \in Ancestors[l] /\ parent[z] \in Node /\ parent[z] \in Ancestors[z]
        BY Climb
    <2>2. ASSUME NEW w \in Ancestors[l] PROVE w \in Ancestors[parent[z]] \/ parent[z] \in Ancestors[w]
        <3>1. w \in Node
            BY Climb
        <3>2. CASE z \in Ancestors[w]
            BY <3>1, <3>2, Climb
        <3>3. CASE w \in Ancestors[z]
            BY <2>1, <3>1, <3>3, AboveParent, Climb
        <3>4. QED
            BY <3>2, <3>3
    <2>3. QED
        BY <2>1, <2>2
<1>3. Ancestors[l] \subseteq S
    BY <1>1, <1>2, Climb
<1>4. QED
    BY <1>3

\* No two children of a node have a leaf below in common.
LEMMA OneWay ==
    ASSUME NEW l \in Node, NEW x \in Node,
           NEW c \in Children(x), NEW d \in Children(x),
           c \in Ancestors[l], d \in Ancestors[l]
    PROVE  c = d
<1>1. PICK depth \in [Node -> Node] : \A y \in Node \ {Root} : depth[parent[y]] < depth[y]
    BY OneRoot
<1>2. \A y \in Node : depth[y] \in Int
    BY TreeAssumption DEF Node
<1>3. /\ c \in Node /\ parent[c] = x /\ c # x
      /\ d \in Node /\ parent[d] = x /\ d # x
    BY DEF Children
<1>4. depth[x] < depth[c] /\ depth[x] < depth[d]
    BY <1>1, <1>3, OneRoot
<1>5. ASSUME NEW y \in Node PROVE \A z \in Ancestors[y] : depth[z] <= depth[y]
    <2> DEFINE S == {z \in Node : depth[z] <= depth[y]}
    <2>1. S \in SUBSET Node /\ y \in S
        BY <1>2
    <2>2. ASSUME NEW z \in S PROVE parent[z] \in S
        <3>1. parent[z] \in Node
            BY NodeFacts
        <3>2. depth[parent[z]] <= depth[z]
            <4>1. CASE z = Root
                BY <1>2, <4>1, OneRoot
            <4>2. CASE z # Root
                BY <1>1, <1>2, <3>1, <4>2
            <4>3. QED
                BY <4>1, <4>2
        <3>3. depth[parent[z]] \in Int /\ depth[z] \in Int /\ depth[y] \in Int /\ depth[z] <= depth[y]
            BY <1>2, <3>1
        <3>4. QED
            BY <3>1, <3>2, <3>3
    <2>3. Ancestors[y] \subseteq S
        BY <2>1, <2>2, Climb
    <2>4. QED
        BY <2>3
<1>6. ASSUME NEW u \in Node, NEW v \in Node, parent[u] = x, u # v, v \in Ancestors[u], depth[x] < depth[v]
      PROVE  FALSE
    <2>1. v \in Ancestors[x]
        BY <1>6, AboveParent
    <2>2. depth[v] <= depth[x]
        BY <1>5, <2>1
    <2>3. QED
        BY <1>2, <1>6, <2>2
<1>7. c \in Ancestors[d] \/ d \in Ancestors[c]
    BY OneLine
<1>8. QED
    BY <1>3, <1>4, <1>6, <1>7

LEMMA AllUnderRoot == ASSUME NEW l \in Node PROVE Root \in Ancestors[l]
<1>1. Ancestors[l] \in SUBSET Node /\ Ancestors[l] # {}
    BY Climb
<1>2. PICK x \in Ancestors[l] : x = Root \/ parent[x] \notin Ancestors[l]
    BY <1>1, Shallowest
<1>3. QED
    BY <1>2, Climb

\* A leaf is the only leaf below it, and no other node is an ancestor of
\* nobody but itself.
LEMMA BelowLeaf ==
    ASSUME NEW x \in Leaf, NEW l \in Leaf
    PROVE  x \in Ancestors[l] <=> x = l
<1>1. x \in Node /\ l \in Node /\ Children(x) = {}
    BY DEF Leaf
<1>2. QED
    BY <1>1, Climb, FromChild

-----------------------------------------------------------------------------
(* The invariant.                                                          *)

\* How far a thread is: through its own barrier, done with its own sum, done
\* with its parent's, counted at its parent's barrier.
Entered(t) == pc[t] \notin {"none", "start", "own_barrier"}

Summed(t) == Entered(t) /\ pc[t] \notin {"wait_exec", "in_exec", "own_locked"}

Added(t) == pc[t] \in {"notify", "notified", "exit", "returning", "ended"}

Notified(t) == pc[t] \in {"notified", "exit", "returning", "ended"}

Returned(t) == pc[t] \in {"returning", "ended"}

\* Whom main has created, in order; its last thread may not be registered.
Created == Len(table) + IF main = "register" THEN 1 ELSE 0

ThreadsInv ==
    /\ Len(table) <= n /\ \A i \in 1 .. Len(table) : table[i] = i - 1
    /\ manager = "main" <=> main = "register"
    /\ main \in {"create", "register"} => Len(table) < n
    /\ main \notin {"create", "register"} => Len(table) = n
    /\ \A t \in Node :
          /\ pc[t] = "none" <=> t >= Created
          /\ t \in live => t < Len(table)
          /\ t \in posted => Returned(t)
          /\ t < Len(table) /\ t \notin live => Returned(t)
          /\ pc[t] # "none" /\ ~Returned(t) => t \in stack
          /\ main = "exited" => Returned(t)

\* Who is counted at a barrier, and what follows from having passed it.
Counted(b) ==
    IF b = Done
    THEN {t \in {Root} : Notified(t)} \cup {u \in {Done} : main \notin {"create", "register", "arrive"}}
    ELSE {t \in {b} : pc[t] \notin {"none", "start"}} \cup {c \in Children(b) : Notified(c)}

Finishing == main \in {"destroy", "exit", "exited"}

BarriersInv ==
    /\ arrived = [b \in Node \cup {Done} |-> Counted(b)]
    /\ \A t \in Node : Entered(t) => \A c \in Children(t) : Notified(c)
    /\ Finishing => Notified(Root)
    /\ destroyed > 0 => Finishing
    /\ main = "destroy" => destroyed <= n

\* One thread at a time adds to a sum, which it has read.
AddersInv ==
    /\ \A t \in Node : pc[t] = "adding" => parent[t] \in locked /\ seen[t] = sum[parent[t]]
    /\ \A t, u \in Node :
          pc[t] = "adding" /\ pc[u] = "adding" /\ parent[t] = parent[u] => t = u

\* What has been added up so far.
SoFar(x) ==
    [l \in Leaf |->
        IF x \in Leaf THEN IF l = x /\ Summed(x) THEN 1 ELSE 0
        ELSE IF \E c \in Children(x) : Added(c) /\ c \in Ancestors[l] THEN 1 ELSE 0]

SumsInv ==
    /\ sum = [x \in Node |-> SoFar(x)]
    /\ Notified(Root) => total_sum = SubtreeSum(Done)
    /\ \A x \in Node \cup {Done} : printed[x] \in {NotPrinted, SubtreeSum(x)}

IInv == TypeOK /\ ThreadsInv /\ BarriersInv /\ AddersInv /\ SumsInv

-----------------------------------------------------------------------------
LEMMA Moved ==
    ASSUME TypeOK, NEW t \in Node, NEW here, NEW next, Goto(t, here, next)
    PROVE  /\ pc[t] = here /\ pc'[t] = next /\ main # "exited"
           /\ \A u \in Node : u # t => pc'[u] = pc[u]
BY DEF TypeOK, Goto

LEMMA TypeInit == Init => TypeOK
<1> SUFFICES ASSUME Init PROVE TypeOK
    OBVIOUS
<1>1. ThreadTypeOK
    BY DEF Init, ThreadInit, ThreadTypeOK
<1>2. Zero \in [Leaf -> Nat]
    BY DEF Zero
<1>3. destroyed \in 0 .. n + 1
    BY TreeAssumption DEF Init
<1>4. NotPrinted \in [Leaf -> Int]
    BY DEF NotPrinted
<1>5. QED
    BY <1>1, <1>2, <1>3, <1>4 DEF Init, TypeOK

LEMMA CountsAdd ==
    ASSUME NEW f \in [Leaf -> Nat], NEW g \in [Leaf -> Nat]
    PROVE  Plus(f, g) \in [Leaf -> Nat]
BY DEF Plus

LEMMA UpIsNode == ASSUME NEW t \in Node PROVE parent[t] \in Node
BY NodeFacts

\* The steps of a thread that change only where it is, and which mutexes are
\* locked.
Silent(t) == LockExec(t) \/ LockOwn(t) \/ UnlockExec(t) \/ Passed(t) \/ Return(t)

LEMMA TypeNode == ASSUME IInv, NEW t \in Node, NodeStep(t) PROVE TypeOK'
<1> USE DEF IInv, TypeOK
<1>1. parent[t] \in Node
    BY UpIsNode
<1>2. main' = main /\ destroyed' = destroyed /\ exec' \in Node \cup {Done} /\ locked' \subseteq Node
    BY <1>1 DEF NodeStep, OwnArrive, ChildrenDone, LockExec, LockOwn, OwnSum, UnlockExec,
           LockParent, AddToParent, Notify, Passed, Exit, Return
<1>3. ThreadTypeOK'
    <2>1. CASE Exit(t)
        BY <2>1 DEF Exit, Post, ThreadTypeOK
    <2>2. CASE UNCHANGED threadVars
        BY <2>2 DEF threadVars, ThreadTypeOK
    <2>3. QED
        BY <2>1, <2>2 DEF NodeStep, OwnArrive, ChildrenDone, LockExec, LockOwn, OwnSum, UnlockExec,
           LockParent, AddToParent, Notify, Passed, Exit, Return
<1>4. pc' \in [Node -> {"none", "start", "own_barrier", "wait_exec", "in_exec", "own_locked",
                      "leave_exec", "to_parent", "adding", "notify", "notified", "exit",
                      "returning", "ended"}]
    BY DEF NodeStep, OwnArrive, ChildrenDone, LockExec, LockOwn, OwnSum, UnlockExec,
           LockParent, AddToParent, Notify, Passed, Exit, Return, Goto
<1>5. arrived' \in [Node \cup {Done} -> SUBSET (Node \cup {Done})]
    <2>1. ASSUME NEW d \in Node \cup {Done}, ArriveAt(t, d)
          PROVE  arrived' \in [Node \cup {Done} -> SUBSET (Node \cup {Done})]
        BY <2>1 DEF ArriveAt
    <2>2. QED
        BY <1>1, <2>1 DEF NodeStep, OwnArrive, ChildrenDone, LockExec, LockOwn, OwnSum, UnlockExec,
           LockParent, AddToParent, Notify, Passed, Exit, Return
<1>6. /\ sum' \in [Node -> [Leaf -> Nat]] /\ seen' \in [Node -> [Leaf -> Nat]]
      /\ total_sum' \in [Leaf -> Nat] /\ printed' \in [Node \cup {Done} -> [Leaf -> Int]]
    <2>1. CASE OwnSum(t)
        <3>1. [Zero EXCEPT ![t] = 1] \in [Leaf -> Nat]
            BY DEF Zero
        <3>2. sum[t] \in [Leaf -> Int]
            OBVIOUS
        <3>3. QED
            BY <2>1, <3>1, <3>2 DEF OwnSum
    <2>2. CASE LockParent(t)
        BY <1>1, <2>2 DEF LockParent
    <2>3. CASE AddToParent(t)
        <3>1. Plus(seen[t], sum[t]) \in [Leaf -> Nat]
            BY CountsAdd
        <3>2. QED
            BY <1>1, <2>3, <3>1 DEF AddToParent
    <2>4. CASE Notify(t)
        BY <2>4 DEF Notify
    <2>5. CASE UNCHANGED <<sum, seen, total_sum, printed>>
        BY <2>5
    <2>6. QED
        BY <2>1, <2>2, <2>3, <2>4, <2>5 DEF NodeStep, OwnArrive, ChildrenDone, LockExec, LockOwn,
           UnlockExec, Passed, Exit, Return
<1>7. QED
    BY <1>2, <1>3, <1>4, <1>5, <1>6

LEMMA TypeMain == ASSUME IInv, MainStep PROVE TypeOK'
<1> USE DEF IInv, TypeOK
<1>1. Len(table) \in Nat /\ n \in Nat \ {0}
    BY TreeAssumption DEF ThreadTypeOK
<1>2. CASE MainCreates
    <2>1. Len(table) \in Node
        BY <1>1, <1>2 DEF ThreadsInv, MainCreates, MainGoto, Node
    <2>2. ThreadTypeOK'
        BY <1>2, <2>1 DEF MainCreates, Clone, ThreadTypeOK
    <2>3. pc' \in [Node -> {"none", "start", "own_barrier", "wait_exec", "in_exec", "own_locked",
                      "leave_exec", "to_parent", "adding", "notify", "notified", "exit",
                      "returning", "ended"}]
        BY <1>2, <2>1 DEF MainCreates
    <2>4. QED
        BY <1>2, <2>2, <2>3 DEF MainCreates, MainGoto
<1>3. CASE MainRegisters
    <2>1. Len(table) \in Node
        BY <1>1, <1>3 DEF ThreadsInv, MainRegisters, MainGoto, Node
    <2>2. ThreadTypeOK'
        BY <1>3, <2>1 DEF MainRegisters, Register, ThreadTypeOK
    <2>3. QED
        BY <1>3, <2>2 DEF MainRegisters, MainGoto, nodeVars
<1>4. CASE MainArrives
    <2>1. ThreadTypeOK'
        BY <1>4 DEF MainArrives, threadVars, ThreadTypeOK
    <2>2. arrived' \in [Node \cup {Done} -> SUBSET (Node \cup {Done})]
        BY <1>4 DEF MainArrives, ArriveAt
    <2>3. QED
        BY <1>4, <2>1, <2>2 DEF MainArrives, MainGoto
<1>5. CASE MainPrints
    <2>1. ThreadTypeOK'
        BY <1>5 DEF MainPrints, threadVars, ThreadTypeOK
    <2>2. total_sum \in [Leaf -> Int]
        OBVIOUS
    <2>3. printed' \in [Node \cup {Done} -> [Leaf -> Int]]
        BY <1>5, <2>2 DEF MainPrints
    <2>4. QED
        BY <1>5, <2>1, <2>3 DEF MainPrints, MainGoto
<1>6. CASE MainDestroys
    <2>1. ThreadTypeOK'
        BY <1>6 DEF MainDestroys, threadVars, ThreadTypeOK
    <2>2. destroyed' \in 0 .. n + 1
        BY <1>1, <1>6 DEF MainDestroys, BarriersInv, MainGoto
    <2>3. QED
        BY <1>6, <2>1, <2>2 DEF MainDestroys, MainGoto, nodeVars
<1>7. CASE MainCollects
    <2>1. ThreadTypeOK'
        BY <1>7 DEF MainCollects, Collect, ThreadTypeOK
    <2>2. QED
        BY <1>7, <2>1 DEF MainCollects, MainGoto, nodeVars
<1>8. CASE MainExits
    <2>1. ThreadTypeOK'
        BY <1>8 DEF MainExits, threadVars, ThreadTypeOK
    <2>2. QED
        BY <1>8, <2>1 DEF MainExits, MainGoto, nodeVars
<1>9. QED
    BY <1>2, <1>3, <1>4, <1>5, <1>6, <1>7, <1>8 DEF MainStep
-----------------------------------------------------------------------------
(* The thread table.                                                       *)

\* A thread runs only once it has been created, and stays returned.
LEMMA Onward ==
    ASSUME TypeOK, NEW t \in Node, NodeStep(t)
    PROVE  /\ main' = main /\ main # "exited"
           /\ pc[t] # "none" /\ pc'[t] # "none" /\ \A u \in Node : u # t => pc'[u] = pc[u]
           /\ Returned(t) => Returned(t)'
           /\ Notified(t) => Notified(t)'
           /\ Exit(t) \/ UNCHANGED threadVars
BY Moved DEF NodeStep, OwnArrive, ChildrenDone, LockExec, LockOwn, OwnSum, UnlockExec,
       LockParent, AddToParent, Notify, Passed, Exit, Return, Returned, Notified

LEMMA ThreadsNode == ASSUME IInv, NEW t \in Node, NodeStep(t) PROVE ThreadsInv'
<1> USE DEF IInv, ThreadsInv
<1>1. /\ main' = main /\ main # "exited"
      /\ pc[t] # "none" /\ pc'[t] # "none" /\ \A u \in Node : u # t => pc'[u] = pc[u]
      /\ Returned(t) => Returned(t)'
    BY Onward
<1>2. \A u \in Node : /\ pc'[u] = "none" <=> pc[u] = "none"
                      /\ Returned(u) => Returned(u)'
    BY <1>1 DEF Returned
<1>3. CASE UNCHANGED threadVars
    <2>1. Created' = Created
        BY <1>1, <1>3 DEF threadVars, Created
    <2>2. QED
        BY <1>1, <1>2, <1>3, <2>1 DEF threadVars
<1>4. CASE Exit(t)
    <2>1. /\ Returned(t)' /\ manager = "free"
          /\ posted' = posted \cup ({t} \cap live)
          /\ UNCHANGED <<table, live, stack, manager>>
        BY <1>4, Moved DEF Exit, Post, Returned
    <2>2. Created' = Created
        BY <1>1, <2>1 DEF Created
    <2>3. QED
        BY <1>1, <1>2, <2>1, <2>2
<1>5. QED
    BY <1>3, <1>4, Onward

LEMMA ThreadsMain == ASSUME IInv, MainStep PROVE ThreadsInv'
<1> USE DEF IInv, ThreadsInv
<1>1. Len(table) \in Nat /\ n \in Nat \ {0} /\ table \in Seq(Node) /\ live \subseteq Node
    BY TreeAssumption DEF TypeOK, ThreadTypeOK
<1>2. CASE MainCreates
    <2>1. /\ main = "create" /\ main' = "register" /\ manager' = "main"
          /\ stack' = stack \cup {Len(table)} /\ UNCHANGED <<table, live, posted>>
          /\ pc' = [pc EXCEPT ![Len(table)] = "start"]
        BY <1>2 DEF MainCreates, MainGoto, Clone
    <2>2. Created = Len(table) /\ Created' = Len(table) + 1
        BY <1>1, <2>1 DEF Created
    <2>3. ASSUME NEW t \in Node
          PROVE  /\ pc'[t] = "none" <=> t >= Created'
                 /\ Returned(t) => Returned(t)'
                 /\ pc'[t] # "none" /\ ~Returned(t)' => t \in stack'
        <3>1. CASE t = Len(table)
            BY <1>1, <2>1, <2>2, <3>1 DEF Returned, TypeOK, Node
        <3>2. CASE t # Len(table)
            <4>1. pc'[t] = pc[t]
                BY <2>1, <3>2 DEF TypeOK
            <4>2. t >= Len(table) <=> t >= Len(table) + 1
                BY <1>1, <3>2 DEF Node
            <4>3. QED
                BY <2>1, <2>2, <4>1, <4>2 DEF Returned
        <3>3. QED
            BY <3>1, <3>2
    <2>4. QED
        BY <1>1, <2>1, <2>3
<1>3. CASE MainRegisters
    <2>1. /\ main = "register" /\ main' = (IF Len(table) + 1 < n THEN "create" ELSE "arrive")
          /\ manager' = "free" /\ table' = Append(table, Len(table))
          /\ live' = live \cup {Len(table)} /\ UNCHANGED <<posted, stack, pc>>
        BY <1>3 DEF MainRegisters, MainGoto, Register, nodeVars
    <2>2. Len(table) < n /\ Len(table) \in Node
        BY <1>1, <2>1 DEF Node
    <2>3. Len(table') = Len(table) + 1 /\ \A i \in 1 .. Len(table) + 1 : table'[i] = i - 1
        BY <1>1, <2>1, <2>2
    <2>4. Created = Len(table) + 1 /\ Created' = Len(table) + 1
        BY <1>1, <2>1, <2>3 DEF Created
    <2>5. \A t \in Node : Returned(t)' <=> Returned(t)
        BY <2>1 DEF Returned
    <2>6. ASSUME NEW t \in Node
          PROVE  /\ t \in live' => t < Len(table')
                 /\ t < Len(table') /\ t \notin live' => Returned(t)'
        BY <1>1, <2>1, <2>3, <2>5 DEF Node
    <2>7. QED
        BY <1>1, <2>1, <2>2, <2>3, <2>4, <2>5, <2>6
<1>4. CASE MainArrives \/ MainPrints \/ MainDestroys
    <2>1. /\ main \in {"arrive", "wait", "destroy"} /\ main' \in {"wait", "destroy", "exit"}
          /\ UNCHANGED <<threadVars, pc>>
        BY <1>4 DEF MainArrives, MainPrints, MainDestroys, MainGoto, nodeVars
    <2>2. Created' = Created /\ \A t \in Node : Returned(t)' <=> Returned(t)
        BY <2>1 DEF Created, Returned, threadVars
    <2>3. QED
        BY <2>1, <2>2 DEF threadVars
<1>5. CASE MainCollects
    <2>1. PICK k \in ToCollect(1) : Collect(k)
        BY <1>5 DEF MainCollects
    <2>2. /\ main = "exit" /\ main' = "exit" /\ pc' = pc
          /\ posted' = posted \ {table[k]} /\ stack' = stack \ {table[k]}
          /\ live' = live \ {table[k]} /\ UNCHANGED <<table, manager>>
          /\ table[k] \in posted
        BY <1>5, <2>1 DEF MainCollects, MainGoto, Collect, nodeVars
    <2>3. table[k] \in Node /\ Returned(table[k])
        BY <2>1, <2>2 DEF ToCollect
    <2>4. Created' = Created /\ \A t \in Node : Returned(t)' <=> Returned(t)
        BY <2>2 DEF Created, Returned
    <2>5. QED
        BY <2>2, <2>3, <2>4
<1>6. CASE MainExits
    <2>1. ToCollect(1) = {} /\ main = "exit" /\ main' = "exited" /\ UNCHANGED <<threadVars, pc>>
        BY <1>6 DEF MainExits, MainGoto, nodeVars
    <2>2. Created' = Created /\ \A t \in Node : Returned(t)' <=> Returned(t)
        BY <2>1 DEF Created, Returned, threadVars
    <2>3. ASSUME NEW t \in Node PROVE Returned(t)
        <3>1. t + 1 \in 1 .. Len(table) /\ table[t + 1] = t
            BY <1>1, <2>1 DEF Node
        <3>2. t \notin live
            BY <2>1, <3>1 DEF ToCollect
        <3>3. QED
            BY <1>1, <3>1, <3>2 DEF Node
    <2>4. QED
        BY <2>1, <2>2, <2>3 DEF threadVars
<1>7. QED
    BY <1>2, <1>3, <1>4, <1>5, <1>6 DEF MainStep
-----------------------------------------------------------------------------
(* The barriers.                                                           *)

LEMMA ChildFacts ==
    ASSUME NEW t \in Node
    PROVE  /\ Children(t) \subseteq Node /\ t \notin Children(t) /\ IsFiniteSet(Children(t))
           /\ \A c \in Children(t) : parent[c] = t /\ c # t
<1>1. Children(t) \in SUBSET Node
    BY DEF Children
<1>2. QED
    BY <1>1, NodeFacts, FS_Subset DEF Children

\* A node's barrier is complete when its children and itself have arrived, and
\* computation_done when the root and main have.
LEMMA CompleteMeans ==
    ASSUME BarriersInv
    PROVE  /\ \A t \in Node : Complete(t) => \A c \in Children(t) : Notified(c)
           /\ Complete(Done) => Notified(Root)
<1>1. arrived = [b \in Node \cup {Done} |-> Counted(b)]
    BY DEF BarriersInv
<1>2. ASSUME NEW t \in Node, Complete(t), NEW c \in Children(t) PROVE Notified(c)
    <2> DEFINE W == Children(t) \cup {t}
    <2>1. t # Done /\ Done \notin Node
        BY NodeFacts DEF Done
    <2>2. arrived[t] \in SUBSET W
        BY <1>1, <2>1 DEF Counted
    <2>3. IsFiniteSet(W) /\ Cardinality(W) = Cardinality(Children(t)) + 1
        BY ChildFacts, FS_AddElement
    <2>4. Cardinality(arrived[t]) = Cardinality(Children(t)) + 1
        BY <1>2, <2>1 DEF Complete, Size
    <2>5. arrived[t] = W
        BY <2>2, <2>3, <2>4, FS_Subset
    <2>6. c \in Counted(t) /\ c # t
        BY <1>1, <2>5, ChildFacts
    <2>7. QED
        BY <2>1, <2>6 DEF Counted
<1>3. ASSUME Complete(Done) PROVE Notified(Root)
    <2> DEFINE W == {Root} \cup {Done}
    <2>1. Root # Done /\ Root \in Node
        BY NodeFacts, OneRoot
    <2>2. arrived[Done] \in SUBSET W
        BY <1>1 DEF Counted
    <2>3. IsFiniteSet({Root}) /\ Cardinality({Root}) = 1
        BY FS_Singleton
    <2>4. IsFiniteSet(W) /\ Cardinality(W) = 2
        <3>1. Cardinality(W) = Cardinality({Root}) + 1 /\ IsFiniteSet(W)
            BY <2>1, <2>3, FS_AddElement
        <3>2. QED
            BY <2>3, <3>1
    <2>5. Cardinality(arrived[Done]) = 2
        BY <1>3 DEF Complete, Size
    <2>6. arrived[Done] = W
        BY <2>2, <2>4, <2>5, FS_Subset
    <2>7. Root \in Counted(Done)
        BY <1>1, <2>6
    <2>8. QED
        BY <2>1, <2>7 DEF Counted
<1>4. QED
    BY <1>2, <1>3

\* Most steps take no thread to or through a barrier.
Away ==
    /\ UNCHANGED arrived
    /\ \A t \in Node :
          /\ pc'[t] \in {"none", "start"} <=> pc[t] \in {"none", "start"}
          /\ Entered(t)' => Entered(t)
          /\ Notified(t)' <=> Notified(t)

LEMMA CountedAway ==
    ASSUME Away, NEW b \in Node \cup {Done}, b = Done => UNCHANGED main
    PROVE  Counted(b)' = Counted(b)
<1>1. CASE b = Done
    BY <1>1, OneRoot DEF Counted, Away
<1>2. CASE b # Done
    <2>1. b \in Node /\ Children(b) \subseteq Node
        BY <1>2, ChildFacts
    <2>2. QED
        BY <1>2, <2>1 DEF Counted, Away
<1>3. QED
    BY <1>1, <1>2

LEMMA BarriersAway ==
    ASSUME BarriersInv, Away, UNCHANGED <<main, destroyed>>
    PROVE  BarriersInv'
<1>1. arrived' = [b \in Node \cup {Done} |-> Counted(b)']
    BY CountedAway DEF BarriersInv, Away
<1>2. \A t \in Node : Entered(t)' => \A c \in Children(t) : Notified(c)'
    BY ChildFacts DEF BarriersInv, Away
<1>3. Finishing' => Notified(Root)'
    BY OneRoot DEF BarriersInv, Away, Finishing
<1>4. QED
    BY <1>1, <1>2, <1>3 DEF BarriersInv, Finishing

LEMMA AwayNode ==
    ASSUME TypeOK, NEW t \in Node, NodeStep(t)
    PROVE  OwnArrive(t) \/ ChildrenDone(t) \/ Notify(t) \/ Away
<1>1. ASSUME NEW here, NEW next, Goto(t, here, next), UNCHANGED arrived,
             here \notin {"none", "start", "own_barrier"},
             next \notin {"none", "start", "own_barrier"},
             here \in {"notified", "exit", "returning", "ended"}
             <=> next \in {"notified", "exit", "returning", "ended"}
      PROVE  Away
    BY <1>1, Moved DEF Away, Entered, Notified
<1>2. QED
    BY <1>1 DEF NodeStep, LockExec, LockOwn, OwnSum, UnlockExec,
       LockParent, AddToParent, Passed, Exit, Return

LEMMA BarriersNode == ASSUME IInv, NEW t \in Node, NodeStep(t) PROVE BarriersInv'
<1>1. /\ TypeOK /\ BarriersInv /\ t # Done /\ Done \notin Node
      /\ arrived = [b \in Node \cup {Done} |-> Counted(b)]
    BY NodeFacts DEF IInv, BarriersInv, Done
<1>2. /\ main' = main /\ \A u \in Node : u # t => pc'[u] = pc[u]
      /\ Notified(t) => Notified(t)'
    BY <1>1, Onward
<1>3. destroyed' = destroyed
    BY DEF NodeStep, OwnArrive, ChildrenDone, LockExec, LockOwn, OwnSum, UnlockExec,
           LockParent, AddToParent, Notify, Passed, Exit, Return
<1>4. \A u \in Node : Notified(u) => Notified(u)'
    BY <1>2 DEF Notified
<1>5. ASSUME arrived' = [b \in Node \cup {Done} |-> Counted(b)'],
             \A u \in Node : Entered(u)' => Entered(u)
      PROVE  BarriersInv'
    <2>1. \A u \in Node : Entered(u)' => \A c \in Children(u) : Notified(c)'
        BY <1>1, <1>4, <1>5, ChildFacts DEF BarriersInv
    <2>2. QED
        BY <1>1, <1>2, <1>3, <1>4, <1>5, <2>1, OneRoot DEF BarriersInv, Finishing
<1>6. CASE OwnArrive(t)
    <2>1. pc[t] = "start" /\ pc'[t] = "own_barrier" /\ arrived' = [arrived EXCEPT ![t] = @ \cup {t}]
        BY <1>1, <1>6, Moved DEF OwnArrive, ArriveAt
    <2>2. \A u \in Node : /\ Notified(u)' <=> Notified(u)
                          /\ Entered(u)' => Entered(u)
        BY <1>2, <2>1 DEF Notified, Entered
    <2>3. ASSUME NEW b \in Node \cup {Done}
          PROVE  Counted(b)' = IF b = t THEN Counted(b) \cup {t} ELSE Counted(b)
        <3>1. CASE b = Done
            BY <1>1, <1>2, <2>2, <3>1, OneRoot DEF Counted
        <3>2. CASE b # Done
            <4>1. b \in Node /\ Children(b) \subseteq Node
                BY <3>2, ChildFacts
            <4>2. {c \in Children(b) : Notified(c)'} = {c \in Children(b) : Notified(c)}
                BY <2>2, <4>1
            <4>3. QED
                BY <1>2, <2>1, <3>2, <4>1, <4>2 DEF Counted
        <3>3. QED
            BY <3>1, <3>2
    <2>4. arrived' = [b \in Node \cup {Done} |-> Counted(b)']
        BY <1>1, <2>1, <2>3
    <2>5. QED
        BY <1>5, <2>2, <2>4
<1>7. CASE ChildrenDone(t)
    <2>1. /\ pc[t] = "own_barrier" /\ pc'[t] = "wait_exec" /\ UNCHANGED arrived
          /\ \A c \in Children(t) : Notified(c)
        BY <1>1, <1>7, Moved, CompleteMeans DEF ChildrenDone
    <2>2. \A u \in Node : Notified(u)' <=> Notified(u)
        BY <1>2, <2>1 DEF Notified
    <2>3. \A u \in Node : pc'[u] \in {"none", "start"} <=> pc[u] \in {"none", "start"}
        BY <1>2, <2>1
    <2>4. ASSUME NEW b \in Node \cup {Done} PROVE Counted(b)' = Counted(b)
        <3>1. CASE b = Done
            BY <1>2, <2>2, <3>1, OneRoot DEF Counted
        <3>2. CASE b # Done
            <4>1. b \in Node /\ Children(b) \subseteq Node
                BY <3>2, ChildFacts
            <4>2. QED
                BY <2>2, <2>3, <3>2, <4>1 DEF Counted
        <3>3. QED
            BY <3>1, <3>2
    <2>5. \A u \in Node : Entered(u)' => \A c \in Children(u) : Notified(c)'
        <3>1. \A u \in Node : Entered(u)' => Entered(u) \/ u = t
            BY <1>2 DEF Entered
        <3>2. QED
            BY <1>1, <2>1, <2>2, <3>1, ChildFacts DEF BarriersInv
    <2>6. QED
        BY <1>1, <1>2, <1>3, <2>1, <2>2, <2>4, <2>5, OneRoot DEF BarriersInv, Finishing
<1>8. CASE Notify(t)
    <2> DEFINE up == IF parent[t] = t THEN Done ELSE parent[t]
    <2>1. /\ pc[t] = "notify" /\ pc'[t] = "notified"
          /\ arrived' = [arrived EXCEPT ![up] = @ \cup {t}]
        BY <1>1, <1>8, Moved DEF Notify, ArriveAt
    <2>2. /\ up \in Node \cup {Done} /\ (parent[t] = t <=> t = Root)
          /\ parent[t] \in Node
        BY NodeFacts, OneRoot
    <2>3. /\ \A u \in Node : Notified(u)' <=> Notified(u) \/ u = t
          /\ \A u \in Node : Entered(u)' => Entered(u)
          /\ \A u \in Node : pc'[u] \in {"none", "start"} <=> pc[u] \in {"none", "start"}
        BY <1>2, <2>1 DEF Notified, Entered
    <2>4. ASSUME NEW b \in Node \cup {Done}
          PROVE  Counted(b)' = IF b = up THEN Counted(b) \cup {t} ELSE Counted(b)
        <3>1. CASE b = Done
            <4>1. b = up <=> t = Root
                BY <1>1, <2>2, <3>1
            <4>2. QED
                BY <1>2, <2>3, <3>1, <4>1, OneRoot DEF Counted
        <3>2. CASE b # Done
            <4>1. b \in Node /\ Children(b) \subseteq Node
                BY <3>2, ChildFacts
            <4>2. t \in Children(b) <=> b = up
                BY <1>1, <3>2, <4>1 DEF Children
            <4>3. {c \in Children(b) : Notified(c)'}
                  = IF b = up THEN {c \in Children(b) : Notified(c)} \cup {t}
                              ELSE {c \in Children(b) : Notified(c)}
                BY <2>3, <4>1, <4>2
            <4>4. {u \in {b} : pc'[u] \notin {"none", "start"}} = {u \in {b} : pc[u] \notin {"none", "start"}}
                BY <2>3, <4>1
            <4> HIDE DEF up
            <4>5. QED
                BY <3>2, <4>3, <4>4 DEF Counted
        <3>3. QED
            BY <3>1, <3>2
    <2>5. arrived' = [b \in Node \cup {Done} |-> Counted(b)']
        <3> HIDE DEF up
        <3>1. QED
            BY <1>1, <2>1, <2>4
    <2>6. QED
        BY <1>5, <2>3, <2>5
<1>9. CASE Away
    BY <1>1, <1>2, <1>3, <1>9, BarriersAway
<1>10. QED
    BY <1>1, <1>6, <1>7, <1>8, <1>9, AwayNode
LEMMA BarriersMain == ASSUME IInv, MainStep PROVE BarriersInv'
<1>1. /\ BarriersInv /\ ThreadsInv /\ TypeOK /\ Done \notin Node
      /\ arrived = [b \in Node \cup {Done} |-> Counted(b)]
    BY NodeFacts DEF IInv, BarriersInv, Done
<1>2. ASSUME \A t \in Node : /\ pc'[t] \in {"none", "start"} <=> pc[t] \in {"none", "start"}
                             /\ Entered(t)' <=> Entered(t)
                             /\ Notified(t)' <=> Notified(t),
             arrived' = [b \in Node \cup {Done} |-> Counted(b)'],
             Finishing' => Notified(Root),
             destroyed' > 0 => Finishing',
             main' = "destroy" => destroyed' <= n
      PROVE  BarriersInv'
    <2>1. \A t \in Node : Entered(t)' => \A c \in Children(t) : Notified(c)'
        BY <1>1, <1>2, ChildFacts DEF BarriersInv
    <2>2. QED
        BY <1>2, <2>1, OneRoot DEF BarriersInv
<1>3. CASE MainCreates
    <2>1. /\ main = "create" /\ main' = "register" /\ UNCHANGED <<arrived, destroyed>>
          /\ pc' = [pc EXCEPT ![Len(table)] = "start"]
        BY <1>3 DEF MainCreates, MainGoto
    <2>2. Len(table) \in Node /\ pc[Len(table)] = "none"
        <3>1. Len(table) \in Nat /\ Len(table) < n /\ Created = Len(table)
            BY <1>1, <2>1 DEF ThreadsInv, TypeOK, ThreadTypeOK, Created
        <3>2. Len(table) \in Node
            BY <3>1, TreeAssumption DEF Node
        <3>3. QED
            BY <1>1, <3>1, <3>2 DEF ThreadsInv
    <2>3. \A t \in Node : /\ pc'[t] \in {"none", "start"} <=> pc[t] \in {"none", "start"}
                          /\ Entered(t)' <=> Entered(t)
                          /\ Notified(t)' <=> Notified(t)
        BY <1>1, <2>1, <2>2 DEF Entered, Notified, TypeOK
    <2>4. Away
        BY <2>1, <2>3 DEF Away
    <2>5. Counted(Done)' = Counted(Done)
        BY <2>1, <2>3, OneRoot DEF Counted
    <2>6. \A b \in Node \cup {Done} : Counted(b)' = Counted(b)
        BY <2>4, <2>5, CountedAway
    <2>7. ~Finishing /\ ~Finishing'
        BY <2>1 DEF Finishing
    <2>8. QED
        BY <1>1, <1>2, <2>1, <2>3, <2>6, <2>7 DEF BarriersInv
<1>4. ASSUME UNCHANGED <<pc, arrived>>,
             main \in {"create", "register", "arrive"} <=> main' \in {"create", "register", "arrive"},
             Finishing' => Notified(Root), destroyed' > 0 => Finishing',
             main' = "destroy" => destroyed' <= n
      PROVE  BarriersInv'
    <2>1. \A t \in Node : /\ pc'[t] \in {"none", "start"} <=> pc[t] \in {"none", "start"}
                          /\ Entered(t)' <=> Entered(t)
                          /\ Notified(t)' <=> Notified(t)
        BY <1>4 DEF Entered, Notified
    <2>2. \A b \in Node \cup {Done} : Counted(b)' = Counted(b)
        <3>1. Away
            BY <1>4, <2>1 DEF Away
        <3>2. Counted(Done)' = Counted(Done)
            BY <1>4, <2>1, OneRoot DEF Counted
        <3>3. QED
            BY <3>1, <3>2, CountedAway
    <2>3. QED
        BY <1>1, <1>2, <1>4, <2>1, <2>2
<1>5. CASE MainRegisters
    <2>1. /\ main = "register" /\ main' \in {"create", "arrive"} /\ UNCHANGED <<pc, arrived, destroyed>>
        BY <1>5 DEF MainRegisters, MainGoto, nodeVars
    <2>2. QED
        BY <1>1, <1>4, <2>1 DEF BarriersInv, Finishing
<1>6. CASE MainArrives
    <2>1. /\ main = "arrive" /\ main' = "wait" /\ UNCHANGED <<pc, destroyed>>
          /\ arrived' = [arrived EXCEPT ![Done] = @ \cup {Done}]
        BY <1>6 DEF MainArrives, MainGoto, ArriveAt
    <2>2. \A t \in Node : /\ pc'[t] \in {"none", "start"} <=> pc[t] \in {"none", "start"}
                          /\ Entered(t)' <=> Entered(t)
                          /\ Notified(t)' <=> Notified(t)
        BY <2>1 DEF Entered, Notified
    <2>3. Counted(Done)' = Counted(Done) \cup {Done}
        BY <2>1, <2>2, OneRoot DEF Counted
    <2>4. ASSUME NEW b \in Node PROVE Counted(b)' = Counted(b)
        <3>1. b # Done /\ Children(b) \subseteq Node
            BY <1>1, ChildFacts
        <3>2. QED
            BY <2>1, <2>2, <3>1 DEF Counted
    <2>5. arrived' = [b \in Node \cup {Done} |-> Counted(b)']
        BY <1>1, <2>1, <2>3, <2>4
    <2>6. QED
        BY <1>1, <1>2, <2>1, <2>2, <2>5 DEF BarriersInv, Finishing
<1>7. CASE MainPrints
    <2>1. main = "wait" /\ main' = "destroy" /\ UNCHANGED <<pc, arrived, destroyed>> /\ Notified(Root)
        BY <1>1, <1>7, CompleteMeans DEF MainPrints, MainGoto
    <2>2. destroyed = 0 /\ n \in Nat
        BY <1>1, <2>1, TreeAssumption DEF BarriersInv, Finishing, TypeOK
    <2>3. QED
        BY <1>4, <2>1, <2>2 DEF Finishing
<1>8. CASE MainDestroys
    <2>1. /\ main = "destroy" /\ main' = (IF destroyed = n THEN "exit" ELSE "destroy")
          /\ destroyed' = destroyed + 1 /\ UNCHANGED <<pc, arrived>>
        BY <1>8 DEF MainDestroys, MainGoto, nodeVars
    <2>2. Notified(Root) /\ destroyed <= n /\ destroyed \in Nat /\ n \in Nat
        BY <1>1, <2>1, TreeAssumption DEF BarriersInv, Finishing, TypeOK
    <2>3. QED
        BY <1>4, <2>1, <2>2 DEF Finishing
<1>9. CASE MainCollects \/ MainExits
    <2>1. main = "exit" /\ main' \in {"exit", "exited"} /\ UNCHANGED <<pc, arrived, destroyed>>
        BY <1>9 DEF MainCollects, MainExits, MainGoto, nodeVars
    <2>2. QED
        BY <1>1, <1>4, <2>1 DEF BarriersInv, Finishing
<1>10. QED
    BY <1>3, <1>5, <1>6, <1>7, <1>8, <1>9 DEF MainStep

-----------------------------------------------------------------------------
(* The sums.                                                               *)

\* A node's number or sum is what goes to its parent, whole.
LEMMA Whole ==
    ASSUME BarriersInv, NEW x \in Node, Entered(x), x \in Leaf => Summed(x)
    PROVE  SoFar(x) = SubtreeSum(x)
<1>1. ASSUME NEW l \in Leaf
      PROVE  SoFar(x)[l] = IF x \in Ancestors[l] THEN 1 ELSE 0
    <2>1. l \in Node /\ x # Done
        BY NodeFacts DEF Leaf, Done
    <2>2. CASE x \in Leaf
        BY <2>2, BelowLeaf DEF SoFar
    <2>3. CASE x \notin Leaf
        <3>1. x # l
            BY <2>3
        <3>2. x \in Ancestors[l] <=> \E c \in Children(x) : c \in Ancestors[l]
            <4>1. ASSUME NEW c \in Children(x), c \in Ancestors[l]
                  PROVE  x \in Ancestors[l]
                <5>1. parent[c] = x
                    BY ChildFacts
                <5>2. QED
                    BY <2>1, <4>1, <5>1, Climb
            <4>2. QED
                BY <2>1, <3>1, <4>1, FromChild
        <3>3. \A c \in Children(x) : Added(c)
            BY DEF BarriersInv, Added, Notified
        <3>4. QED
            BY <2>3, <3>2, <3>3 DEF SoFar
    <2>4. QED
        BY <2>2, <2>3
<1>2. x # Done
    BY NodeFacts DEF Done
<1>3. SubtreeSum(x) = [l \in Leaf |-> IF x \in Ancestors[l] THEN 1 ELSE 0]
    BY <1>2 DEF SubtreeSum
<1>4. SoFar(x) = [l \in Leaf |-> SoFar(x)[l]]
    BY DEF SoFar
<1>5. QED
    BY <1>1, <1>3, <1>4

\* Everything is below the root.
LEMMA RootHasAll == SubtreeSum(Root) = SubtreeSum(Done)
<1>1. \A l \in Leaf : Root \in Ancestors[l]
    BY AllUnderRoot DEF Leaf
<1>2. QED
    BY <1>1 DEF SubtreeSum

\* Adding the sum of one more child of x: none of its leaves is in it yet.
LEMMA OneMore ==
    ASSUME BarriersInv, NEW t \in Node, t # Root, pc[t] = "adding",
           Added(t)', \A u \in Node : u # t => (Added(u)' <=> Added(u))
    PROVE  SoFar(parent[t])' = Plus(SoFar(parent[t]), SoFar(t))
<1> DEFINE x == parent[t]
<1>1. x \in Node /\ t \in Children(x) /\ x \notin Leaf /\ Children(x) \subseteq Node
    BY UpIsNode, OneRoot, ChildFacts DEF Children, Leaf
<1>2. SoFar(t) = SubtreeSum(t)
    BY Whole DEF Entered, Summed
<1>3. ~Added(t) /\ t # Done
    BY NodeFacts DEF Added, Done
<1> HIDE DEF x
<1>4. ASSUME NEW l \in Leaf
      PROVE  (IF \E c \in Children(x) : Added(c)' /\ c \in Ancestors[l] THEN 1 ELSE 0)
             = SoFar(x)[l] + SoFar(t)[l]
    <2>1. l \in Node
        BY DEF Leaf
    <2>2. SoFar(t)[l] = IF t \in Ancestors[l] THEN 1 ELSE 0
        BY <1>2, <1>3 DEF SubtreeSum
    <2>3. SoFar(x)[l] = IF \E c \in Children(x) : Added(c) /\ c \in Ancestors[l] THEN 1 ELSE 0
        BY <1>1 DEF SoFar
    <2>4. CASE t \in Ancestors[l]
        <3>1. \A c \in Children(x) : c \in Ancestors[l] => c = t
            BY <1>1, <2>1, <2>4, OneWay
        <3>2. QED
            BY <1>1, <1>3, <2>2, <2>3, <2>4, <3>1
    <2>5. CASE t \notin Ancestors[l]
        <3>1. (\E c \in Children(x) : Added(c)' /\ c \in Ancestors[l])
              <=> \E c \in Children(x) : Added(c) /\ c \in Ancestors[l]
            BY <1>1, <2>5
        <3>2. QED
            BY <2>2, <2>3, <2>5, <3>1
    <2>6. QED
        BY <2>4, <2>5
<1>5. SoFar(x)' = [l \in Leaf |-> IF \E c \in Children(x) : Added(c)' /\ c \in Ancestors[l] THEN 1 ELSE 0]
    BY <1>1 DEF SoFar, x
<1>6. QED
    BY <1>4, <1>5 DEF Plus, x
\* A thread locks a sum that nobody is adding to, and writes its own when no
\* child is (computesum.c:107-127).
LEMMA AddersNode == ASSUME IInv, NEW t \in Node, NodeStep(t) PROVE AddersInv'
<1>1. /\ TypeOK /\ AddersInv /\ BarriersInv /\ parent[t] \in Node
      /\ \A u \in Node : u # t => pc'[u] = pc[u]
    BY Onward, UpIsNode DEF IInv
<1>2. ASSUME \A u \in Node :
                 pc'[u] = "adding" => /\ pc[u] = "adding"
                                      /\ parent[u] \in locked'
                                      /\ seen'[u] = seen[u]
                                      /\ sum'[parent[u]] = sum[parent[u]]
      PROVE  AddersInv'
    BY <1>1, <1>2 DEF AddersInv
<1>3. CASE LockParent(t)
    <2>1. /\ pc[t] = "to_parent" /\ pc'[t] = "adding" /\ parent[t] \notin locked
          /\ locked' = locked \cup {parent[t]} /\ sum' = sum
          /\ seen' = [seen EXCEPT ![t] = sum[parent[t]]]
        BY <1>1, <1>3, Moved DEF LockParent
    <2>2. seen'[t] = sum[parent[t]] /\ \A u \in Node : u # t => seen'[u] = seen[u]
        BY <1>1, <2>1 DEF TypeOK
    <2>3. \A u \in Node : pc'[u] = "adding" => parent[u] \in locked' /\ seen'[u] = sum'[parent[u]]
        BY <1>1, <2>1, <2>2 DEF AddersInv
    <2>4. \A u \in Node : pc'[u] = "adding" /\ u # t => parent[u] # parent[t]
        BY <1>1, <2>1 DEF AddersInv
    <2>5. QED
        BY <1>1, <2>3, <2>4 DEF AddersInv
<1>4. CASE AddToParent(t)
    <2>1. /\ pc[t] = "adding" /\ pc'[t] = "notify" /\ locked' = locked \ {parent[t]} /\ seen' = seen
          /\ \A x \in Node : x # parent[t] => sum'[x] = sum[x]
        BY <1>1, <1>4, Moved DEF AddToParent, TypeOK
    <2>2. \A u \in Node : pc'[u] = "adding" => pc[u] = "adding" /\ parent[u] # parent[t] /\ parent[u] \in Node
        BY <1>1, <2>1, UpIsNode DEF AddersInv
    <2>3. QED
        BY <1>1, <1>2, <2>1, <2>2 DEF AddersInv
<1>5. CASE OwnSum(t)
    <2>1. /\ pc[t] = "own_locked" /\ pc'[t] = "leave_exec" /\ locked' = locked \ {t} /\ seen' = seen
          /\ \A x \in Node : x # t => sum'[x] = sum[x]
        BY <1>1, <1>5, Moved DEF OwnSum, TypeOK
    <2>2. ASSUME NEW u \in Node, pc'[u] = "adding"
          PROVE  pc[u] = "adding" /\ parent[u] # t /\ parent[u] \in Node
        <3>1. pc[u] = "adding" /\ u # t
            BY <1>1, <2>1, <2>2
        <3>2. ~Notified(u) /\ Entered(t)
            BY <2>1, <3>1 DEF Notified, Entered
        <3>3. u \notin Children(t)
            BY <1>1, <3>2 DEF BarriersInv
        <3>4. QED
            BY <3>1, <3>3, UpIsNode DEF Children
    <2>3. QED
        BY <1>1, <1>2, <2>1, <2>2 DEF AddersInv
<1>6. ASSUME NEW here, NEW next, Goto(t, here, next), next # "adding",
             UNCHANGED <<sum, seen>>, locked \subseteq locked'
      PROVE  AddersInv'
    <2>1. \A u \in Node : pc'[u] = "adding" => pc[u] = "adding"
        BY <1>1, <1>6, Moved
    <2>2. QED
        BY <1>1, <1>2, <1>6, <2>1 DEF AddersInv
<1>7. QED
    BY <1>3, <1>4, <1>5, <1>6 DEF NodeStep, OwnArrive, ChildrenDone, LockExec, LockOwn,
       UnlockExec, Notify, Passed, Exit, Return

LEMMA SoFarSame ==
    ASSUME \A u \in Node : (Summed(u)' <=> Summed(u)) /\ (Added(u)' <=> Added(u))
    PROVE  \A x \in Node : SoFar(x)' = SoFar(x)
<1>1. ASSUME NEW x \in Node, NEW l \in Leaf
      PROVE  (\E c \in Children(x) : Added(c)' /\ c \in Ancestors[l])
             <=> \E c \in Children(x) : Added(c) /\ c \in Ancestors[l]
    BY ChildFacts
<1>2. QED
    BY <1>1 DEF SoFar

\* What the sums depend on stays as it is.
LEMMA SumsSame ==
    ASSUME SumsInv, UNCHANGED <<sum, total_sum, printed>>,
           \A u \in Node : /\ Summed(u)' <=> Summed(u)
                           /\ Added(u)' <=> Added(u)
                           /\ Notified(u)' <=> Notified(u)
    PROVE  SumsInv'
<1>1. sum' = [x \in Node |-> SoFar(x)']
    BY SoFarSame DEF SumsInv
<1>2. QED
    BY <1>1, OneRoot DEF SumsInv

LEMMA SumsNode == ASSUME IInv, NEW t \in Node, NodeStep(t) PROVE SumsInv'
<1>1. /\ TypeOK /\ AddersInv /\ BarriersInv /\ SumsInv /\ parent[t] \in Node
      /\ \A u \in Node : u # t => pc'[u] = pc[u]
      /\ Done \notin Node /\ sum = [x \in Node |-> SoFar(x)]
    BY Onward, UpIsNode, NodeFacts DEF IInv, SumsInv, Done
<1>2. CASE OwnSum(t)
    <2>1. /\ pc[t] = "own_locked" /\ pc'[t] = "leave_exec" /\ total_sum' = total_sum
        BY <1>1, <1>2, Moved DEF OwnSum
    <2>2. \A u \in Node : /\ u # t => (Summed(u)' <=> Summed(u))
                          /\ Added(u)' <=> Added(u)
                          /\ Notified(u)' <=> Notified(u)
        BY <1>1, <2>1 DEF Summed, Entered, Added, Notified
    <2>3. Summed(t)' /\ Entered(t)
        BY <2>1 DEF Summed, Entered
    <2>4. ASSUME NEW x \in Node, x # t \/ x \notin Leaf PROVE SoFar(x)' = SoFar(x)
        <3>1. \A l \in Leaf : (\E c \in Children(x) : Added(c)' /\ c \in Ancestors[l])
                              <=> \E c \in Children(x) : Added(c) /\ c \in Ancestors[l]
            BY <2>2, ChildFacts
        <3>2. QED
            BY <2>2, <2>4, <3>1 DEF SoFar
    <2>5. CASE t \in Leaf
        <3>1. /\ sum' = [sum EXCEPT ![t] = [Zero EXCEPT ![t] = 1]] /\ printed' = printed
            BY <1>2, <2>5 DEF OwnSum
        <3>2. SoFar(t)' = [Zero EXCEPT ![t] = 1]
            BY <2>3, <2>5 DEF SoFar, Zero
        <3>3. sum' = [x \in Node |-> SoFar(x)']
            BY <1>1, <2>4, <3>1, <3>2
        <3>4. QED
            BY <1>1, <2>1, <2>2, <3>1, <3>3, OneRoot DEF SumsInv
    <2>6. CASE t \notin Leaf
        <3>1. sum' = sum /\ printed' = [printed EXCEPT ![t] = sum[t]]
            BY <1>2, <2>6 DEF OwnSum
        <3>2. sum[t] = SubtreeSum(t)
            BY <1>1, <2>3, <2>6, Whole
        <3>3. sum' = [x \in Node |-> SoFar(x)']
            BY <1>1, <2>4, <2>6, <3>1
        <3>4. \A x \in Node \cup {Done} : printed'[x] \in {NotPrinted, SubtreeSum(x)}
            BY <1>1, <3>1, <3>2 DEF SumsInv, TypeOK
        <3>5. QED
            BY <1>1, <2>1, <2>2, <3>3, <3>4, OneRoot DEF SumsInv
    <2>7. QED
        BY <2>5, <2>6
<1>3. CASE AddToParent(t)
    <2>1. /\ pc[t] = "adding" /\ pc'[t] = "notify" /\ UNCHANGED <<total_sum, printed>>
          /\ sum' = (IF parent[t] = t THEN sum ELSE [sum EXCEPT ![parent[t]] = Plus(seen[t], sum[t])])
        BY <1>1, <1>3, Moved DEF AddToParent
    <2>2. /\ \A u \in Node : /\ u # t => (Added(u)' <=> Added(u))
                             /\ Summed(u)' <=> Summed(u)
                             /\ Notified(u)' <=> Notified(u)
          /\ Added(t)'
        BY <1>1, <2>1 DEF Summed, Entered, Added, Notified
    <2>3. ASSUME NEW x \in Node, t \notin Children(x) PROVE SoFar(x)' = SoFar(x)
        <3>1. \A l \in Leaf : (\E c \in Children(x) : Added(c)' /\ c \in Ancestors[l])
                              <=> \E c \in Children(x) : Added(c) /\ c \in Ancestors[l]
            BY <2>2, <2>3, ChildFacts
        <3>2. QED
            BY <2>2, <3>1 DEF SoFar
    <2>4. sum' = [x \in Node |-> SoFar(x)']
        <3>1. CASE t = Root
            <4>1. \A x \in Node : t \notin Children(x)
                BY <3>1, OneRoot DEF Children
            <4>2. QED
                BY <1>1, <2>1, <2>3, <3>1, <4>1, OneRoot
        <3>2. CASE t # Root
            <4>1. parent[t] # t
                BY <3>2, OneRoot
            <4>2. seen[t] = SoFar(parent[t]) /\ sum[t] = SoFar(t)
                BY <1>1, <2>1 DEF AddersInv
            <4>3. SoFar(parent[t])' = Plus(seen[t], sum[t])
                BY <1>1, <2>1, <2>2, <3>2, <4>2, OneMore
            <4>4. \A x \in Node : x # parent[t] => t \notin Children(x)
                BY DEF Children
            <4>5. QED
                BY <1>1, <2>1, <2>3, <4>1, <4>3, <4>4
        <3>3. QED
            BY <3>1, <3>2
    <2>5. QED
        BY <1>1, <2>1, <2>2, <2>4, OneRoot DEF SumsInv
<1>4. CASE Notify(t)
    <2>1. /\ pc[t] = "notify" /\ pc'[t] = "notified" /\ UNCHANGED <<sum, printed>>
          /\ total_sum' = IF parent[t] = t THEN sum[t] ELSE total_sum
        BY <1>1, <1>4, Moved DEF Notify
    <2>2. \A u \in Node : /\ u # t => (Notified(u)' <=> Notified(u))
                          /\ Summed(u)' <=> Summed(u)
                          /\ Added(u)' <=> Added(u)
        BY <1>1, <2>1 DEF Summed, Entered, Added, Notified
    <2>3. sum' = [x \in Node |-> SoFar(x)']
        BY <1>1, <2>1, <2>2, SoFarSame
    <2>4. Notified(Root)' => total_sum' = SubtreeSum(Done)
        <3>1. CASE t = Root
            <4>1. Entered(t) /\ Summed(t)
                BY <2>1 DEF Entered, Summed
            <4>2. sum[t] = SubtreeSum(Root)
                BY <1>1, <3>1, <4>1, Whole
            <4>3. QED
                BY <2>1, <3>1, <4>2, OneRoot, RootHasAll
        <3>2. CASE t # Root
            BY <1>1, <2>1, <2>2, <3>2, OneRoot DEF SumsInv
        <3>3. QED
            BY <3>1, <3>2
    <2>5. QED
        BY <1>1, <2>1, <2>3, <2>4 DEF SumsInv
<1>5. ASSUME NEW here, NEW next, Goto(t, here, next), UNCHANGED <<sum, total_sum, printed>>,
             <<here, next>> \in
                 {<<"start", "own_barrier">>, <<"own_barrier", "wait_exec">>,
                  <<"wait_exec", "in_exec">>, <<"in_exec", "own_locked">>,
                  <<"leave_exec", "to_parent">>, <<"to_parent", "adding">>,
                  <<"notified", "exit">>, <<"exit", "returning">>, <<"returning", "ended">>}
      PROVE  SumsInv'
    <2>1. \A u \in Node : /\ Summed(u)' <=> Summed(u)
                          /\ Added(u)' <=> Added(u)
                          /\ Notified(u)' <=> Notified(u)
        BY <1>1, <1>5, Moved DEF Summed, Entered, Added, Notified
    <2>2. QED
        BY <1>1, <1>5, <2>1, SumsSame
<1>6. QED
    BY <1>2, <1>3, <1>4, <1>5 DEF NodeStep, OwnArrive, ChildrenDone, LockExec, LockOwn,
       UnlockExec, LockParent, Passed, Exit, Return

\* Main changes no sum, and prints the total when the root has left it.
LEMMA SumsMain == ASSUME IInv, MainStep PROVE AddersInv' /\ SumsInv'
<1>1. /\ TypeOK /\ ThreadsInv /\ AddersInv /\ BarriersInv /\ SumsInv /\ Done \notin Node
    BY NodeFacts DEF IInv, Done
<1>2. UNCHANGED <<locked, seen, sum, total_sum>>
    BY DEF MainStep, MainCreates, MainRegisters, MainArrives, MainPrints, MainDestroys,
           MainCollects, MainExits, nodeVars
<1>3. \A u \in Node : pc'[u] = pc[u] \/ (pc[u] = "none" /\ pc'[u] = "start")
    <2>1. CASE MainCreates
        <3>1. main = "create" /\ pc' = [pc EXCEPT ![Len(table)] = "start"]
            BY <2>1 DEF MainCreates, MainGoto
        <3>2. Len(table) \in Nat /\ Created = Len(table) /\ Len(table) < n
            BY <1>1, <3>1 DEF ThreadsInv, TypeOK, ThreadTypeOK, Created
        <3>3. Len(table) \in Node
            BY <3>2, TreeAssumption DEF Node
        <3>4. pc[Len(table)] = "none"
            BY <1>1, <3>2, <3>3 DEF ThreadsInv
        <3>5. QED
            BY <1>1, <3>1, <3>4 DEF TypeOK
    <2>2. CASE pc' = pc
        BY <2>2
    <2>3. QED
        BY <2>1, <2>2 DEF MainStep, MainRegisters, MainArrives, MainPrints, MainDestroys,
           MainCollects, MainExits, nodeVars
<1>4. \A u \in Node : /\ Summed(u)' <=> Summed(u)
                      /\ Added(u)' <=> Added(u)
                      /\ Notified(u)' <=> Notified(u)
                      /\ pc'[u] = "adding" <=> pc[u] = "adding"
    BY <1>3 DEF Summed, Entered, Added, Notified
<1>5. AddersInv'
    BY <1>1, <1>2, <1>4 DEF AddersInv
<1>6. CASE MainPrints
    <2>1. Notified(Root) /\ printed' = [printed EXCEPT ![Done] = total_sum]
        BY <1>1, <1>6, CompleteMeans DEF MainPrints
    <2>2. total_sum = SubtreeSum(Done)
        BY <1>1, <2>1 DEF SumsInv
    <2>3. \A x \in Node \cup {Done} : printed'[x] \in {NotPrinted, SubtreeSum(x)}
        BY <1>1, <2>1, <2>2 DEF SumsInv, TypeOK
    <2>4. sum' = [x \in Node |-> SoFar(x)']
        BY <1>1, <1>2, <1>4, SoFarSame DEF SumsInv
    <2>5. QED
        BY <1>1, <1>2, <1>4, <1>5, <2>3, <2>4, OneRoot DEF SumsInv
<1>7. CASE printed' = printed
    BY <1>1, <1>2, <1>4, <1>5, <1>7, SumsSame
<1>8. QED
    BY <1>6, <1>7 DEF MainStep, MainCreates, MainRegisters, MainArrives, MainDestroys,
       MainCollects, MainExits, nodeVars

-----------------------------------------------------------------------------
LEMMA InitInv == Init => IInv
<1> SUFFICES ASSUME Init PROVE IInv
    OBVIOUS
<1> USE DEF Init
<1>1. TypeOK
    BY TypeInit
<1>2. n \in Nat \ {0} /\ Done \notin Node
    BY TreeAssumption, NodeFacts DEF Done
<1>3. \A t \in Node : pc[t] = "none" /\ ~Entered(t) /\ ~Summed(t) /\ ~Added(t) /\ ~Notified(t) /\ ~Returned(t)
    BY DEF Entered, Summed, Added, Notified, Returned
<1>4. ThreadsInv
    <2>1. Len(table) = 0 /\ Created = 0
        BY DEF ThreadInit, Created
    <2>2. \A t \in Node : t >= 0
        BY DEF Node
    <2>3. QED
        BY <1>2, <1>3, <2>1, <2>2 DEF ThreadsInv, ThreadInit
<1>5. BarriersInv
    <2>1. \A b \in Node \cup {Done} : Counted(b) = {}
        BY <1>2, <1>3, ChildFacts, OneRoot DEF Counted
    <2>2. QED
        BY <1>2, <1>3, <2>1 DEF BarriersInv, Finishing
<1>6. AddersInv
    BY <1>3 DEF AddersInv
<1>7. SumsInv
    <2>1. \A x \in Node : SoFar(x) = Zero
        <3>1. \A x \in Node : \A l \in Leaf : ~ \E c \in Children(x) : Added(c) /\ c \in Ancestors[l]
            BY <1>3, ChildFacts
        <3>2. QED
            BY <1>3, <3>1 DEF SoFar, Zero
    <2>2. QED
        BY <1>3, <2>1, OneRoot DEF SumsInv
<1>8. QED
    BY <1>1, <1>4, <1>5, <1>6, <1>7 DEF IInv

LEMMA StepInv == IInv /\ [Next]_vars => IInv'
<1> SUFFICES ASSUME IInv, [Next]_vars PROVE IInv'
    OBVIOUS
<1>1. ASSUME NEW t \in Node, NodeStep(t) PROVE IInv'
    <2>1. TypeOK' /\ ThreadsInv'
        BY <1>1, TypeNode, ThreadsNode
    <2>2. BarriersInv' /\ AddersInv' /\ SumsInv'
        BY <1>1, BarriersNode, AddersNode, SumsNode
    <2>3. QED
        BY <2>1, <2>2 DEF IInv
<1>2. CASE MainStep
    BY <1>2, TypeMain, ThreadsMain, BarriersMain, SumsMain DEF IInv
<1>3. CASE UNCHANGED vars
    <2>1. /\ TypeOK' <=> TypeOK
          /\ ThreadsInv' <=> ThreadsInv
        BY <1>3 DEF vars, threadVars, nodeVars, TypeOK, ThreadTypeOK, ThreadsInv, Created, Returned
    <2>2. \A u \in Node : /\ pc'[u] = pc[u]
                          /\ Entered(u)' <=> Entered(u)
                          /\ Summed(u)' <=> Summed(u)
                          /\ Added(u)' <=> Added(u)
                          /\ Notified(u)' <=> Notified(u)
        BY <1>3 DEF vars, nodeVars, Entered, Summed, Added, Notified
    <2>3. Away /\ UNCHANGED <<main, destroyed, sum, seen, locked, total_sum, printed>>
        BY <1>3, <2>2 DEF vars, nodeVars, Away
    <2>4. BarriersInv' /\ SumsInv'
        BY <2>2, <2>3, BarriersAway, SumsSame DEF IInv
    <2>5. AddersInv'
        BY <2>2, <2>3 DEF AddersInv, IInv
    <2>6. QED
        BY <2>1, <2>4, <2>5 DEF IInv
<1>4. QED
    BY <1>1, <1>2, <1>3 DEF Next

\* The invariant holds in every reachable state, for every tree
\* (computesum.c:64-145).
THEOREM Invariance == Spec => []IInv
<1>1. Init => IInv
    BY InitInv
<1>2. IInv /\ [Next]_vars => IInv'
    BY StepInv
<1>3. QED
    BY <1>1, <1>2, PTL DEF Spec

\* Every number that is printed is the whole sum below the node, each leaf
\* counted once (computesum.c:78, 115): a child adds to its parent's sum under
\* the parent's mutex and arrives at its barrier after that (123-137), and the
\* parent reads it only when all have arrived (102).
THEOREM SumsRight == Spec => []SumsComplete
<1>1. IInv => SumsComplete
    BY DEF IInv, SumsInv, SumsComplete
<1>2. QED
    BY <1>1, Invariance, PTL

\* Once the root has been counted, every thread has been at its parent's
\* barrier: the shallowest that had not would be one whose parent is through
\* its own.
LEMMA AllNotified ==
    ASSUME BarriersInv, Notified(Root)
    PROVE  \A t \in Node : Notified(t)
<1> DEFINE S == {t \in Node : ~Notified(t)}
<1>1. SUFFICES ASSUME S # {} PROVE FALSE
    OBVIOUS
<1>2. PICK x \in S : x = Root \/ parent[x] \notin S
    BY <1>1, Shallowest
<1>3. x # Root /\ parent[x] \in Node /\ parent[x] # x /\ Notified(parent[x])
    BY <1>2, UpIsNode, OneRoot
<1>4. Entered(parent[x]) /\ x \in Children(parent[x])
    BY <1>3 DEF Notified, Entered, Children
<1>5. Notified(x)
    BY <1>3, <1>4 DEF BarriersInv
<1>6. QED
    BY <1>5

\* Then all who are expected have arrived at every barrier that a thread can
\* still be in.
LEMMA AllArrived ==
    ASSUME BarriersInv, Finishing, NEW t \in Node
    PROVE  Complete(IF parent[t] = t THEN Done ELSE parent[t])
<1>1. arrived = [b \in Node \cup {Done} |-> Counted(b)] /\ \A x \in Node : Notified(x)
    BY AllNotified DEF BarriersInv
<1>2. CASE parent[t] = t
    <2>1. Root \in Node /\ Root # Done
        BY NodeFacts, OneRoot
    <2>2. arrived[Done] = {Root} \cup {Done}
        BY <1>1, <2>1 DEF Counted, Finishing
    <2>3. IsFiniteSet({Root}) /\ Cardinality({Root}) = 1
        BY FS_Singleton
    <2>4. Cardinality({Root} \cup {Done}) = Cardinality({Root}) + 1
        BY <2>1, <2>3, FS_AddElement
    <2>5. QED
        BY <1>2, <2>2, <2>3, <2>4 DEF Complete, Size
<1>3. CASE parent[t] # t
    <2> DEFINE b == parent[t]
    <2>1. b \in Node /\ b # Done
        BY UpIsNode, NodeFacts
    <2>2. arrived[b] = Children(b) \cup {b}
        BY <1>1, <2>1, ChildFacts DEF Counted, Notified
    <2>3. Cardinality(Children(b) \cup {b}) = Cardinality(Children(b)) + 1
        BY <2>1, ChildFacts, FS_AddElement
    <2>4. QED
        BY <1>3, <2>1, <2>2, <2>3 DEF Complete, Size
<1>4. QED
    BY <1>2, <1>3

\* Main destroys the barriers and mutexes when no thread can call on one of
\* them any more, and none waits in one for another to arrive
\* (computesum.c:81-86), although it has waited only for the root's.
THEOREM DestroyedInTime == Spec => []NoCallAfterDestroy
<1>1. ASSUME IInv, destroyed > 0, NEW t \in Node
      PROVE  \/ pc[t] \in {"exit", "returning", "ended"}
             \/ pc[t] = "notified" /\ Complete(IF parent[t] = t THEN Done ELSE parent[t])
    <2>1. BarriersInv /\ Finishing /\ Notified(Root)
        BY <1>1 DEF IInv, BarriersInv
    <2>2. Notified(t)
        BY <2>1, AllNotified
    <2>3. QED
        BY <2>1, <2>2, AllArrived DEF Notified
<1>2. IInv => NoCallAfterDestroy
    BY <1>1 DEF NoCallAfterDestroy
<1>3. QED
    BY <1>2, Invariance, PTL

\* Main gives no stack back and does not end the program before the thread has
\* posted (foothread.c:148-150, computesum.c:88), although a thread runs before
\* its slot is filled: it cannot read the table until main has filled it.
THEOREM AllCollected == Spec => []NobodyLeftBehind
<1>1. IInv => NobodyLeftBehind
    BY DEF IInv, ThreadsInv, NobodyLeftBehind, Returned
<1>2. QED
    BY <1>1, Invariance, PTL
=============================================================================
