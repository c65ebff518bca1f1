----------------------------- MODULE FooThread -----------------------------
(***************************************************************************)
(* The thread table of the foothread library (Assignment 7,                *)
(* foothread.c:10-170): foothread_create, and foothread_exit as a created  *)
(* thread and as the main thread call it.  The actions are those of the    *)
(* table; the program that uses the library adds where each thread is.     *)
(* The limit of FOOTHREAD_THREADS_MAX slots and the calls with a bad       *)
(* argument, which end the program, are not reached here.                  *)
(***************************************************************************)
EXTENDS Naturals, Sequences

CONSTANTS
    Thread,
    Joinable     \* those created with FOOTHREAD_JOINABLE

\* Operators whose name ends in _Mutant are no part of the model: each is the
\* operator it is named after with a plausible bug, to show that a property
\* can fail.

VARIABLES
    table,       \* threads[0..count-1], in the order of creation
    live,        \* the threads whose slot is live
    posted,      \* those whose slot's semaphore is up
    stack,       \* those whose stack is allocated
    manager      \* who is inside manager_mutex: "main" or "free"

ThreadTypeOK ==
    /\ table \in Seq(Thread)
    /\ live \subseteq Thread
    /\ posted \subseteq Thread
    /\ stack \subseteq Thread
    /\ manager \in {"free", "main"}

ThreadInit ==
    /\ table = <<>>
    /\ live = {}
    /\ posted = {}
    /\ stack = {}
    /\ manager = "free"

\* foothread_create up to clone: from here on the thread runs, and its slot is
\* still to be filled.
Clone(t) ==
    /\ manager = "free"
    /\ manager' = "main"
    /\ stack' = stack \cup {t}
    /\ UNCHANGED <<table, live, posted>>

Register(t) ==
    /\ manager = "main"
    /\ manager' = "free"
    /\ table' = Append(table, t)
    /\ live' = live \cup {t}
    /\ UNCHANGED <<posted, stack>>

\* A created thread reads the count under the manager's mutex and looks for
\* its slot; without one it posts nothing.
Post_Mutant(t) ==
    /\ posted' = posted \cup ({t} \cap live)
    /\ UNCHANGED <<table, live, stack, manager>>

Post(t) ==
    /\ manager = "free"
    /\ posted' = posted \cup ({t} \cap live)
    /\ UNCHANGED <<table, live, stack, manager>>

\* The slots that main still has to wait for, from the slot i on.
ToCollect(i) == {k \in i .. Len(table) : table[k] \in live \cap Joinable}

\* Main waits for the first of them and gives the thread's stack back.
Collect_Mutant(k) ==
    /\ manager = "free"
    /\ posted' = posted \ {table[k]}
    /\ stack' = stack \ {table[k]}
    /\ live' = live \ {table[k]}
    /\ UNCHANGED <<table, manager>>

Collect(k) ==
    /\ table[k] \in posted
    /\ manager = "free"
    /\ posted' = posted \ {table[k]}
    /\ stack' = stack \ {table[k]}
    /\ live' = live \ {table[k]}
    /\ UNCHANGED <<table, manager>>

=============================================================================
