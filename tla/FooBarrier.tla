----------------------------- MODULE FooBarrier -----------------------------
(***************************************************************************)
(* The barrier of the foothread library (Assignment 7, foothread.c:273-    *)
(* 335), used by n threads any number of times: a count kept under a       *)
(* mutex, and two turnstiles, sem1 on the way in and sem2 on the way out.  *)
(* An action is one semaphore operation with the code up to the next one.  *)
(***************************************************************************)
EXTENDS Integers, FiniteSets

CONSTANT Thread       \* the threads that use the barrier, n of them

ASSUME ThreadAssumption == IsFiniteSet(Thread) /\ Thread # {}

n == Cardinality(Thread)

VARIABLES
    count, mutex, sem1, sem2,     \* foothread_barrier_t
    pc                            \* the operation each thread is about to do

vars == <<count, mutex, sem1, sem2, pc>>

\* Operators whose name ends in _Mutant are no part of the model: each is the
\* operator it is named after with a plausible bug, to show that a property
\* can fail.

Init ==
    /\ count = 0
    /\ mutex = 1
    /\ sem1 = 0
    /\ sem2 = 1
    /\ pc = [t \in Thread |-> "out"]

Goto(t, here, next) == pc[t] = here /\ pc' = [pc EXCEPT ![t] = next]

\* sem_wait, where sem' is the variable of the semaphore.
Wait(sem, next) == sem > 0 /\ next = sem - 1

-----------------------------------------------------------------------------
(* Arrival.                                                                *)

Call(t) ==
    /\ Goto(t, "out", "arrive")
    /\ UNCHANGED <<count, mutex, sem1, sem2>>

\* The last thread to arrive keeps the mutex while it turns the turnstiles.
Arrive(t) ==
    /\ Goto(t, "arrive", IF count + 1 = n THEN "close_second" ELSE "arrived")
    /\ Wait(mutex, mutex')
    /\ count' = count + 1
    /\ UNCHANGED <<sem1, sem2>>

CloseSecond(t) ==
    /\ Goto(t, "close_second", "open_first")
    /\ Wait(sem2, sem2')
    /\ UNCHANGED <<count, mutex, sem1>>

OpenFirst(t) ==
    /\ Goto(t, "open_first", "arrived")
    /\ sem1' = sem1 + 1
    /\ UNCHANGED <<count, mutex, sem2>>

Arrived(t) ==
    /\ Goto(t, "arrived", "wait_first")
    /\ mutex' = mutex + 1
    /\ UNCHANGED <<count, sem1, sem2>>

WaitFirst(t) ==
    /\ Goto(t, "wait_first", "pass_first")
    /\ Wait(sem1, sem1')
    /\ UNCHANGED <<count, mutex, sem2>>

\* The turnstile is not left open for the next thread.
PassFirst_Mutant(t) ==
    /\ Goto(t, "pass_first", "depart")
    /\ UNCHANGED <<count, mutex, sem1, sem2>>

PassFirst(t) ==
    /\ Goto(t, "pass_first", "depart")
    /\ sem1' = sem1 + 1
    /\ UNCHANGED <<count, mutex, sem2>>

-----------------------------------------------------------------------------
(* Departure.                                                              *)

Depart(t) ==
    /\ Goto(t, "depart", IF count - 1 = 0 THEN "close_first" ELSE "departed")
    /\ Wait(mutex, mutex')
    /\ count' = count - 1
    /\ UNCHANGED <<sem1, sem2>>

\* The first turnstile stays open.
CloseFirst_Mutant(t) ==
    /\ Goto(t, "close_first", "open_second")
    /\ UNCHANGED <<count, mutex, sem1, sem2>>

CloseFirst(t) ==
    /\ Goto(t, "close_first", "open_second")
    /\ Wait(sem1, sem1')
    /\ UNCHANGED <<count, mutex, sem2>>

OpenSecond(t) ==
    /\ Goto(t, "open_second", "departed")
    /\ sem2' = sem2 + 1
    /\ UNCHANGED <<count, mutex, sem1>>

Departed(t) ==
    /\ Goto(t, "departed", "wait_second")
    /\ mutex' = mutex + 1
    /\ UNCHANGED <<count, sem1, sem2>>

\* One turnstile only: nobody waits on the way out.
WaitSecond_Mutant(t) ==
    /\ Goto(t, "wait_second", "out")
    /\ UNCHANGED <<count, mutex, sem1, sem2>>

WaitSecond(t) ==
    /\ Goto(t, "wait_second", "pass_second")
    /\ Wait(sem2, sem2')
    /\ UNCHANGED <<count, mutex, sem1>>

PassSecond(t) ==
    /\ Goto(t, "pass_second", "out")
    /\ sem2' = sem2 + 1
    /\ UNCHANGED <<count, mutex, sem1>>

-----------------------------------------------------------------------------
\* The steps of foothread_barrier_wait.
LibraryStep(t) ==
    \/ Arrive(t)
    \/ CloseSecond(t)
    \/ OpenFirst(t)
    \/ Arrived(t)
    \/ WaitFirst(t)
    \/ PassFirst(t)
    \/ Depart(t)
    \/ CloseFirst(t)
    \/ OpenSecond(t)
    \/ Departed(t)
    \/ WaitSecond(t)
    \/ PassSecond(t)

Next == \E t \in Thread : Call(t) \/ LibraryStep(t)

Safety == Init /\ [][Next]_vars

\* Threads run; none has to come to the barrier.
Spec == Safety /\ \A t \in Thread : WF_vars(LibraryStep(t))

-----------------------------------------------------------------------------
(* Properties.                                                             *)

InMutex == {"close_second", "open_first", "arrived", "close_first",
            "open_second", "departed"}

Labels == InMutex \cup {"out", "arrive", "wait_first", "pass_first", "depart",
                        "wait_second", "pass_second"}

(* Types; all three semaphores stay binary.                                *)
TypeOK ==
    /\ count \in 0 .. n
    /\ mutex \in {0, 1}
    /\ sem1 \in {0, 1}
    /\ sem2 \in {0, 1}
    /\ pc \in [Thread -> Labels]

(* The two turnstiles share one token: it is in one of them, or one thread *)
(* carries it, through a turnstile or from one to the other.  So the       *)
(* turnstiles are never open together (foothread.c:309-332).               *)
Carriers == {t \in Thread :
               pc[t] \in {"open_first", "pass_first", "open_second", "pass_second"}}

OneToken ==
    /\ sem1 + sem2 <= 1
    /\ sem1 + sem2 = 1 <=> Carriers = {}
    /\ \A t, u \in Carriers : t = u

(* The last thread takes sem2, or sem1, while it holds the mutex           *)
(* (foothread.c:311, 325).  Nobody who needs that mutex is then to give    *)
(* the semaphore back: it never waits there.                               *)
LastNeverWaits ==
    \A t \in Thread :
        /\ pc[t] = "close_second" => sem2 = 1 /\ count = n
        /\ pc[t] = "close_first" => sem1 = 1 /\ count = 0

(* The semaphores of the turnstiles are binary, share one token, and are   *)
(* up when the last thread comes for them.                                 *)
TurnstilesSafe == TypeOK /\ OneToken /\ LastNeverWaits

(* Once all have arrived each of them leaves.                              *)
AllLeave == \A t \in Thread : (count = n) ~> (pc[t] = "out")

\* The refinement mapping: the step that opens the first turnstile is the one
\* that releases all the threads at once.
FirstOpen == sem1 = 1 \/ \E t \in Thread : pc[t] = "pass_first"

Waiting ==
    {t \in Thread : \/ pc[t] \in {"close_second", "open_first"}
                    \/ pc[t] \in {"arrived", "wait_first"} /\ ~FirstOpen}

Released ==
    {t \in Thread : \/ pc[t] \in {"pass_first", "depart", "close_first", "open_second",
                                  "departed", "wait_second", "pass_second"}
                    \/ pc[t] \in {"arrived", "wait_first"} /\ FirstOpen}

Rounds == INSTANCE BarrierRounds WITH waiting <- Waiting, released <- Released

(* Two turnstiles and a count make a reusable barrier: nobody leaves a     *)
(* round before all have come to it, and nobody laps the others            *)
(* (foothread.c:293-335).                                                  *)
ImplementsRounds == Rounds!Spec
=============================================================================
