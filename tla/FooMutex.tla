------------------------------ MODULE FooMutex ------------------------------
(***************************************************************************)
(* The mutex of the foothread library (Assignment 7, foothread.c:173-249): *)
(* a semaphore with an is_locked flag and the owner's tid, written and     *)
(* read one at a time and outside any lock of their own.                   *)
(*                                                                         *)
(* A thread of Locker locks the mutex and unlocks it once.  A thread of    *)
(* Rogue (it may be one of Locker too) calls unlock when it does not hold  *)
(* the mutex: the library says it ends the program with an error then.     *)
(* owner_pid is the same for all threads of the program and is left out.   *)
(* The names say Mutex so that a module can extend both this one and       *)
(* FooBarrier.                                                             *)
(***************************************************************************)
EXTENDS Integers

CONSTANTS Locker, Rogue, NoThread

Caller == Locker \cup Rogue

ASSUME CallerAssumption == NoThread \notin Caller

\* Operators whose name ends in _Mutant are no part of the model: each is the
\* operator it is named after with a plausible bug, to show that a property
\* can fail.

VARIABLES
    is_locked, owner_tid, sem,     \* foothread_mutex_t
    at,                            \* where each thread is
    held,                          \* threads past sem_wait and before sem_post
    culprit                        \* the thread whose error ended the program

mutexVars == <<is_locked, owner_tid, sem, at, held, culprit>>

\* foothread_mutex_init
MutexInit ==
    /\ is_locked = 0
    /\ owner_tid = NoThread
    /\ sem = 1
    /\ at = [t \in Caller |-> "out"]
    /\ held = {}
    /\ culprit = NoThread

At(t, here, next) ==
    /\ culprit = NoThread
    /\ at[t] = here
    /\ at' = [at EXCEPT ![t] = next]

-----------------------------------------------------------------------------
(* foothread_mutex_lock                                                    *)

CallLock(t) ==
    /\ t \in Locker
    /\ At(t, "out", "sem_wait")
    /\ UNCHANGED <<is_locked, owner_tid, sem, held, culprit>>

SemWait(t) ==
    /\ At(t, "sem_wait", "set_locked")
    /\ sem > 0
    /\ sem' = sem - 1
    /\ held' = held \cup {t}
    /\ UNCHANGED <<is_locked, owner_tid, culprit>>

SetLocked(t) ==
    /\ At(t, "set_locked", "set_owner")
    /\ is_locked' = 1
    /\ UNCHANGED <<owner_tid, sem, held, culprit>>

\* The mutant forgets to record the owner.
SetOwner_Mutant(t) ==
    /\ At(t, "set_owner", "in")
    /\ UNCHANGED <<is_locked, owner_tid, sem, held, culprit>>

SetOwner(t) ==
    /\ At(t, "set_owner", "in")
    /\ owner_tid' = t
    /\ UNCHANGED <<is_locked, sem, held, culprit>>

-----------------------------------------------------------------------------
(* foothread_mutex_unlock                                                  *)

CallUnlock(t) ==
    /\ \/ At(t, "in", "check_locked")
       \/ t \in Rogue /\ At(t, "out", "check_locked")
    /\ UNCHANGED <<is_locked, owner_tid, sem, held, culprit>>

\* A check that fails ends the program.
Check(t, here, next, passes) ==
    /\ culprit = NoThread
    /\ at[t] = here
    /\ IF passes
         THEN at' = [at EXCEPT ![t] = next] /\ UNCHANGED culprit
         ELSE culprit' = t /\ UNCHANGED at
    /\ UNCHANGED <<is_locked, owner_tid, sem, held>>

CheckLocked(t) == Check(t, "check_locked", "check_owner", is_locked = 1)

\* The mutant does not compare the caller with the owner.
CheckOwner_Mutant(t) == Check(t, "check_owner", "clear", owner_tid # NoThread)

CheckOwner(t) == Check(t, "check_owner", "clear", owner_tid = t)

Clear(t) ==
    /\ At(t, "clear", "sem_post")
    /\ is_locked' = 0
    /\ UNCHANGED <<owner_tid, sem, held, culprit>>

\* The mutant leaves the semaphore alone when the flag is clear.
SemPost_Mutant(t) ==
    /\ At(t, "sem_post", "out")
    /\ sem' = sem + is_locked
    /\ held' = held \ {t}
    /\ UNCHANGED <<is_locked, owner_tid, culprit>>

SemPost(t) ==
    /\ At(t, "sem_post", "out")
    /\ sem' = sem + 1
    /\ held' = held \ {t}
    /\ UNCHANGED <<is_locked, owner_tid, culprit>>

-----------------------------------------------------------------------------
\* Library steps, which a thread takes once it has called lock or unlock, and
\* the steps of its own program that call them.
MutexStep(t) ==
    \/ SemWait(t)
    \/ SetLocked(t)
    \/ SetOwner(t)
    \/ CheckLocked(t)
    \/ CheckOwner(t)
    \/ Clear(t)
    \/ SemPost(t)

CallerNext(t) == CallLock(t) \/ CallUnlock(t) \/ MutexStep(t)

MutexNext == \E t \in Caller : CallerNext(t)

MutexSafety == MutexInit /\ [][MutexNext]_mutexVars

\* A thread that has the mutex goes on to unlock it; a thread need not lock.
\* sem_wait may be overtaken for ever by other threads: weak fairness only.
MutexSpec ==
    /\ MutexSafety
    /\ \A t \in Caller : WF_mutexVars(MutexStep(t))
    /\ \A t \in Caller : WF_mutexVars(at[t] = "in" /\ CallUnlock(t))

-----------------------------------------------------------------------------
(* Properties.                                                             *)

MutexTypeOK ==
    /\ is_locked \in {0, 1}
    /\ owner_tid \in Caller \cup {NoThread}
    /\ sem \in {0, 1}
    /\ at \in [Caller -> {"out", "sem_wait", "set_locked", "set_owner", "in",
                          "check_locked", "check_owner", "clear", "sem_post"}]
    /\ held \subseteq Caller
    /\ culprit \in Caller \cup {NoThread}

(* No two threads are between the return of lock and the call of unlock.   *)
MutualExclusion ==
    \A t, u \in Caller : at[t] = "in" /\ at[u] = "in" => t = u

(* The checks of is_locked and the owner, read outside the semaphore while *)
(* other threads write them (foothread.c:229-242), never accuse a thread   *)
(* that unlocks only what it has locked.                                   *)
NoFalseError == culprit \in Rogue \cup {NoThread}

(* One holder at a time, and no error but where one is due.                *)
LockExact == MutexTypeOK /\ MutualExclusion /\ NoFalseError

(* While threads want the mutex some thread gets it, whatever the threads  *)
(* that never lock it try.                                                 *)
Progress ==
    (\E t \in Caller : at[t] = "sem_wait")
        ~> (culprit # NoThread \/ \E t \in Caller : at[t] = "in")

(* "Check if the current thread is the owner of the mutex ... Error:       *)
(* Attempt to unlock a mutex by another thread" (foothread.c:236-238), and *)
(* "Only the thread that locks a mutex can unlock it" (LA7.pdf, Mutexes):  *)
(* a thread that passes the checks holds the mutex.  It holds when no      *)
(* Rogue thread ever locks, and fails when one does: is_locked is set      *)
(* before the owner of the previous round is overwritten.                  *)
OnlyHolderUnlocks ==
    \A t \in Caller : at[t] \in {"clear", "sem_post"} => t \in held
=============================================================================
