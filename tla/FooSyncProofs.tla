---------------------------- MODULE FooSyncProofs ----------------------------
(***************************************************************************)
(* The two synchronisation objects of the foothread library.  The mutex is *)
(* safe for any set of threads, with any number of threads calling unlock  *)
(* out of turn, as long as those never lock it themselves.  The barrier is *)
(* a reusable barrier, for any finite number of threads.  Each is by       *)
(* itself here, with its own specification and its own threads.            *)
(***************************************************************************)
EXTENDS FooMutex, FooBarrier, FiniteSetTheorems, TLAPS

-----------------------------------------------------------------------------
(* The mutex (foothread.c:173-249).                                        *)

\* The callers out of turn have never been owners.
Apart == Locker \cap Rogue = {}

-----------------------------------------------------------------------------
(* The inductive invariant.                                                *)

\* The semaphore is free exactly when nobody is past it, and one thread is.
SemaphoreExact ==
    /\ held = {} <=> sem = 1
    /\ \A t, u \in held : t = u

HeldByLockers ==
    /\ held \subseteq Locker
    /\ \A t \in Locker : t \in held <=> at[t] \notin {"out", "sem_wait"}

\* From the assignments of lock to the one of unlock.
FlagOfHolder ==
    \A t \in Locker :
        at[t] \in {"set_owner", "in", "check_locked", "check_owner", "clear"} => is_locked = 1

OwnerOfHolder ==
    \A t \in Locker :
        at[t] \in {"in", "check_locked", "check_owner", "clear"} => owner_tid = t

\* A thread that never locks gets no further than the comparison of owners.
RoguesStopped ==
    /\ owner_tid \notin Rogue
    /\ \A t \in Rogue : at[t] \in {"out", "check_locked", "check_owner"}

MutexInv ==
    /\ MutexTypeOK
    /\ SemaphoreExact
    /\ HeldByLockers
    /\ FlagOfHolder
    /\ OwnerOfHolder
    /\ RoguesStopped
    /\ NoFalseError

-----------------------------------------------------------------------------
LEMMA InitMutexInv == ASSUME Apart PROVE MutexInit => MutexInv
BY CallerAssumption
   DEF Apart, MutexInit, MutexInv, MutexTypeOK, SemaphoreExact, HeldByLockers, FlagOfHolder,
       OwnerOfHolder, RoguesStopped, NoFalseError, Caller

LEMMA StepMutexInv == ASSUME Apart PROVE MutexInv /\ [MutexNext]_mutexVars => MutexInv'
<1> SUFFICES ASSUME MutexInv, [MutexNext]_mutexVars PROVE MutexInv'
    OBVIOUS
<1> USE CallerAssumption
        DEF Apart, MutexInv, MutexTypeOK, SemaphoreExact, HeldByLockers, FlagOfHolder,
            OwnerOfHolder, RoguesStopped, NoFalseError, Caller
<1>1. CASE UNCHANGED mutexVars
    BY <1>1 DEF mutexVars
<1>2. ASSUME NEW t \in Caller, CallerNext(t) PROVE MutexInv'
    <2>1. CASE CallLock(t)
        BY <2>1 DEF CallLock, At
    <2>2. CASE CallUnlock(t)
        BY <2>2 DEF CallUnlock, At
    <2>3. CASE SemWait(t)
        <3>1. t \in Locker /\ held = {} /\ held' = {t} /\ sem' = 0
            BY <2>3 DEF SemWait, At
        <3>2. QED
            BY <2>3, <3>1 DEF SemWait, At
    <2>4. CASE SetLocked(t)
        BY <2>4 DEF SetLocked, At
    <2>5. CASE SetOwner(t)
        BY <2>5 DEF SetOwner, At
    <2>6. CASE CheckLocked(t)
        BY <2>6 DEF CheckLocked, Check
    <2>7. CASE CheckOwner(t)
        BY <2>7 DEF CheckOwner, Check
    <2>8. CASE Clear(t)
        BY <2>8 DEF Clear, At
    <2>9. CASE SemPost(t)
        <3>1. t \in Locker /\ held = {t} /\ held' = {} /\ sem' = 1
            BY <2>9 DEF SemPost, At
        <3>2. QED
            BY <2>9, <3>1 DEF SemPost, At
    <2>10. QED
        BY <1>2, <2>1, <2>2, <2>3, <2>4, <2>5, <2>6, <2>7, <2>8, <2>9
           DEF CallerNext, MutexStep
<1>3. QED
    BY <1>1, <1>2 DEF MutexNext

(* The invariant holds of every execution in which the callers out of turn *)
(* never lock (foothread.c:173-249).                                       *)
THEOREM MutexInvariance == ASSUME Apart PROVE MutexSafety => []MutexInv
<1>1. MutexInit => MutexInv
    BY InitMutexInv
<1>2. MutexInv /\ [MutexNext]_mutexVars => MutexInv'
    BY StepMutexInv
<1>3. QED
    BY <1>1, <1>2, PTL DEF MutexSafety

-----------------------------------------------------------------------------
(* One thread at a time is between lock and unlock, and the error checks   *)
(* of the library never stop one that does as it should                    *)
(* (foothread.c:203-209, 229-246).                                         *)
THEOREM LockExcludes ==
    ASSUME Apart
    PROVE  MutexSafety => []LockExact
<1>1. MutexInv => MutexTypeOK /\ NoFalseError
    BY DEF MutexInv
<1>2. MutexInv => MutualExclusion
    BY DEF MutexInv, MutualExclusion, SemaphoreExact, HeldByLockers, RoguesStopped, Caller
<1>3. MutexInv => LockExact
    BY <1>1, <1>2 DEF LockExact
<1>4. QED
    BY <1>3, MutexInvariance, PTL

(* The check of unlock stops every thread that does not hold the mutex     *)
(* before it clears the owner (foothread.c:229-246).                       *)
THEOREM UnlockChecked ==
    ASSUME Apart
    PROVE  MutexSafety => []OnlyHolderUnlocks
<1>1. MutexInv => OnlyHolderUnlocks
    BY DEF MutexInv, OnlyHolderUnlocks, HeldByLockers, RoguesStopped, Caller
<1>2. QED
    BY <1>1, MutexInvariance, PTL

-----------------------------------------------------------------------------
(* The barrier (foothread.c:273-335): its inductive invariant.             *)

Counted == {t \in Thread : pc[t] \in {"close_second", "open_first", "arrived",
                                      "wait_first", "pass_first", "depart"}}

CountExact == count = Cardinality(Counted)

\* The mutex is free exactly when nobody is past it, and one thread is.
MutexExact ==
    /\ mutex = 1 <=> \A t \in Thread : pc[t] \notin InMutex
    /\ \A t, u \in Thread : pc[t] \in InMutex /\ pc[u] \in InMutex => t = u

SecondOpen == sem2 = 1 \/ \E t \in Thread : pc[t] = "pass_second"

\* While the first turnstile is open every thread is between the two counts;
\* the one that finds the count at zero is about to close it.
WhileFirstOpen ==
    FirstOpen =>
        /\ \A t \in Thread : pc[t] \in {"arrived", "wait_first", "pass_first", "depart",
                                        "close_first", "departed", "wait_second"}
        /\ Counted = {} <=> \E t \in Thread : pc[t] = "close_first"

\* While the second turnstile is open nobody is past the first; the thread
\* that finds the count complete is about to close it.
WhileSecondOpen ==
    SecondOpen =>
        /\ \A t \in Thread : pc[t] \in {"wait_second", "pass_second", "out", "arrive",
                                        "close_second", "arrived", "wait_first", "departed"}
        /\ Counted = Thread <=> \E t \in Thread : pc[t] = "close_second"

\* While the last thread carries the token all the others wait.
WhileTurning ==
    \A t \in Thread :
        /\ pc[t] = "open_first"  => \A u \in Thread \ {t} : pc[u] = "wait_first"
        /\ pc[t] = "open_second" => \A u \in Thread \ {t} : pc[u] = "wait_second"

IInv ==
    /\ TypeOK
    /\ CountExact
    /\ MutexExact
    /\ OneToken
    /\ WhileFirstOpen
    /\ WhileSecondOpen
    /\ WhileTurning

-----------------------------------------------------------------------------
(* Cardinalities.                                                          *)

LEMMA NType == n \in Nat \ {0}
<1>1. n \in Nat
    BY ThreadAssumption, FS_CardinalityType DEF n
<1>2. n # 0
    BY ThreadAssumption, FS_EmptySet DEF n
<1>3. QED
    BY <1>1, <1>2

\* A count that is exact tells whether nobody or everybody is counted.
LEMMA CountTells ==
    ASSUME NEW S \in SUBSET Thread
    PROVE  /\ Cardinality(S) \in 0 .. n
           /\ Cardinality(S) = 0 <=> S = {}
           /\ Cardinality(S) = n <=> S = Thread
<1>1. IsFiniteSet(S) /\ Cardinality(S) <= n
    BY ThreadAssumption, FS_Subset DEF n
<1>2. Cardinality(S) \in Nat
    BY <1>1, FS_CardinalityType
<1>3. Cardinality(S) = 0 <=> S = {}
    BY <1>1, FS_EmptySet
<1>4. Cardinality(S) = n <=> S = Thread
    BY ThreadAssumption, FS_Subset DEF n
<1>5. QED
    BY <1>1, <1>2, <1>3, <1>4, NType

LEMMA CountedOne ==
    ASSUME NEW S \in SUBSET Thread, NEW t \in Thread
    PROVE  /\ t \notin S => Cardinality(S \cup {t}) = Cardinality(S) + 1
           /\ t \in S => Cardinality(S \ {t}) = Cardinality(S) - 1
<1>1. IsFiniteSet(S)
    BY ThreadAssumption, FS_Subset
<1>2. QED
    BY <1>1, FS_AddElement, FS_RemoveElement

-----------------------------------------------------------------------------
LEMMA InitInv == Init => IInv
<1> SUFFICES ASSUME Init PROVE IInv
    OBVIOUS
<1>1. Counted = {} /\ Carriers = {}
    BY DEF Init, Counted, Carriers
<1>2. Cardinality(Counted) = 0 /\ Thread # {}
    BY <1>1, FS_EmptySet, ThreadAssumption
<1>3. QED
    BY <1>1, <1>2, NType
       DEF Init, IInv, TypeOK, CountExact, MutexExact, OneToken, WhileFirstOpen,
           WhileSecondOpen, WhileTurning, FirstOpen, SecondOpen, InMutex, Labels, Carriers

\* What the step of t does to the set of counted threads, and what t learns
\* from the count.
LEMMA StepCounts ==
    ASSUME IInv, NEW t \in Thread, Call(t) \/ LibraryStep(t)
    PROVE  /\ Arrive(t) => /\ Counted' = Counted \cup {t}
                           /\ t \notin Counted
                           /\ count + 1 = n <=> Counted' = Thread
           /\ Depart(t) => /\ Counted' = Counted \ {t}
                           /\ t \in Counted
                           /\ count - 1 = 0 <=> Counted' = {}
           /\ ~Arrive(t) /\ ~Depart(t) => Counted' = Counted
           /\ CountExact'
           /\ count' \in 0 .. n
<1> USE DEF Goto, Wait
<1>1. pc \in [Thread -> Labels] /\ count = Cardinality(Counted) /\ Counted \in SUBSET Thread
    BY DEF IInv, TypeOK, CountExact, Counted
<1>2. Counted' \in SUBSET Thread
    BY DEF Counted
<1>3. CASE Arrive(t)
    <2>1. Counted' = Counted \cup {t} /\ t \notin Counted
        BY <1>1, <1>3 DEF Arrive, Counted, Labels
    <2>2. count' = Cardinality(Counted')
        BY <1>1, <1>3, <2>1, CountedOne DEF Arrive
    <2>3. ~Depart(t)
        BY <1>3 DEF Arrive, Depart
    <2>4. count' = count + 1
        BY <1>3 DEF Arrive
    <2>5. count' \in 0 .. n /\ (count' = n <=> Counted' = Thread)
        BY <1>2, <2>2, CountTells
    <2>6. CountExact'
        BY <2>2 DEF CountExact
    <2>7. QED
        BY <1>3, <2>1, <2>3, <2>4, <2>5, <2>6
<1>4. CASE Depart(t)
    <2>1. Counted' = Counted \ {t} /\ t \in Counted
        BY <1>1, <1>4 DEF Depart, Counted, Labels
    <2>2. count' = Cardinality(Counted')
        BY <1>1, <1>4, <2>1, CountedOne DEF Depart
    <2>3. ~Arrive(t)
        BY <1>4 DEF Arrive, Depart
    <2>4. count' = count - 1
        BY <1>4 DEF Depart
    <2>5. count' \in 0 .. n /\ (count' = 0 <=> Counted' = {})
        BY <1>2, <2>2, CountTells
    <2>6. CountExact'
        BY <2>2 DEF CountExact
    <2>7. QED
        BY <1>4, <2>1, <2>3, <2>4, <2>5, <2>6
<1>5. CASE ~Arrive(t) /\ ~Depart(t)
    <2>1. Counted' = Counted /\ count' = count
        BY <1>1, <1>5
           DEF LibraryStep, Call, CloseSecond, OpenFirst, Arrived, WaitFirst, PassFirst,
               CloseFirst, OpenSecond, Departed, WaitSecond, PassSecond, Counted, Labels
    <2>2. QED
        BY <1>1, <1>5, <2>1, CountTells DEF CountExact
<1>6. QED
    BY <1>3, <1>4, <1>5

LEMMA StepInv == IInv /\ [Next]_vars => IInv'
<1> SUFFICES ASSUME IInv, [Next]_vars PROVE IInv'
    OBVIOUS
<1>1. CASE UNCHANGED vars
    BY <1>1
       DEF vars, IInv, TypeOK, CountExact, MutexExact, OneToken, WhileFirstOpen,
           WhileSecondOpen, WhileTurning, FirstOpen, SecondOpen, Carriers, Counted
<1>2. ASSUME NEW t \in Thread, Call(t) \/ LibraryStep(t) PROVE IInv'
    <2> DEFINE Rest == TypeOK /\ MutexExact /\ OneToken /\ WhileFirstOpen
                       /\ WhileSecondOpen /\ WhileTurning
    <2>1. Rest /\ n \in Nat \ {0}
        BY NType DEF IInv
    <2>2. Arrive(t) => /\ Counted' = Counted \cup {t}
                       /\ count + 1 = n <=> Counted' = Thread
        BY <1>2, StepCounts
    <2>3. Depart(t) => /\ Counted' = Counted \ {t}
                       /\ count - 1 = 0 <=> Counted' = {}
        BY <1>2, StepCounts
    <2>4. ~Arrive(t) /\ ~Depart(t) => Counted' = Counted
        BY <1>2, StepCounts
    <2>5. CountExact' /\ count' \in 0 .. n
        BY <1>2, StepCounts
    <2> USE DEF Goto, Wait, TypeOK, MutexExact, OneToken, WhileFirstOpen, WhileSecondOpen,
                WhileTurning, FirstOpen, SecondOpen, Carriers, InMutex, Labels
    <2>6. CASE Call(t)
        BY <2>1, <2>4, <2>5, <2>6 DEF Call, Arrive, Depart, IInv
    <2>7. CASE Arrive(t)
        BY <2>1, <2>2, <2>5, <2>7 DEF Arrive, Counted, IInv
    <2>8. CASE CloseSecond(t)
        BY <2>1, <2>4, <2>5, <2>8 DEF CloseSecond, Arrive, Depart, Counted, IInv
    <2>9. CASE OpenFirst(t)
        BY <2>1, <2>4, <2>5, <2>9 DEF OpenFirst, Arrive, Depart, Counted, IInv
    <2>10. CASE Arrived(t)
        BY <2>1, <2>4, <2>5, <2>10 DEF Arrived, Arrive, Depart, IInv
    <2>11. CASE WaitFirst(t)
        BY <2>1, <2>4, <2>5, <2>11 DEF WaitFirst, Arrive, Depart, IInv
    <2>12. CASE PassFirst(t)
        BY <2>1, <2>4, <2>5, <2>12 DEF PassFirst, Arrive, Depart, IInv
    <2>13. CASE Depart(t)
        BY <2>1, <2>3, <2>5, <2>13 DEF Depart, Counted, IInv
    <2>14. CASE CloseFirst(t)
        BY <2>1, <2>4, <2>5, <2>14 DEF CloseFirst, Arrive, Depart, Counted, IInv
    <2>15. CASE OpenSecond(t)
        BY <2>1, <2>4, <2>5, <2>15 DEF OpenSecond, Arrive, Depart, Counted, IInv
    <2>16. CASE Departed(t)
        BY <2>1, <2>4, <2>5, <2>16 DEF Departed, Arrive, Depart, IInv
    <2>17. CASE WaitSecond(t)
        BY <2>1, <2>4, <2>5, <2>17 DEF WaitSecond, Arrive, Depart, IInv
    <2>18. CASE PassSecond(t)
        BY <2>1, <2>4, <2>5, <2>18 DEF PassSecond, Arrive, Depart, IInv
    <2>19. QED
        BY <1>2, <2>6, <2>7, <2>8, <2>9, <2>10, <2>11, <2>12, <2>13, <2>14, <2>15, <2>16,
           <2>17, <2>18 DEF LibraryStep
<1>3. QED
    BY <1>1, <1>2 DEF Next

(* The invariant holds of every execution of any finite number of threads. *)
THEOREM Invariance == Safety => []IInv
BY InitInv, StepInv, PTL DEF Safety

-----------------------------------------------------------------------------
LEMMA LastLemma == IInv => LastNeverWaits
<1> SUFFICES ASSUME IInv, NEW t \in Thread
             PROVE  /\ pc[t] = "close_second" => sem2 = 1 /\ count = n
                    /\ pc[t] = "close_first" => sem1 = 1 /\ count = 0
    BY DEF LastNeverWaits
<1> USE DEF IInv, TypeOK, OneToken, Carriers, WhileFirstOpen, WhileSecondOpen, WhileTurning,
            FirstOpen, SecondOpen
<1>1. /\ Counted \in SUBSET Thread
      /\ count = Cardinality(Counted)
    BY DEF CountExact, Counted
<1>2. count = 0 <=> Counted = {}
    BY <1>1, CountTells
<1>3. count = n <=> Counted = Thread
    BY <1>1, CountTells
<1>4. CASE pc[t] = "close_second"
    <2>1. SecondOpen /\ Counted = Thread
        BY <1>4
    <2>2. \A u \in Thread : pc[u] # "pass_second"
        BY <2>1 DEF Counted
    <2>3. QED
        BY <1>3, <1>4, <2>1, <2>2
<1>5. CASE pc[t] = "close_first"
    <2>1. FirstOpen /\ Counted = {}
        BY <1>5
    <2>2. \A u \in Thread : pc[u] # "pass_first"
        BY <2>1 DEF Counted
    <2>3. QED
        BY <1>2, <1>5, <2>1, <2>2
<1>6. QED
    BY <1>4, <1>5

(* The semaphores stay binary, the turnstiles are never open together and  *)
(* the last thread never waits with the mutex in its hands                 *)
(* (foothread.c:306-332).                                                  *)
THEOREM TurnstilesExact == Safety => []TurnstilesSafe
<1>1. IInv => TurnstilesSafe
    BY LastLemma DEF IInv, TurnstilesSafe
<1>2. QED
    BY <1>1, Invariance, PTL

-----------------------------------------------------------------------------
(* The refinement.                                                         *)

LEMMA RoundsInit == Init => Rounds!Init
BY DEF Init, Rounds!Init, Waiting, Released

LEMMA RoundsStep == IInv /\ [Next]_vars => [Rounds!Next]_Rounds!vars
<1> SUFFICES ASSUME IInv, [Next]_vars
             PROVE  Rounds!Next \/ (Waiting' = Waiting /\ Released' = Released)
    BY DEF Rounds!vars
<1>1. CASE UNCHANGED vars
    BY <1>1 DEF vars, Waiting, Released, FirstOpen
<1>2. ASSUME NEW t \in Thread, Call(t) \/ LibraryStep(t)
      PROVE  Rounds!Next \/ (Waiting' = Waiting /\ Released' = Released)
    <2> USE DEF Goto, Wait, IInv, TypeOK, OneToken, WhileFirstOpen, WhileSecondOpen,
                WhileTurning, SecondOpen, FirstOpen, Carriers, Waiting, Released
    <2>1. CASE Call(t)
        BY <2>1 DEF Call
    <2>2. CASE Arrive(t)
        <3>1. t \notin Waiting \cup Released
            BY <2>2 DEF Arrive
        <3>2. Waiting' = Waiting \cup {t} /\ Released' = Released
            BY <2>2 DEF Arrive
        <3>3. QED
            BY <3>1, <3>2 DEF Rounds!Next, Rounds!Arrive
    <2>3. CASE CloseSecond(t)
        BY <2>3 DEF CloseSecond
    <2>4. CASE OpenFirst(t)
        <3>1. Waiting = Thread
            BY <2>4 DEF OpenFirst
        <3>2. Waiting' = {} /\ Released' = Thread
            BY <2>4 DEF OpenFirst
        <3>3. QED
            BY <3>1, <3>2 DEF Rounds!Next, Rounds!Release
    <2>5. CASE Arrived(t)
        BY <2>5 DEF Arrived
    <2>6. CASE WaitFirst(t)
        BY <2>6 DEF WaitFirst
    <2>7. CASE PassFirst(t)
        BY <2>7 DEF PassFirst
    <2>8. CASE Depart(t)
        BY <2>8 DEF Depart
    <2>9. CASE CloseFirst(t)
        BY <2>9 DEF CloseFirst, Counted
    <2>10. CASE OpenSecond(t)
        BY <2>10 DEF OpenSecond
    <2>11. CASE Departed(t)
        BY <2>11 DEF Departed
    <2>12. CASE WaitSecond(t)
        BY <2>12 DEF WaitSecond
    <2>13. CASE PassSecond(t)
        <3>1. t \in Released
            BY <2>13 DEF PassSecond
        <3>2. Waiting' = Waiting /\ Released' = Released \ {t}
            BY <2>13 DEF PassSecond
        <3>3. QED
            BY <3>1, <3>2 DEF Rounds!Next, Rounds!Leave
    <2>14. QED
        BY <1>2, <2>1, <2>2, <2>3, <2>4, <2>5, <2>6, <2>7, <2>8, <2>9, <2>10, <2>11, <2>12,
           <2>13 DEF LibraryStep
<1>3. QED
    BY <1>1, <1>2 DEF Next

(* Two turnstiles and a count are a reusable barrier for any finite number *)
(* of threads and of rounds (foothread.c:293-335).                         *)
THEOREM Reusable == Safety => ImplementsRounds
<1>1. Safety => Rounds!Spec
    BY RoundsInit, RoundsStep, Invariance, PTL DEF Safety, Rounds!Spec
<1>2. QED
    BY <1>1 DEF ImplementsRounds
=============================================================================
