-------------------------- MODULE JobManagerProofs --------------------------
(***************************************************************************)
(* For a table of any size: the job manager's table is true, and the keys  *)
(* hit no job but the one the manager waits for.                           *)
(***************************************************************************)
EXTENDS JobManager, TLAPS

\* A stale running_job_pid names a killed job; while the manager serves a job
\* it names that one.
RunningKnown ==
    /\ mgr \in {"prompt", "exited", "forked"} =>
           running = None \/ PT[running] = "KILLED"
    /\ mgr \in {"grouping", "waiting", "reaped", "resuming"} => running = cur

\* The only child in the manager's group is the one it has just made.
GroupKnown ==
    /\ inGroup \subseteq {cur}
    /\ mgr \notin {"forked", "grouping"} => inGroup = {}

\* The entry of the job the manager serves is still open, and waitpid's result
\* stays true until it is recorded.
CurKnown ==
    /\ mgr \in {"forked", "grouping"} => PT[cur] = "NONE"
    /\ mgr = "resuming" => PT[cur] = "SUSPENDED" /\ proc[cur] = "stopped"
    /\ mgr = "reaped" =>
          \/ got = "FINISHED" /\ proc[cur] = "exited"
          \/ got = "TERMINATED" /\ proc[cur] = "signaled"
          \/ got = "SUSPENDED" /\ proc[cur] = "stopped"

TableInv ==
    /\ TypeOK
    /\ \A j \in Job : j # cur \/ mgr \in {"prompt", "exited"} => Truthful(j)
    /\ mgr = "exited" => Suspended = {}

IInv == TableInv /\ RunningKnown /\ GroupKnown /\ CurKnown

-----------------------------------------------------------------------------
LEMMA NoneApart == None \notin Job /\ 1 \in Job
BY JobsAssumption DEF None, Job

LEMMA InitInv == Init => IInv
BY NoneApart DEF Init, IInv, TableInv, TypeOK, RunningKnown, GroupKnown, CurKnown,
    Truthful, Suspended

\* A key changes no job but the one served (mgr.c:18-30).
LEMMA PressOthers ==
    ASSUME IInv, NEW sig \in Signal, Press(sig),
           NEW j \in Job, PT[j] # "NONE", j # cur \/ mgr = "prompt"
    PROVE  proc'[j] = proc[j] /\ (j \in pending' => j \in pending)
<1>1. j \notin inGroup
    BY DEF IInv, GroupKnown, CurKnown
<1>2. CASE j # running
    BY <1>1, <1>2 DEF Press, IInv, TableInv, TypeOK
<1>3. CASE j = running
    <2>1. PT[j] = "KILLED" /\ proc[j] = "signaled"
        BY <1>3, NoneApart DEF IInv, TableInv, TypeOK, RunningKnown, Truthful, Press
    <2>2. QED
        BY <2>1 DEF Press, Hit, IInv, TableInv, TypeOK
<1>4. QED
    BY <1>2, <1>3

LEMMA PressInv == ASSUME IInv, NEW sig \in Signal, Press(sig) PROVE IInv'
<1>1. \A j \in Job : proc'[j] = proc[j] \/ proc'[j] = Hit(proc[j], sig)
    BY DEF Press, IInv, TableInv, TypeOK
<1>2. \A j \in Job : proc[j] \in {"unborn", "exited", "signaled", "stopped"} =>
          proc'[j] = proc[j]
    BY <1>1 DEF Hit
<1>3. TypeOK'
    BY <1>1 DEF Press, Hit, IInv, TableInv, TypeOK
<1>4. \A j \in Job : Truthful(j) => Truthful(j)'
    BY <1>2 DEF Truthful, Press, IInv, TableInv, TypeOK
<1>5. QED
    BY <1>2, <1>3, <1>4 DEF IInv, TableInv, RunningKnown, GroupKnown, CurKnown, Press,
        Suspended, TypeOK

LEMMA ChildInv == ASSUME IInv, NEW j \in Job, ChildStep(j) PROVE IInv'
<1> USE DEF ChildStep, ChildNotes, ChildGroups, ChildExecs, JobEnds, ChildGoto
<1>1. j = cur /\ mgr \notin {"prompt", "exited", "reaped", "resuming"}
    BY DEF IInv, TableInv, TypeOK, CurKnown, Truthful
<1>2. TypeOK' /\ \A i \in Job : i # j => proc'[i] = proc[i]
    BY DEF IInv, TableInv, TypeOK
<1>3. \A i \in Job : i # cur => Truthful(i)'
    BY <1>1, <1>2 DEF IInv, TableInv, TypeOK, Truthful
<1>4. QED
    BY <1>1, <1>2, <1>3 DEF IInv, TableInv, RunningKnown, GroupKnown, CurKnown, Suspended

LEMMA ForkInv == ASSUME IInv, Fork PROVE IInv'
<1>1. PICK j \in Job :
          /\ PT[j] = "NONE"
          /\ cur' = j
          /\ proc' = [proc EXCEPT ![j] = "born"]
          /\ inGroup' = inGroup \cup {j}
    BY DEF Fork
<1>2. TypeOK'
    BY <1>1 DEF Fork, Goto, IInv, TableInv, TypeOK
<1>3. \A i \in Job : i # j => Truthful(i)'
    BY <1>1 DEF Fork, Goto, IInv, TableInv, TypeOK, Truthful
<1>4. QED
    BY <1>1, <1>2, <1>3 DEF Fork, Goto, IInv, TableInv, TypeOK, RunningKnown, GroupKnown, CurKnown

LEMMA ServiceInv == ASSUME IInv, Service PROVE IInv'
<1> USE DEF Goto
<1>1. CASE NoteChild
    BY <1>1 DEF NoteChild, IInv, TableInv, TypeOK, RunningKnown, GroupKnown, CurKnown, Truthful
<1>2. CASE GroupChild
    BY <1>2 DEF GroupChild, IInv, TableInv, TypeOK, RunningKnown, GroupKnown, CurKnown, Truthful
<1>3. CASE Reap
    BY <1>3 DEF Reap, IInv, TableInv, TypeOK, RunningKnown, GroupKnown, CurKnown, Truthful
<1>4. CASE Record
    <2>1. TypeOK'
        BY <1>4 DEF Record, IInv, TableInv, TypeOK
    <2>2. \A i \in Job : Truthful(i)'
        BY <1>4 DEF Record, IInv, TableInv, TypeOK, CurKnown, Truthful
    <2>3. QED
        BY <1>4, <2>1, <2>2 DEF Record, IInv, TableInv, RunningKnown, GroupKnown, CurKnown
<1>5. CASE Resume
    <2>1. TypeOK'
        BY <1>5 DEF Resume, IInv, TableInv, TypeOK
    <2>2. \A i \in Job : i # cur => Truthful(i)'
        BY <1>5 DEF Resume, IInv, TableInv, TypeOK, Truthful
    <2>3. QED
        BY <1>5, <2>1, <2>2 DEF Resume, IInv, TableInv, RunningKnown, GroupKnown, CurKnown
<1>6. QED
    BY <1>1, <1>2, <1>3, <1>4, <1>5 DEF Service

LEMMA ContinueInv == ASSUME IInv, Continue PROVE IInv'
<1>1. mgr = "prompt" /\ mgr' = "resuming" /\ cur' \in Suspended /\ running' = cur'
    BY DEF Continue, Goto
<1>2. UNCHANGED <<got, PT, proc, inGroup, pending>>
    BY DEF Continue
<1>3. cur' \in Job /\ PT[cur'] = "SUSPENDED" /\ proc[cur'] = "stopped"
    BY <1>1 DEF Suspended, IInv, TableInv, Truthful
<1>4. TypeOK' /\ \A j \in Job : Truthful(j)'
    BY <1>1, <1>2, <1>3 DEF IInv, TableInv, TypeOK, Truthful
<1>5. QED
    BY <1>1, <1>2, <1>3, <1>4 DEF IInv, TableInv, RunningKnown, GroupKnown, CurKnown

LEMMA KillInv == ASSUME IInv, Kill PROVE IInv'
<1>1. PICK j \in Suspended :
          /\ running' = j
          /\ proc' = [proc EXCEPT ![j] = "signaled"]
          /\ PT' = [PT EXCEPT ![j] = "KILLED"]
    BY DEF Kill
<1>2. TypeOK'
    BY <1>1 DEF Kill, Goto, Suspended, IInv, TableInv, TypeOK
<1>3. \A i \in Job : Truthful(i)'
    BY <1>1 DEF Kill, Goto, Suspended, IInv, TableInv, TypeOK, Truthful
<1>4. QED
    BY <1>1, <1>2, <1>3 DEF Kill, Goto, Suspended, IInv, TableInv, TypeOK, RunningKnown,
        GroupKnown, CurKnown

LEMMA QuitInv == ASSUME IInv, Quit PROVE IInv'
<1>1. TypeOK'
    BY DEF Quit, Goto, IInv, TableInv, TypeOK
<1>2. \A i \in Job : Truthful(i)'
    BY DEF Quit, Goto, Suspended, IInv, TableInv, TypeOK, Truthful
<1>3. Suspended' = {}
    BY DEF Quit, Goto, Suspended, IInv, TableInv, TypeOK
<1>4. RunningKnown'
    BY NoneApart DEF Quit, Goto, Suspended, IInv, TableInv, TypeOK, RunningKnown
<1>5. QED
    BY <1>1, <1>2, <1>3, <1>4 DEF Quit, Goto, IInv, TableInv, GroupKnown, CurKnown

LEMMA StepInv == IInv /\ [Next]_vars => IInv'
<1> SUFFICES ASSUME IInv, [Next]_vars PROVE IInv'
    OBVIOUS
<1>1. CASE UNCHANGED vars
    BY <1>1 DEF vars, IInv, TableInv, TypeOK, RunningKnown, GroupKnown, CurKnown,
        Truthful, Suspended
<1>2. CASE Next
    BY <1>2, PressInv, ChildInv, ForkInv, ServiceInv, ContinueInv, KillInv, QuitInv
    DEF Next, Command
<1>3. QED
    BY <1>1, <1>2

\* Table, keys and the child being served agree in every reachable state
\* (mgr.c:63-235).
THEOREM Invariance == Spec => []IInv
BY InitInv, StepInv, PTL DEF Spec

-----------------------------------------------------------------------------
(* At the prompt the table says of every job what has become of its        *)
(* process, whatever keys were pressed, and of all jobs but the one served *)
(* at any other time; nothing is suspended when the manager ends           *)
(* (mgr.c:63, 122-137, 181-193, 233-235).                                  *)
THEOREM TableTrue == Spec => []TableTruthful
<1>1. IInv => TableTruthful
    BY DEF IInv, TableInv, TableTruthful
<1>2. QED
    BY <1>1, Invariance, PTL

(* ^C and ^Z never touch a job of the table that the manager does not wait *)
(* for (mgr.c:18-30).                                                      *)
THEOREM OthersSafe == Spec => OthersUntouched
<1>1. ASSUME IInv, [Next]_vars, NEW j \in Job,
             j # cur \/ mgr = "prompt", PT[j] # "NONE", PT'[j] = PT[j]
      PROVE  proc'[j] = proc[j] /\ (j \in pending' => j \in pending)
    <2> USE <1>1
    <2>1. CASE UNCHANGED vars
        BY <2>1 DEF vars
    <2>2. CASE Command
        BY <2>2 DEF Command, Fork, Continue, Kill, Quit, Goto, Suspended, IInv, TableInv, TypeOK
    <2>3. CASE Service
        BY <2>3 DEF Service, NoteChild, GroupChild, Reap, Record, Resume, Goto, IInv,
            TableInv, TypeOK
    <2>4. CASE \E i \in Job : ChildStep(i)
        BY <2>4 DEF ChildStep, ChildNotes, ChildGroups, ChildExecs, JobEnds, ChildGoto,
            IInv, TableInv, TypeOK, Truthful
    <2>5. CASE \E sig \in Signal : Press(sig)
        BY <2>5, PressOthers
    <2>6. QED
        BY <2>1, <2>2, <2>3, <2>4, <2>5 DEF Next
<1>2. IInv /\ [Next]_vars =>
          [\A j \in Job :
              (j # cur \/ mgr = "prompt") /\ PT[j] # "NONE" /\ PT'[j] = PT[j]
                  => proc'[j] = proc[j] /\ (j \in pending' => j \in pending)]_vars
    BY <1>1
<1>3. QED
    BY <1>2, Invariance, PTL DEF Spec, OthersUntouched
=============================================================================
