----------------------------- MODULE JobManager -----------------------------
(***************************************************************************)
(* The job manager (Assignment 2, mgr.c) with the jobs it starts and the   *)
(* user's ^C and ^Z, which may come at any time.  The terminal sends them  *)
(* to the manager's process group; the manager's handler passes them on to *)
(* running_job_pid.  A child runs that handler too until it has exec-ed.   *)
(* A job's number is its place in PT.  The commands h and p, and input     *)
(* that is not a command or a suspended job's number, change nothing.      *)
(***************************************************************************)
EXTENDS Naturals

CONSTANT MaxJobs      \* entries of PT besides the manager's own (10)

ASSUME JobsAssumption == MaxJobs \in Nat \ {0}

Job == 1 .. MaxJobs

None == 0             \* running_job_pid = -1

Signal == {"SIGINT", "SIGTSTP"}

\* Operators whose name ends in _Mutant are no part of the model: each is the
\* operator it is named after with a plausible bug, to show that a property
\* can fail.

VARIABLES
    mgr,         \* where the manager is
    running,     \* running_job_pid
    cur,         \* the job the last r or c was about
    got,         \* the status waitpid has returned
    PT,          \* the status in the table, "NONE" beyond job_id
    proc,        \* the state of each process
    inGroup,     \* the children still in the manager's process group
    pending      \* the stopped jobs with a SIGINT pending

vars == <<mgr, running, cur, got, PT, proc, inGroup, pending>>

(***************************************************************************)
(* A child is born with the manager's running_job_pid, has noted its own   *)
(* fork result 0 there, has its own process group, and is running job.c    *)
(* after the exec.                                                         *)
(***************************************************************************)
TypeOK ==
    /\ mgr \in {"prompt", "forked", "grouping", "waiting", "reaped", "resuming", "exited"}
    /\ running \in Job \cup {None}
    /\ cur \in Job
    /\ got \in {"FINISHED", "TERMINATED", "SUSPENDED"}
    /\ PT \in [Job -> {"NONE", "FINISHED", "TERMINATED", "SUSPENDED", "KILLED"}]
    /\ proc \in [Job -> {"unborn", "born", "noted", "grouped", "running",
                         "stopped", "exited", "signaled", "wedged"}]
    /\ inGroup \subseteq Job
    /\ pending \subseteq Job

Init ==
    /\ mgr = "prompt"
    /\ running = None
    /\ cur = 1
    /\ got = "FINISHED"
    /\ PT = [j \in Job |-> "NONE"]
    /\ proc = [j \in Job |-> "unborn"]
    /\ inGroup = {}
    /\ pending = {}

Goto(here, next) == mgr = here /\ mgr' = next

Suspended == {j \in Job : PT[j] = "SUSPENDED"}

-----------------------------------------------------------------------------
(* Signals.                                                                *)

\* Before the exec the handler that the child has inherited runs: with 0 in
\* running_job_pid it sends the signal to the child's own group, and so to
\* itself, again and again.  A stopped process keeps a SIGINT for later.
Hit(state, sig) ==
    CASE state \in {"noted", "grouped"} -> "wedged"
      [] state = "running" -> IF sig = "SIGINT" THEN "signaled" ELSE "stopped"
      [] OTHER -> state

\* The terminal reaches the manager and the children in its group; the
\* manager's handler does nothing, or sends the signal on.
Press(sig) ==
    LET target == inGroup \cup ({running} \ {None})
    IN  /\ mgr # "exited"
        /\ proc' = [j \in Job |-> IF j \in target THEN Hit(proc[j], sig) ELSE proc[j]]
        /\ pending' = pending \cup
               {j \in target : proc[j] = "stopped" /\ sig = "SIGINT"}
        /\ UNCHANGED <<mgr, running, cur, got, PT, inGroup>>

-----------------------------------------------------------------------------
(* The child and the job.                                                  *)

ChildGoto(j, here, next) ==
    /\ proc[j] = here
    /\ proc' = [proc EXCEPT ![j] = next]
    /\ UNCHANGED <<mgr, running, cur, got, PT, pending>>

ChildNotes(j) == ChildGoto(j, "born", "noted") /\ UNCHANGED inGroup

ChildGroups(j) == ChildGoto(j, "noted", "grouped") /\ inGroup' = inGroup \ {j}

ChildExecs(j) == ChildGoto(j, "grouped", "running") /\ UNCHANGED inGroup

JobEnds(j) == ChildGoto(j, "running", "exited") /\ UNCHANGED inGroup

ChildStep(j) == ChildNotes(j) \/ ChildGroups(j) \/ ChildExecs(j) \/ JobEnds(j)

-----------------------------------------------------------------------------
(* The manager.                                                            *)

\* r: the next entry of PT is the new job's.
Fork ==
    /\ Goto("prompt", "forked")
    /\ \E j \in Job :
          /\ PT[j] = "NONE"
          /\ \A i \in Job : i < j => PT[i] # "NONE"
          /\ cur' = j
          /\ proc' = [proc EXCEPT ![j] = "born"]
          /\ inGroup' = inGroup \cup {j}
    /\ UNCHANGED <<running, got, PT, pending>>

NoteChild ==
    /\ Goto("forked", "grouping")
    /\ running' = cur
    /\ UNCHANGED <<cur, got, PT, proc, inGroup, pending>>

GroupChild ==
    /\ Goto("grouping", "waiting")
    /\ inGroup' = inGroup \ {cur}
    /\ UNCHANGED <<running, cur, got, PT, proc, pending>>

\* waitpid with WUNTRACED.
Reap_Mutant ==
    /\ Goto("waiting", "reaped")
    /\ proc[cur] \in {"exited", "signaled"}
    /\ got' = IF proc[cur] = "exited" THEN "FINISHED" ELSE "TERMINATED"
    /\ UNCHANGED <<running, cur, PT, proc, inGroup, pending>>

Reap ==
    /\ Goto("waiting", "reaped")
    /\ proc[cur] \in {"exited", "signaled", "stopped"}
    /\ got' = CASE proc[cur] = "exited" -> "FINISHED"
                [] proc[cur] = "signaled" -> "TERMINATED"
                [] proc[cur] = "stopped" -> "SUSPENDED"
    /\ UNCHANGED <<running, cur, PT, proc, inGroup, pending>>

\* A job that was continued still counts as running.
Record_Mutant ==
    /\ Goto("reaped", "prompt")
    /\ running' = IF PT[cur] = "NONE" THEN None ELSE running
    /\ PT' = [PT EXCEPT ![cur] = got]
    /\ UNCHANGED <<cur, got, proc, inGroup, pending>>

Record ==
    /\ Goto("reaped", "prompt")
    /\ running' = None
    /\ PT' = [PT EXCEPT ![cur] = got]
    /\ UNCHANGED <<cur, got, proc, inGroup, pending>>

\* c, up to running_job_pid = PT[op_num].pid.
Continue ==
    /\ Goto("prompt", "resuming")
    /\ \E j \in Suspended : cur' = j /\ running' = j
    /\ UNCHANGED <<got, PT, proc, inGroup, pending>>

\* SIGCONT: a pending SIGINT ends the job at once.
Resume ==
    /\ Goto("resuming", "waiting")
    /\ proc' = [proc EXCEPT ![cur] = IF cur \in pending THEN "signaled" ELSE "running"]
    /\ pending' = pending \ {cur}
    /\ UNCHANGED <<running, cur, got, PT, inGroup>>

\* k: running_job_pid stays at the killed job.
Kill_Mutant ==
    /\ Goto("prompt", "prompt")
    /\ \E j \in Suspended :
          /\ running' = j
          /\ PT' = [PT EXCEPT ![j] = "KILLED"]
    /\ UNCHANGED <<cur, got, proc, inGroup, pending>>

Kill ==
    /\ Goto("prompt", "prompt")
    /\ \E j \in Suspended :
          /\ running' = j
          /\ proc' = [proc EXCEPT ![j] = "signaled"]
          /\ PT' = [PT EXCEPT ![j] = "KILLED"]
    /\ UNCHANGED <<cur, got, inGroup, pending>>

\* q, r with a full table, or a fork that fails.
Quit_Mutant ==
    /\ Goto("prompt", "exited")
    /\ proc' = [j \in Job |-> IF j \in Suspended \ {MaxJobs} THEN "signaled" ELSE proc[j]]
    /\ PT' = [j \in Job |-> IF j \in Suspended THEN "KILLED" ELSE PT[j]]
    /\ UNCHANGED <<running, cur, got, inGroup, pending>>

Quit ==
    /\ Goto("prompt", "exited")
    /\ proc' = [j \in Job |-> IF j \in Suspended THEN "signaled" ELSE proc[j]]
    /\ PT' = [j \in Job |-> IF j \in Suspended THEN "KILLED" ELSE PT[j]]
    /\ UNCHANGED <<running, cur, got, inGroup, pending>>

Command == Fork \/ Continue \/ Kill \/ Quit

Service == NoteChild \/ GroupChild \/ Reap \/ Record \/ Resume

Next ==
    \/ Command
    \/ Service
    \/ \E j \in Job : ChildStep(j)
    \/ \E sig \in Signal : Press(sig)

\* The manager runs on unless it waits for a command; job.c ends by itself.
Fairness == WF_vars(Service) /\ \A j \in Job : WF_vars(ChildStep(j))

Spec == Init /\ [][Next]_vars /\ Fairness

-----------------------------------------------------------------------------
(* Properties.                                                             *)

\* What the table says of a job is what has become of its process.
Truthful(j) ==
    CASE PT[j] = "NONE" -> proc[j] = "unborn"
      [] PT[j] = "FINISHED" -> proc[j] = "exited"
      [] PT[j] = "SUSPENDED" -> proc[j] = "stopped"
      [] PT[j] \in {"TERMINATED", "KILLED"} -> proc[j] = "signaled"

\* The table is true of every job but the one the manager is working on, and
\* of that one too when it prompts: no job runs behind its back, whenever the
\* user presses ^C or ^Z; and when the manager ends no job is left suspended
\* (mgr.c:122-137, 181-193, 233-235; kill_remaining_jobs, 63).
TableTruthful ==
    /\ TypeOK
    /\ \A j \in Job : j # cur \/ mgr \in {"prompt", "exited"} => Truthful(j)
    /\ mgr = "exited" => Suspended = {}

\* ^C and ^Z reach no job of the table but the one the manager waits for, and
\* at the prompt none at all, although k leaves the pid of the killed job in
\* running_job_pid (mgr.c:19-29, 137, 182, 231): such a job changes, and gets a
\* signal to act on later, only by a command that changes its entry.
OthersUntouched ==
    [][\A j \in Job :
          (j # cur \/ mgr = "prompt") /\ PT[j] # "NONE" /\ PT'[j] = PT[j]
              => proc'[j] = proc[j] /\ (j \in pending' => j \in pending)]_vars

\* The user gets the prompt back from a running job, which ends, is terminated
\* or is suspended, unless a key was pressed before the child's exec
\* (mgr.c:122, 181).
PromptReturns ==
    (mgr = "waiting") ~> (mgr = "prompt" \/ proc[cur] = "wedged")

\* Without that exception it is what the hand-out takes for granted (LA2.pdf,
\* page 2, item 3: the handlers of mgr do not affect the jobs, which "are
\* terminated or killed as desired"), and what the code does not keep: a key
\* between the fork and the exec runs the handler in the child, with 0 in
\* running_job_pid (mgr.c:18-30, 108, 117).
PromptAlwaysReturns == (mgr = "waiting") ~> (mgr = "prompt")
=============================================================================
