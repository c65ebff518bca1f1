--------------------------- MODULE VirtualMemory ---------------------------
(***************************************************************************)
(* The whole simulator of Assignment 8: master.c, sched.c, mmu.c and K     *)
(* copies of process.c, talking over three System V message queues.        *)
(*                                                                         *)
(*   MQ1  process -> scheduler (type 1: I am ready) and                    *)
(*        scheduler -> process (type pid: run)                             *)
(*   MQ2  MMU -> master (type 100: my pid), MMU -> scheduler (type 1: a    *)
(*        fault was handled, type 2: a process ended)                      *)
(*   MQ3  process -> MMU (type 1: a page, or -9 at the end) and            *)
(*        MMU -> process (type pid: a frame, -1 fault, -2 illegal)         *)
(*                                                                         *)
(* msgrcv with a positive type takes the first message of that type, so a  *)
(* queue that is only read by type (MQ1, MQ3) is one FIFO per type.  MQ2   *)
(* is also read with type 0, the first message of any type, so its order   *)
(* is kept whole.  An action is one step of one program: what it computes  *)
(* between two queue operations, with the operation that ends it.          *)
(***************************************************************************)
EXTENDS DemandPaging, Sequences

CONSTANT RefString       \* the reference strings master.c may generate

ASSUME RefStringAssumption == RefString \subseteq Seq(Page)

\* Operators whose name ends in _Mutant are no part of the model: each is the
\* operator it is named after with a plausible bug, to show that a property
\* can fail.

VARIABLES
    refs,          \* reference string of each process
    master, created, registered, sync_sem, ipc,
    sched, live,
    ready,         \* MQ1, type 1
    dispatched,    \* MQ1, type pid: messages waiting for each process
    mq2,
    request,       \* MQ3, type 1
    reply,         \* MQ3, type pid
    mmu_life,
    proc,          \* where each process is
    index,         \* the reference it is at
    buf,           \* msg3.page_frame in the process: sent or received last
    printed        \* the last "Frame f allocated for page a" it printed

masterVars == <<master, created, sync_sem, ipc>>
schedVars  == <<sched, live>>
queues     == <<ready, dispatched, mq2, request, reply>>
procVars   == <<registered, proc, index, buf, printed>>
mmuVars    == vars
sysVars    == <<vars, refs, masterVars, schedVars, queues, mmu_life, procVars>>

Msg(type, p) == [type |-> type, pid |-> p]
MmuPid == -1                           \* stands for the pid in the type 100 message
EndOfRefs == -9
Fault == -1
Illegal == -2
Nothing == [page |-> -1, frame |-> -1]

\* msgrcv(q, type): the first message of that type, and the queue without it.
HasType(q, t) == \E i \in 1 .. Len(q) : q[i].type = t
Without(q, t) ==
    LET i == CHOOSE i \in 1 .. Len(q) :
                q[i].type = t /\ \A j \in 1 .. i-1 : q[j].type # t
    IN SubSeq(q, 1, i-1) \o SubSeq(q, i+1, Len(q))

\* master.c:113-160 has run.  It draws mi and the reference strings later
\* (master.c:214-235); nothing reads them before, so they are drawn here.
SysInit ==
    /\ Init
    /\ refs \in [Process -> RefString]
    /\ \A p \in Process : Len(refs[p]) \in 2 * mi[p] .. 10 * mi[p]
    /\ master = "mmupid" /\ created = 0 /\ registered = {}
    /\ sync_sem = 0 /\ ipc = "up"
    /\ sched = "ready" /\ live = K
    /\ ready = <<>> /\ mq2 = <<>> /\ request = <<>>
    /\ dispatched = [p \in Process |-> 0]
    /\ reply = [p \in Process |-> <<>>]
    /\ mmu_life = "starting"
    /\ proc = [p \in Process |-> "unborn"]
    /\ index = [p \in Process |-> 1]
    /\ buf = [p \in Process |-> 0]
    /\ printed = [p \in Process |-> Nothing]

-----------------------------------------------------------------------------
(* master.c                                                                *)

MasterLearnsMmu ==
    /\ master = "mmupid"
    /\ HasType(mq2, 100)
    /\ mq2' = Without(mq2, 100)
    /\ master' = "fork"
    /\ UNCHANGED <<mmuVars, refs, created, sync_sem, ipc, schedVars, ready,
                   dispatched, request, reply, mmu_life, procVars>>

\* The processes are created without waiting for the MMU.
MasterForks_Mutant ==
    /\ master \in {"mmupid", "fork"}
    /\ proc' = [proc EXCEPT ![created] = "forked"]
    /\ created' = created + 1
    /\ master' = IF created + 1 = K THEN "wait" ELSE "fork"
    /\ UNCHANGED <<mmuVars, refs, sync_sem, ipc, schedVars, queues, mmu_life,
                   registered, index, buf, printed>>

MasterForks ==
    /\ master = "fork"
    /\ proc' = [proc EXCEPT ![created] = "forked"]
    /\ created' = created + 1
    /\ master' = IF created + 1 = K THEN "wait" ELSE "fork"
    /\ UNCHANGED <<mmuVars, refs, sync_sem, ipc, schedVars, queues, mmu_life,
                   registered, index, buf, printed>>

MasterNotified ==                                       \* P(sync_sem)
    /\ master = "wait"
    /\ sync_sem > 0
    /\ sync_sem' = sync_sem - 1
    /\ master' = "kill"
    /\ UNCHANGED <<mmuVars, refs, created, ipc, schedVars, queues, mmu_life,
                   procVars>>

\* kill(SIGINT): the MMU's handler prints its report and exits.
MasterKillsMmu ==
    /\ master = "kill"
    /\ mmu_life' = "killed"
    /\ master' = "remove"
    /\ UNCHANGED <<mmuVars, refs, created, sync_sem, ipc, schedVars, queues,
                   procVars>>

\* IPC_RMID: messages still queued are lost and receivers wake with an error.
MasterRemoves ==
    /\ master = "remove"
    /\ ipc' = "removed"
    /\ master' = "done"
    /\ UNCHANGED <<mmuVars, refs, created, sync_sem, schedVars, queues,
                   mmu_life, procVars>>

MasterNext ==
    \/ MasterLearnsMmu
    \/ MasterForks
    \/ MasterNotified
    \/ MasterKillsMmu
    \/ MasterRemoves

-----------------------------------------------------------------------------
(* sched.c                                                                 *)

\* Dispatch without waiting for the MMU.
SchedDispatch_Mutant ==
    /\ sched = "ready"
    /\ live > 0
    /\ ready # <<>>
    /\ dispatched' = [dispatched EXCEPT ![Head(ready)] = @ + 1]
    /\ ready' = Tail(ready)
    /\ UNCHANGED <<mmuVars, refs, masterVars, sched, live, mq2, request, reply,
                   mmu_life, procVars>>

\* Take the first ready process and tell it to run.
SchedDispatch ==
    /\ sched = "ready"
    /\ live > 0
    /\ ready # <<>>
    /\ dispatched' = [dispatched EXCEPT ![Head(ready)] = @ + 1]
    /\ ready' = Tail(ready)
    /\ sched' = "mmu"
    /\ UNCHANGED <<mmuVars, refs, masterVars, live, mq2, request, reply,
                   mmu_life, procVars>>

\* A process that faulted goes to the front of the queue.
SchedNotified_MutantFront ==
    /\ sched = "mmu"
    /\ mq2 # <<>>
    /\ mq2' = Tail(mq2)
    /\ ready' = IF Head(mq2).type = 1 THEN <<Head(mq2).pid>> \o ready ELSE ready
    /\ live' = IF Head(mq2).type = 2 THEN live - 1 ELSE live
    /\ sched' = "ready"
    /\ UNCHANGED <<mmuVars, refs, masterVars, dispatched, request, reply,
                   mmu_life, procVars>>

\* Wait for any message of MQ2; types other than 1 and 2 are dropped.
SchedNotified ==
    /\ sched = "mmu"
    /\ mq2 # <<>>
    /\ mq2' = Tail(mq2)
    /\ ready' = IF Head(mq2).type = 1 THEN Append(ready, Head(mq2).pid) ELSE ready
    /\ live' = IF Head(mq2).type = 2 THEN live - 1 ELSE live
    /\ sched' = "ready"
    /\ UNCHANGED <<mmuVars, refs, masterVars, dispatched, request, reply,
                   mmu_life, procVars>>

SchedExits ==                                           \* V(sync_sem)
    /\ sched = "ready"
    /\ live = 0
    /\ sync_sem' = sync_sem + 1
    /\ sched' = "done"
    /\ UNCHANGED <<mmuVars, refs, master, created, ipc, live, queues, mmu_life,
                   procVars>>

SchedNext == SchedDispatch \/ SchedNotified \/ SchedExits

-----------------------------------------------------------------------------
(* mmu.c: each step of DemandPaging with its queue operations.             *)

MmuStarts ==
    /\ mmu_life = "starting"
    /\ mmu_life' = "running"
    /\ mq2' = Append(mq2, Msg(100, MmuPid))
    /\ UNCHANGED <<mmuVars, refs, masterVars, schedVars, ready, dispatched,
                   request, reply, procVars>>

\* Receive a request of a process that the scan of sm1[].pid finds.
Serve(p, page) ==
    /\ mmu_life = "running"
    /\ request # <<>>
    /\ Head(request) = [pid |-> p, page |-> page]
    /\ p \in registered
    /\ request' = Tail(request)

Answer(p, frame) == reply' = [reply EXCEPT ![p] = Append(@, frame)]

Notify(type, p) == mq2' = Append(mq2, Msg(type, p))

Untouched == UNCHANGED <<refs, masterVars, schedVars, ready, dispatched,
                         mmu_life, procVars>>

MmuTerminates ==
    \E p \in Process :
        /\ Serve(p, EndOfRefs)
        /\ Terminate(p)
        /\ Notify(2, p)
        /\ UNCHANGED reply
        /\ Untouched

\* The page is sent back instead of its frame.
MmuHit_Mutant ==
    \E p \in Process, a \in Page :
        /\ Serve(p, a)
        /\ Hit(p, a)
        /\ Answer(p, a)
        /\ UNCHANGED mq2
        /\ Untouched

MmuHit ==
    \E p \in Process, a \in Page :
        /\ Serve(p, a)
        /\ Hit(p, a)
        /\ Answer(p, pagetable[p][a].frame)
        /\ UNCHANGED mq2
        /\ Untouched

\* The scheduler is told with the reply, and again after the release.
MmuIllegalReply_Mutant ==
    \E p \in Process, a \in Page :
        /\ Serve(p, a)
        /\ IllegalReply(p, a)
        /\ Answer(p, Illegal)
        /\ Notify(2, p)
        /\ Untouched

MmuIllegalReply ==
    \E p \in Process, a \in Page :
        /\ Serve(p, a)
        /\ IllegalReply(p, a)
        /\ Answer(p, Illegal)
        /\ UNCHANGED mq2
        /\ Untouched

MmuFaultReply ==
    \E p \in Process, a \in Page :
        /\ Serve(p, a)
        /\ FaultReply(p, a)
        /\ Answer(p, Fault)
        /\ UNCHANGED mq2
        /\ Untouched

\* The second half of a branch: change the tables, tell the scheduler.
Finish(type) ==
    /\ mmu_life = "running"
    /\ Notify(type, msg3.pid)
    /\ UNCHANGED <<request, reply>>
    /\ Untouched

\* The scheduler is not told that the process ended.
MmuIllegalRelease_Mutant ==
    /\ IllegalRelease
    /\ mmu_life = "running"
    /\ UNCHANGED <<request, reply, mq2>>
    /\ Untouched

MmuIllegalRelease == IllegalRelease /\ Finish(2)
MmuFaultLoad      == FaultLoad /\ Finish(1)
MmuFaultReplace   == FaultReplace /\ Finish(1)
MmuFaultRetry     == FaultRetry /\ Finish(1)

MmuNext ==
    \/ MmuStarts
    \/ MmuTerminates
    \/ MmuHit
    \/ MmuIllegalReply
    \/ MmuIllegalRelease
    \/ MmuFaultReply
    \/ MmuFaultLoad
    \/ MmuFaultReplace
    \/ MmuFaultRetry

-----------------------------------------------------------------------------
(* process.c, and the child of master.c:243-252 before its exec            *)

Others == UNCHANGED <<mmuVars, refs, masterVars, schedVars, mq2, mmu_life>>

\* sm1[i].pid = getpid(), then exec.
ChildExecs(p) ==
    /\ proc[p] = "forked"
    /\ registered' = registered \cup {p}
    /\ proc' = [proc EXCEPT ![p] = "start"]
    /\ Others
    /\ UNCHANGED <<ready, dispatched, request, reply, index, buf, printed>>

\* Join the ready queue.
ProcEnqueues(p) ==
    /\ proc[p] = "start"
    /\ ready' = Append(ready, p)
    /\ proc' = [proc EXCEPT ![p] = "waitcpu"]
    /\ Others
    /\ UNCHANGED <<registered, dispatched, request, reply, index, buf, printed>>

\* Wait to be scheduled, at the start and after a fault.
ProcScheduled(p) ==
    /\ proc[p] = "waitcpu"
    /\ dispatched[p] > 0
    /\ dispatched' = [dispatched EXCEPT ![p] = @ - 1]
    /\ proc' = [proc EXCEPT ![p] = "run"]
    /\ Others
    /\ UNCHANGED <<registered, ready, request, reply, index, buf, printed>>

\* Send to MQ3.  Once the queue is removed msgsnd fails, unnoticed.
SendToMmu(p, page) ==
    request' = IF ipc = "up" THEN Append(request, [pid |-> p, page |-> page])
                             ELSE request

\* Send the next reference.
ProcRefers(p) ==
    /\ proc[p] = "run"
    /\ index[p] <= Len(refs[p])
    /\ SendToMmu(p, refs[p][index[p]])
    /\ buf' = [buf EXCEPT ![p] = refs[p][index[p]]]
    /\ proc' = [proc EXCEPT ![p] = "waitmmu"]
    /\ Others
    /\ UNCHANGED <<registered, ready, dispatched, reply, index, printed>>

\* At the end of the reference string: tell the MMU and exit.
ProcEnds(p) ==
    /\ proc[p] = "run"
    /\ index[p] > Len(refs[p])
    /\ SendToMmu(p, EndOfRefs)
    /\ buf' = [buf EXCEPT ![p] = EndOfRefs]
    /\ proc' = [proc EXCEPT ![p] = "exited"]
    /\ Others
    /\ UNCHANGED <<registered, ready, dispatched, reply, index, printed>>

\* Receive from MQ3 into msg3.  Once the queue is removed msgrcv fails,
\* unnoticed, and msg3 still holds the page that was sent.
ReceiveFrame(p, frame) ==
    /\ proc[p] = "waitmmu"
    /\ \/ ipc = "up" /\ reply[p] # <<>> /\ frame = Head(reply[p])
                     /\ reply' = [reply EXCEPT ![p] = Tail(@)]
       \/ ipc = "removed" /\ frame = buf[p] /\ UNCHANGED reply
    /\ buf' = [buf EXCEPT ![p] = frame]
    /\ Others
    /\ UNCHANGED <<registered, ready, dispatched, request>>

ProcIllegal(p) ==
    /\ ReceiveFrame(p, Illegal)
    /\ proc' = [proc EXCEPT ![p] = "exited"]
    /\ UNCHANGED <<index, printed>>

\* i = prev_i: the reference is sent again when p is next scheduled.
ProcFaults(p) ==
    /\ ReceiveFrame(p, Fault)
    /\ proc' = [proc EXCEPT ![p] = "waitcpu"]
    /\ UNCHANGED <<index, printed>>

ProcGranted(p) ==
    \E frame \in Frame \cup Page :
        /\ ReceiveFrame(p, frame)
        /\ printed' = [printed EXCEPT ![p] = [page |-> refs[p][index[p]],
                                              frame |-> frame]]
        /\ index' = [index EXCEPT ![p] = @ + 1]
        /\ proc' = [proc EXCEPT ![p] = "run"]

ProcNext(p) ==
    \/ ChildExecs(p)
    \/ ProcEnqueues(p)
    \/ ProcScheduled(p)
    \/ ProcRefers(p)
    \/ ProcEnds(p)
    \/ ProcIllegal(p)
    \/ ProcFaults(p)
    \/ ProcGranted(p)

-----------------------------------------------------------------------------
SysNext ==
    \/ MasterNext
    \/ SchedNext
    \/ MmuNext
    \/ \E p \in Process : ProcNext(p)

\* Each program is an operating system process of its own and takes its next
\* step unless it waits at a queue or the semaphore.
Fairness ==
    /\ WF_sysVars(MasterNext)
    /\ WF_sysVars(SchedNext)
    /\ WF_sysVars(MmuNext)
    /\ \A p \in Process : WF_sysVars(ProcNext(p))

SysSafety == SysInit /\ [][SysNext]_sysVars

SysSpec == SysSafety /\ Fairness

-----------------------------------------------------------------------------
(* Properties.                                                             *)

(* Types of the queues and program counters; the master is notified once.  *)
SysTypeOK ==
    /\ refs \in [Process -> RefString]
    /\ master \in {"mmupid", "fork", "wait", "kill", "remove", "done"}
    /\ created \in 0 .. K
    /\ registered \subseteq Process
    /\ sync_sem \in {0, 1}
    /\ ipc \in {"up", "removed"}
    /\ sched \in {"ready", "mmu", "done"}
    /\ live \in 0 .. K
    /\ ready \in Seq(Process)
    /\ dispatched \in [Process -> Nat]
    /\ mq2 \in Seq([type : {1, 2, 100}, pid : Process \cup {MmuPid}])
    /\ request \in Seq([pid : Process, page : Page \cup {EndOfRefs}])
    /\ reply \in [Process -> Seq(Frame \cup {Fault, Illegal})]
    /\ mmu_life \in {"starting", "running", "killed"}
    /\ proc \in [Process -> {"unborn", "forked", "start", "waitcpu", "run",
                             "waitmmu", "exited"}]
    /\ index \in [Process -> Nat \ {0}]
    /\ buf \in [Process -> Page \cup Frame \cup {Fault, Illegal, EndOfRefs}]

(* The places a process's turn can be: dispatched to it, spent on its own  *)
(* instructions, in a request, in the hands of the MMU, in a frame sent    *)
(* back to it, or in the MMU's message to the scheduler.                   *)
Asked(p)   == \E i \in 1 .. Len(request) : request[i].pid = p
Granted(p) == \E i \in 1 .. Len(reply[p]) : reply[p][i] \in Frame
OnCPU(p)   == proc[p] = "run" \/ Asked(p) \/ Granted(p)
AtMmu(p)   == mmu # "recv" /\ msg3.pid = p
Told(p)    == \E i \in 1 .. Len(mq2) : mq2[i].type # 100 /\ mq2[i].pid = p
HasTurn(p) == dispatched[p] > 0 \/ OnCPU(p) \/ AtMmu(p) \/ Told(p)

(* One CPU: the turn is never in two places, and while some process has it *)
(* the scheduler waits for the MMU and hands out no other (sched.c:71-96). *)
OneTurn ==
    ipc = "up" =>
        /\ \A p, q \in Process : HasTurn(p) /\ HasTurn(q) => p = q
        /\ \A p \in Process :
               /\ HasTurn(p) => sched = "mmu"
               /\ dispatched[p] + Len(reply[p]) <= 2
        /\ Len(request) <= 1

(* The MMU's pid in MQ2 is for the master.  The scheduler reads MQ2 with   *)
(* type 0 (sched.c:83) and would take it, leaving the master waiting for   *)
(* ever at master.c:201; it never waits there while the message is queued. *)
PidForMaster == sched = "mmu" => ~HasType(mq2, 100)

(* A frame sent to a process is still that process's, and holds the page   *)
(* it asked for, for as long as the answer is in the queue.                *)
GrantIsCurrent ==
    \A p \in Process :
        proc[p] = "waitmmu" /\ Granted(p) =>
            /\ buf[p] \in Page
            /\ pagetable[p][buf[p]].frame = Head(reply[p])
            /\ sm2[Head(reply[p])] = 0

(* The MMU finds every requester in SM1, and no process it has counted as  *)
(* terminated ever asks again (mmu.c:141-152).                             *)
RequesterKnown ==
    ipc = "up" =>
        \A i \in 1 .. Len(request) :
            /\ request[i].pid \in registered
            /\ request[i].pid \notin ended

(* Every message reaches whom it is for, and every queue holds only what   *)
(* its readers know.                                                       *)
MessagesInStep == SysTypeOK /\ PidForMaster /\ RequesterKnown

(* When the master starts to tear the system down, every process has been  *)
(* counted once, every frame is back on the free list and nothing is left  *)
(* for the MMU to serve (master.c:257-272).                                *)
CleanShutdown ==
    master \in {"kill", "remove", "done"} =>
        /\ ended = Process
        /\ total_num_processes = K
        /\ \A f \in Frame : sm2[f] = 1
        /\ mmu = "recv" /\ mq2 = <<>>
        /\ ipc = "up" => request = <<>>

(* A process sends a faulted reference again (process.c:129) only to find  *)
(* the page loaded, unless the MMU had no frame for it at all: nothing     *)
(* takes the page away while the process waits for the CPU.                *)
RetryFinds ==
    [][\A p \in Process :
          (buf[p] = Fault /\ buf'[p] \in Page) =>
              \/ InMemory(p, buf'[p])
              \/ \A a \in Page : ~Resident(p, a)]_sysVars

(* The refinement mapping to FCFSScheduler: the process that has the CPU   *)
(* is the one whose turn it is.                                            *)
Idle == -1
Turn == {p \in Process : ipc = "up" /\ HasTurn(p)}
Arrived == {p \in Process : proc[p] \notin {"unborn", "forked", "start"}}
Running == IF Turn # {} THEN CHOOSE p \in Turn : TRUE ELSE Idle
Finished == ended \ Turn

FCFS == INSTANCE FCFSScheduler WITH
           Idle     <- Idle,
           arrived  <- Arrived,
           queue    <- ready,
           running  <- Running,
           finished <- Finished

(* The four programs and three queues schedule the processes first come    *)
(* first served on one CPU.                                                *)
FirstComeFirstServed == FCFS!Spec

(* Every process gets through its reference string or dies of an illegal   *)
(* reference, and the master shuts the system down, as long as there is a  *)
(* frame at all.                                                           *)
Termination ==
    <>(master = "done" /\ \A p \in Process : proc[p] = "exited")

(* What the comments claim and the code does not do; see README.           *)

(* "Wait for a message indicating that the page has been loaded"           *)
(* (process.c:126): a process scheduled after a fault has its page.        *)
ScheduledWithPage ==
    \A p \in Process :
        proc[p] = "run" /\ buf[p] = Fault => InMemory(p, refs[p][index[p]])

(* "Print a message indicating successful page frame allocation"           *)
(* (process.c:133): a process that prints it was given a frame for a page  *)
(* it may use.                                                             *)
PrintedIsLegal ==
    \A p \in Process : printed[p] # Nothing => printed[p].page < mi[p]
=============================================================================
