# A verification development of the operating systems assignments

The repository holds nine programming assignments (and samples) of an operating
systems course, each a small concurrent system in C: processes that talk over
System V queues, semaphores and shared memory, a thread library made of `clone`
and semaphores, pthreads with condition variables, pipes and signals.  This
directory models them in TLA+, checks the models with TLC and proves theorems
about them with TLAPS.

The modules translate the C code.  The `LA*.pdf` hand-outs and the comments are
used only for what they promise, and the places where the code does something
else are recorded (see *Divergences*).

## 1. The system

The assignments are separate programs.  For each: its parts, the state they keep,
what they do, what is hard about it, and what makes it correct.

### Assignment 8: virtual memory simulator (`master.c`, `sched.c`, `mmu.c`, `process.c`)

* State.  Shared memory SM1 (page table `[frame, valid, timestamp]`, `mi`, pid and
  counters of each of k processes), SM2 (free frame list with a -1 end marker), a
  semaphore, and three message queues: MQ1 process <-> scheduler, MQ2 MMU -> scheduler
  and master, MQ3 process <-> MMU.
* Operations.  master creates everything, forks scheduler, MMU and the processes, waits
  for the scheduler, kills and removes.  The scheduler sends the first ready process a
  message to run, waits for the MMU, queues the process again (type 1) or counts it out
  (type 2).  The MMU answers a page request with a frame, -1 (fault: load, replace or
  put off) or -2 (illegal).  A process sends its reference string page by page.
* Hard.  Five kinds of message cross on three queues, one of which is read with "any
  type"; the MMU replies before it has finished; a fault that cannot be handled is
  retried; the queues are removed under a process that has not read its last message.
* Correct when the free list and the page tables agree and no frame is shared,
  replacement is local LRU, one process has the CPU at a time, first come first served,
  everything ends and nothing is left.

### Assignment 5: topological sort by a boss and n workers (`boss.c`, `worker.c`)

* State.  Shared A (graph), T (listing), idx; semaphores sync[n] (remaining
  predecessors), mtx, ntfy.
* Operations.  Worker i waits for sync[i] to be zero, takes mtx, appends i to T,
  decrements its successors' semaphores, signals ntfy.  The boss passes ntfy on to mtx
  until idx = n, prints and checks T, removes the semaphores.
* Hard.  The token semaphores, the boss's unsynchronised read of idx, the removal of
  the semaphores under the last worker.
* Correct when T lists every node once after its predecessors and all processes end.

### Assignment 7: thread library (`foothread.c`) and tree sum (`computesum.c`)

* Mutex (`is_locked`, owner, semaphore), barrier (count, mutex, two turnstiles), thread
  table (100 slots, each with a semaphore that main waits for), and a program that sums
  a tree with one thread and one barrier per node.
* Hard.  The mutex's fields are written and checked one at a time; a barrier that is
  used again before everyone has left it; main frees the stack of a thread that is
  still running on it, and destroys barriers that threads are still leaving.
* Correct when the mutex excludes and its error checks accuse nobody falsely, the
  barrier releases a round only when all have come and then all of them, main outlives
  every joinable thread, and the printed sum is the sum of the leaves.

### Assignment 6: doctor's session (`session.c`, `event.c`)

* State.  A binary heap of events, counts and quotas (25 patients, 3 sales
  representatives), the doctor's state, two mutexes and eight condition variables.
* Operations.  The main thread pops events, creates a thread per visitor, wakes the
  doctor and then the visitor; the doctor and the visitor threads wait for their turn.
* Hard.  Condition variables shared by all visitors of a kind, two mutexes taken in both
  orders, the heap's comparison of equal events.
* Correct when each visitor is served at most once, in arrival order within a kind and
  by priority R > P > S, no wakeup is lost, time never runs back, and the session ends.

### Assignment 2: job manager (`mgr.c`)

* State.  Process table of 11 entries, the pid of the running job; handlers for SIGINT
  and SIGTSTP that forward the signal to the running job.
* Hard.  Signals between fork and wait, after the job has stopped, or after `k`.
* Correct when the status in the table is the one the job has, and a signal never hits
  a job that is not in the foreground.

### Assignment 3: two windows over two pipes (`CSE.c`)

* State.  A supervisor with two children in `xterm`s; each child's mode (C: asks for
  commands and writes them to a pipe; E: reads commands from a pipe and runs them) and
  which of the two pipes it uses; the pipes.
* Operations.  C types, E takes and runs a program; `swaprole` makes each change its mode
  and its pipe when it meets the word; `exit` ends both; the supervisor waits for both.
* Hard.  The two change roles at different times, with commands in the pipes and a
  program running.
* Correct when the commands are carried out once each, in the order typed, over any
  number of swaps, and everything ends after `exit`.

### Assignment 9: directory synchronisation (`sync.c`)

* State.  Two trees in the file system and the stack of recursive calls.
* Operations.  `sync_dirs` copies what is missing or different and removes what the source
  lacks; then `sync_time_permissions` sets times and permissions.
* Hard.  Any call on any item may fail and the program goes on; each change to a
  directory changes its time; equality is judged by size and time.
* Correct when the destination mirrors the source wherever nothing failed, a file that is
  up to date is left alone, a second run finds nothing to do, and after a failure it
  makes good what was missed.

### The rest

* Assignment 4 (`prodcons.c`): a producer and n consumers busy-wait on two shared
  integers; the item is written after the turn is given.
* Assignment 1 (`proctree.c`): prints a tree by fork, exec and wait, one child at a time.
* `Materials/`: samples of single system calls.  `Lecture slides/`: no code.
* `gengraph.c`, `gentree.c`, `arrival.c`, `job.c`: input generators and a test job.

`PROJECT.json` lists the hazards of all of them with their lines.

## 2. Plan

The components were taken in the order of what their concurrency makes hard: the memory
simulator, the boss and the workers, the thread library and its user, the session, the
job manager, the two windows, and the synchroniser.  What is left:

1. `VirtualMemory` completed: ^C at the master, the MMU's report.
2. `ProducerConsumer` (Assignment 4): two checksums that the race at `prodcons.c:95` makes
   differ.
3. Theorems: every invariant, action property and refinement that a passing run checks
   is proved, but for liveness.  Left are the statements on one component that rest on
   the promise of another (a barrier of `ComputeSum` is one round of `BarrierRounds`,
   which `FooBarrier` implements; its mutex is what `FooMutex` proves).
4. Low priority: `proctree.c`, `Materials`.

## 3. Modules

| module | what it is |
|---|---|
| `DemandPaging` | the tables of Assignment 8 and the MMU's loop |
| `LRUStack` | what it promises: local LRU, the pages of each process in the order of their last use |
| `VirtualMemory` | the four programs and three queues; uses the actions of `DemandPaging` |
| `FCFSScheduler` | what the scheduler promises: one CPU, first come first served |
| `MCVirtualMemory` | reference strings, for TLC |
| `TopoSort` | boss and workers of Assignment 5 |
| `TopologicalListing` | what they promise |
| `MCTopoSort` | all acyclic graphs as `gengraph.c` makes them, for TLC |
| `FooMutex` | the mutex of the thread library |
| `FooBarrier` | the barrier of the thread library |
| `BarrierRounds` | what it promises |
| `FooThread` | the thread table of the library, create and exit |
| `ComputeSum` | `computesum.c`, which uses all three parts of the library |
| `MCComputeSum` | a tree of five nodes, for TLC |
| `EventQueue` | the binary heap of Assignment 6 |
| `Session` | the assistant, the doctor and the visitors of Assignment 6 |
| `Consultation` | what they promise: one visitor after another, by priority |
| `MCSession` | small quotas and schedules, for TLC |
| `JobManager` | the job manager of Assignment 2, its jobs and the user's keys |
| `CommandSwap` | the supervisor and the two windows of Assignment 3 |
| `CommandLog` | what they promise: every command once, in order |
| `DirSync` | the synchroniser of Assignment 9 with the file system under it |
| `MCDirSync` | small trees, for TLC |
| `VirtualMemoryProofs` | theorems about `VirtualMemory` and, under it, `DemandPaging` |
| `FooSyncProofs` | theorems about `FooMutex` and `FooBarrier` |
| the other `*Proofs` | theorems about the module they are named after (`SessionProofs`: also `EventQueue`) |

A refinement mapping is in the module of the detailed specification (`LRU`, `FCFS`,
`Listing`, `Rounds`, `House`, `Log`).

Operators named `..._Mutant` are not part of a model.  Each is the definition that
follows it with a plausible bug; with it in place the named property fails, which
shows that the property depends on that piece of code.

### DemandPaging

`pagetable`, `sm2`, `timestamp` and the counters are the C variables.  `mmu` says
whether the MMU waits for a request or is between the reply it has sent and the rest of
that branch: it is split there because a message lets another process run (`IllegalReply`
then `IllegalRelease`; `FaultReply` then `FaultLoad`, `FaultReplace` or `FaultRetry`).
`Hit` and `Terminate` send one message each and are one step.  `ended` is the only
variable without a C counterpart: the processes that will send nothing more.  The loops
over a page table are written by what they compute (`Release`, `FirstFree`,
`LRUVictim`, which keeps the tie rule of the `<` at `mmu.c:242`).  `IntMax` is INT_MAX
and bounds the number of requests.  The mapping to `LRUStack` forgets frame numbers,
valid bits and the values of the timestamps; a page is `older` than another when its
timestamp is smaller.

In this module a request is any request of a process that has not ended.
`VirtualMemory` restricts the requests to those the processes make;
`SysImplementsMmu` proves that it does only that.

### VirtualMemory

Each action is one program's code between two queue operations.  MQ1 and MQ3 are read by
type only and are kept as one FIFO for each type; MQ2 is read with type 0 as well and is
one sequence.  The scheduler's dispatch message carries no data, so it is a count for
each process.  The initial state is the one after the master's set-up (lines 113-160);
`mi` and the reference strings are chosen there too, since nothing reads them before.
`msgrcv` is modelled as the manual describes it (first message of the type; after the
queue is removed, an error that leaves the buffer as it was - `process.c` does not check
it).  `usleep`, `xterm` and everything printed are left out, except the frame a process
says it got, which a property is about.  Not modelled: ^C at the master.

### TopoSort

An action is one semaphore operation or one access to shared memory that another process
may see: the write of T and the increment of idx are two steps, and the boss reads idx
in a step of its own.  The loop over successors is one step for each j, since each is a
`semop` that can interleave.  After the removal a `semop` fails and the worker goes on.

### FooMutex, FooBarrier

One step per assignment to a shared field or semaphore call.  `Locker` are threads that
lock and unlock in pairs, `Rogue` threads that call unlock without holding the mutex.
The operators of `FooMutex` carry the word Mutex so that one module can extend both.
`held` is a history variable (between `sem_wait` and `sem_post`), `culprit` the thread
whose failed check called `exit`.  `owner_tid` starts with no thread's id, as in a static
mutex (`computesum.c:11-14`); `foothread_mutex_init` does not set it.  In `FooBarrier`
the mutex protects `count`, so the step that takes the mutex also changes the count.
The barrier is used by exactly the n threads it was initialised for, as in
`computesum.c`, any number of rounds.

### FooThread, ComputeSum

`FooThread` has the thread table and the actions on it.  `foothread_create` is two steps,
`Clone` and `Register`: the thread runs from the first on, while main holds
`manager_mutex` (`manager`).  `Post` and `Collect` are the two halves of
`foothread_exit`; the loops over the slots are written by what they look for.
`ComputeSum` is main and the threads of the nodes over it.  A barrier of `computesum.c`
is used for one round only, so it is the set of the threads that have arrived
(`BarrierRounds`, which `FooBarrier` implements), and a mutex is its holder.
The addition at line 123 is split into the read (`LockParent`) and the write
(`AddToParent`).  A sum is kept as how often it holds the number of each leaf: the
numbers themselves do not matter.  `foothread_mutex_destroy` and
`foothread_barrier_destroy` of the node `i` are one round of `MainDestroys`.  A thread that
is `"notified"` may be anywhere in the second half of its last barrier when that barrier's
semaphores are destroyed.  The code leaves this open and POSIX undefined; with glibc
`sem_destroy` does nothing and the barriers are static, so the model lets the thread go
on.  `NoCallAfterDestroy` says what the code does ensure: no further call, and nobody
inside who waits for an arrival.  After its
`Exit` a thread is `"returning"` until it has left `compute_sum`.  `TreeAssumption` says
that `parent` is a tree: one node is its own parent, and every other is deeper than its
parent.  Nodes are created in the order of their numbers, which need not be the order
of the tree.

### EventQueue, Session

`EventQueue` translates the heap's loops as recursive functions on the array, counted
from 1.  `Session` has three copies of the visitor code in the C source, one for each
kind; here they are one action for any kind, and `map` names the patients' copy
or the lines of all three.  A step is a piece of code under one lock.  `mutex` and
`doc_mutex` are taken and given back within a step, except where main keeps the
first and asks for the second (`main = "leave"`) and where the doctor does the reverse
(`doctor = "report"`); `MutexFree` and `DocMutexFree` say so.  Sleeping on a condition
variable is a place (`asleep...`): a signal to nobody is lost, and a thread may wake
without one.  `param` is the variable on main's stack whose address the threads get;
each copies it in a step of its own.  `transcript` is what the program prints, without
the formatting of clock times (`Line` is what one `printf` says; `map` names one of them).
The unset duration of D events is 0 and is never read.
`FilesAssumption` has durations of 0 or more (`arrival.c` makes them 1 or more); arrival
times may be any integers in any order, since `initEQ` sorts them.  The mapping to
`Consultation` reads the visits off the printed lines (`Paid`), and the visitors let in
off `Q`.

When fewer visitors come than the quotas, main returns while the doctor still waits.
The hand-out excludes such schedules (so does `FilesAssumption`), and so does `arrival.c`.

### JobManager

`running` is `running_job_pid`, `PT` the statuses in the table, `proc` what has become of
each process.  A job's number is its index in `PT`, and stands for its pid, since a job
is either waited for and never named again or not waited for.  `mgr` says where the
manager is: a key may come between the fork, the assignment of `running_job_pid`, the
`setpgid`, the `waitpid` and the assignment of -1.  `Press` is the whole path of a key:
the terminal signals the manager's group (`inGroup`), and the manager's handler passes
the signal on.  A child has copies of the manager's handler and of `running_job_pid`
until its exec.  The fork's result is 0 in the child's copy, and `kill(0, ...)` signals
the caller's group: a child hit there is `"wedged"` for ever.

### CommandSwap

A child's mode and `state` are the C variables; a step is a command written, read or
carried out.  `typed` and `performed` are history variables.  A pipe holds what was
written and not yet taken by `scanf`; the reader's buffer counts to the pipe, because
what follows a `swaprole` is written to the other one.  A program is anything else that
is typed, and may not exist.  `CommandLog` is stated in two parts, `Safety` and the
fairness that makes every typed command be carried out.

### DirSync

The recursion is a stack of calls, one step for each entry, in any order (`readdir`
promises none).  The directory's own times and permissions are set when its entries are
done.  The file system below changes the time of a directory when an entry is made or
removed, and applies the umask.  Each entry has a `...Fails` action besides the one in
which every call succeeds: it ends in any state that the failing call can leave
(`PartlyRemoved` is `remove_directory`, which goes on after a failure; `Cut` is the
contents of a file whose copy was broken off).  `before` is the destination when the run
began and `failed` the items on which calls failed: history variables.  `run` says whether
it is the first run, a `"repeat"` of one without failures, or a `"repair"`; what a run
writes gets its time (`Clock`), so that a second run that does anything shows.
A path is a sequence of names below the root `<<>>`, and with a path `Path` has the paths
above it.  `Tree` says what a file system guarantees: an item is in a directory.

## 4. Runs

| run | instance | shows |
|---|---|---|
| `paging` | 2 processes, 3 pages, 2 frames, 5 requests | tables agree, ended processes hold nothing, refinement of `LRUStack` |
| `system` | 2 processes, 2 pages, 2 frames, all strings of 2 and 4 references | one CPU, FCFS (refinement of `FCFSScheduler`), frames sent are current, shutdown is clean, retries succeed, everything ends |
| `topo` | all acyclic graphs of 4 nodes | exclusion, order, the boss's early exit and the removal are harmless, refinement of `TopologicalListing`, termination |
| `mutex` | 3 lockers, 1 thread that only unlocks | exclusion, exact error checks, progress |
| `barrier` | 4 threads, any number of rounds | one token in two turnstiles, refinement of `BarrierRounds`, nobody left behind; no deadlock |
| `session` | quota of 2 patients and 1 sales representative, files of 4 arrivals in any order | heap order, order of service and of the printed lines, the hand-over of the parameter, the lock order; refinement of `Consultation`; the session ends with nobody left |
| `sum` | a root with a leaf and an internal node with two leaves | sums complete, no call on a destroyed object, no thread left behind, the program ends |
| `jobs` | a table of 4 jobs, any number of keys and commands | the table is true, keys hit only the running job, the prompt comes back from every job that has exec-ed untouched |
| `swap` | pipes of 2 commands, 7 commands typed | refinement of `CommandLog`, never two windows that ask, both end after `exit` |
| `sync` | trees of two entries, one of them perhaps a directory with an entry; failures on 2 items; two runs | the destination mirrors the source where nothing failed, an up-to-date file is kept, a run after one without failures, or on trees in step, changes nothing |
| `mutex_stale_owner`, `sync_difference` | as `mutex` with a thread that both locks and unlocks out of turn; as `sync` | the divergences below |

Bounds.  Two frames for two processes of up to three pages are enough for each branch
of the MMU: free frame, replacement of an own page, and no frame at all (the other
process holds both).  Five requests (`IntMax` = 7, one in reserve for each strict
comparison) fill the memory, replace, end one process and load into the frames it
left.  In `system` a process of one page has strings of two references and up, one of
two pages of four and up; the longest strings of `master.c` (10 `mi`) repeat the same
situations.  Four nodes have every shape of diamond, chain and independent pair.  Four
threads are the first number at which one can lap while two others are still in
different halves of the barrier.  The tree of `sum` has two leaves that add to one parent
at once, a leaf and an internal node below one root, and node numbers that differ from
the order of the levels, so that parents are created before and after their children.
Four jobs leave room for a killed, a suspended, a terminated and a running one.  Seven
commands are three swaps with commands before and after each, and a full pipe.  In
`sync` an entry may be missing, a file or a directory on either side, with equal or other
size, time and mode; two failures hit an entry and its directory, or two entries, or the
copy and the attributes of one.  The four arrivals of `session` come before, at
and after the end of a visit, two at one time, and after the session; the fourth is a
reporter or somebody whose quota is full.  Deadlock is checked in `barrier` and in
`session` (which ends in a step that repeats for ever); the other systems are programs that end (or that one error ends), and say so with
`CHECK_DEADLOCK FALSE`; there `Termination` or `Progress` takes its place.  Since a sleeping thread of `session` may always wake, a lost
signal shows there as a violation of `SessionEnds`, not as a deadlock.

Fairness.  Each program is an operating system process (or thread) of its own and takes
its next step unless it waits in a blocking call: weak fairness for each program.
The user of Assignments 2 and 3 need not press or type anything, but answers
`computesum.c`; jobs and programs end by themselves.  Assignment 9 is sequential and
needs no fairness for its properties.  Spurious wakeups get none, so a sleeping thread cannot rely on them.
Nothing is assumed of a thread outside the library (it need not lock, or come to the
barrier), except that one that has locked goes on to unlock.  No strong fairness is
used, so a thread may starve at `sem_wait` of the mutex, and `Progress` says only that
some thread gets it.

## 5. Divergences

* `mutex_stale_owner`.  `lock` sets `is_locked` before it replaces the previous owner's
  tid, so for that moment a thread that held the mutex before passes both checks of
  `unlock`.  The theorems `UnlockChecked` and `LockExcludes` show that this is the only
  way in: threads that never lock are always stopped.
* `sync_difference`.  A file that is to be overwritten because its time differs, with the
  size of the source's, and that cannot be opened for writing, still gets the source's
  time in the second pass.  From then on it counts as equal, and its contents stay
  different.

Others are reached by the models; the configurations named are kept for each, and TLC
shows the way there.

* `MCFaultHandled.cfg` (`ScheduledWithPage`).  The MMU's "page fault handled" message is
  also sent when it found no frame; the process is scheduled without its page, and faults
  again.  The comment at `process.c:126` and the hand-out say the page has been loaded.
  `RetryFinds` and `Termination` show that the retry succeeds in the end.
* `MCPrintedFrame.cfg` (`PrintedIsLegal`).  A process told -2 can lose the race against
  the removal of MQ3.  Its `msgrcv` then fails unnoticed and it prints that it got a frame
  for the illegal page (`process.c:115-136`).
* `MCBossNotified.cfg` (`NotifiedByAll`).  The boss can print before the last worker's
  notification, which the hand-out has it wait for.  It is harmless: `OrderlyEnd` and the
  theorem `EndsInOrder`.
* Assignment 2: a ^C that arrives after a job was stopped and before
  `running_job_pid = -1` is kept pending by the job and ends it when it is continued.  The
  hand-out says no suspended process is affected by ^C; `OthersUntouched` shows that
  this moment is the only one.
* `MCPromptAlwaysReturns.cfg` (`PromptAlwaysReturns`).  A key between the fork and the
  exec of a job runs the manager's handler in the child, whose `running_job_pid` is 0
  (`mgr.c:108`): it signals itself without end, and the manager waits for it for ever.
  The hand-out has it that the handlers of `mgr` do not affect the jobs.  `PromptReturns`
  excepts this case, and shows that nothing else keeps the prompt away.
* Assignment 7: main frees a thread's stack when the thread has posted, and the thread
  still returns on it.  `NobodyLeftBehind` says that it is never earlier.

## 6. Proofs

All for any values of the constants, under the named assumptions of the modules: any
number of processes, pages, frames, workers, threads, jobs, commands and arrivals, any
graph and any tree.  They cover every invariant, action property and refinement of the
passing runs (of `ImplementsLog` the safety part).  Each theorem goes the same way: an
inductive invariant, one lemma or step for each action, and the property from the
invariant.

* `VirtualMemoryProofs`, the MMU.  `Inv` is the type invariant, the three
  parts of `FrameOwnership`, `EndedHoldsNothing`, `CountedOnce`, and what is known of the
  request being served (in "fault" the page is legal and not loaded, the process has
  not ended; in "illegal" it has).  The last part is what the split of the branches
  needs.  `FirstFreeFound` shows that the search ends (its `CHOOSE` has a witness, by
  least elements in Nat), `VictimFound` the same for LRU.  `Stamped` says that the
  timestamps of a process's loaded pages differ and are not above the counter, and below
  it while a fault is being handled; from it the
  victim is the oldest page of the order, and every step is one of `LRUStack`
  (`ImplementsLRU`).  Every step of the four programs is a step of `DemandPaging` or
  leaves its variables alone (`SysImplementsMmu`), so all of this holds of the simulator.
* `VirtualMemoryProofs`, the simulator.  `SysInv` says where the turn is.  A process that
  has it (`Holds`) is dispatched, computing, requesting, being served, answered or
  reported to the scheduler, and every other one is `Aside`: not there yet, queued, or
  gone.  With it go the beginning (`Starting`: the MMU's pid is alone in MQ2 until the
  master has read it), the end (`Ending`, and `LiveExact`: the scheduler's count is the
  number of processes whose end it has not been told), and what each queue may hold.
  A lemma for each program gives the step of the invariant and `StaysPut`: all but the
  scheduler's steps leave the turn where it is.  `MessagesInStep`, `OneTurn`,
  `GrantIsCurrent`, `CleanShutdown` and the refinement of `FCFSScheduler` follow, the last
  two through `TurnPlaced`.  `RetryInv` follows a process from its fault to the retry:
  the page it asked for is loaded and nobody takes it, or the process had no page to
  give up.
* `TopoSortProofs`.  The invariant says where the single token is (ntfy, boss, mtx or one
  worker), that idx counts the workers past the increment, that they are exactly the
  nodes in T, and that sync[j] is the number of predecessors of j that have yet to signal
  it.  Order follows: a worker gets in when all its predecessors have signalled, after
  they were placed (`Released`).  `EndsInOrder` adds the boss's verdict: what it has
  checked of T agrees with the order.  Also proved: refinement of `TopologicalListing`.
* `FooSyncProofs`, the mutex.  Assuming that no thread that unlocks out of turn ever locks:
  the semaphore is free exactly when nobody is past it, flag and owner are the holder's
  from the assignments to the unlock, and the others get no further than the owner check.
* `FooSyncProofs`, the barrier.  The count is the cardinality of the threads between the
  two counts; the mutex excludes; one token is in a turnstile or with one thread; and
  where the token is says where all the threads can be (`WhileFirstOpen`,
  `WhileSecondOpen`, `WhileTurning`).  The refinement of `BarrierRounds` follows from the
  last three.
* `ComputeSumProofs`.  `IInv` has four parts beside the types: that the table holds the threads
  created so far, and what main may free and collect (`ThreadsInv`); that each barrier counts exactly the
  threads that have come to it, so that a thread gets past its own only when all its
  children have added their sums (`BarriersInv`); that one thread at a time is
  between the read and the write of a parent's sum (`AddersInv`); and that a sum holds
  each leaf below the node once, counting the children that have added (`SumsInv`).
  What is below a node is found along the tree: a set of nodes without the root has one
  whose parent is outside it (`Shallowest`).
* `SessionProofs`, the locks and the hand-over.  While the doctor has something to report,
  main is waiting for him (`LocksInv`), so the two never hold one lock each.
  `TokenInv` says that only the newest thread can be without its parameter, that main is
  then in the handshake and keeps the parameter, and that the next number is the next
  free place of the arrays as long as somebody of the kind would be let in.
* `SessionProofs`, the heap.  `SiftUp` and `SiftDown` are recursive functions; that such a
  function has the value its equation says is itself proved: a state from which a loop
  descends has one result (`LoopExists`), and the descent ends by a least measure
  (`LoopEnds`).  On the way a heap is in order but for one place, whose children are in
  order with its parent (`Sinking`, `Rising`).  With the permutation that each swap
  leaves (`Rearranged`) this gives `HeapKept`, for `initEQ`, `addevent`, `delevent` and
  `nextevent`.
* `SessionProofs`, the service.  `QueueInv` counts who waits, is served and is expected,
  and which end event is in the heap (`QueueOrdered`).  `OrderInv` adds who has been
  announced and called, that the printed times do not run back, and that whoever is
  of a kind above the one served arrives later than the call (`ServiceOrdered`).
  `HouseInv` adds what the mapping to `Consultation` needs: the one D event in the heap
  is the end of the last visit (which takes the permutation of the heap), arrivals still
  to come are not before those let in, and the session is open while anybody is served
  (`SessionRefines`).
* `JobManagerProofs`.  `IInv` says, besides the table, whom `running_job_pid` names (a
  killed job or nobody while the manager is not serving a job), that only the newest
  child is ever in the manager's own process group, and that the result of `waitpid`
  stays true until it is recorded, because the child cannot change any more.
* `CommandSwapProofs`.  The two windows are always in one of four phases: `Settled` (one
  asks, the other reads the same pipe, which holds programs only), `Swapping` (the asker
  has typed swaprole, which the other has still to read, and the second pipe is empty),
  `Exiting` (the same with exit) and `Over`.  The phase tells what is in both pipes, which
  is what makes the step of the window that takes a command preserve it.  `LogInv` says
  that what was typed is what was performed, the command being run and what is in the
  pipe, in this order; so every step is one of `CommandLog` (`KeepsLog`).
* `DirSyncProofs`.  First paths (prefixes are an order; an item below another is below one
  of its entries) and trees (what `Without`, `Put` and the rest leave of each item, and
  that they leave a tree).  `Inv` says of the stack
  that the directories of the calls are inside one another and are there on both sides,
  and that all calls are in one pass (`CallsInv`); of the first pass that what it has come
  to is as in the source (`Copied`) and a file it has not come to is as it was
  (`Untouched`); of the second that what it is done with has the source's times and
  permissions as well (`Equalled`).  `Copied` and `Equalled` are about items with no
  failure at or above them (`Clean`).  A directory's time survives because nothing
  changes an entry of it any more when it is set (`AttrsDone`, `AttrsLeft`).
  `MirrorsSource` is what `Inv` says at the end.  `IdleRun` first has that a run without
  failures leaves the two in step (`LeavesInStep`: a file it has not copied looked the
  same, and is as it was), so the next one begins with them in step; and while they are,
  every comparison finds nothing to do (`IdleStep`).  `KeepsUpToDate` shows that no step
  touches a file that looks the same.

Only model-checked: liveness (`Termination`, `Progress`, `AllLeave`, `SessionEnds`,
`PromptReturns`, `ExitEndsAll`, and the fairness of `CommandLog` in `ImplementsLog`), which
is beyond the prover.  The two runs that end in a violation (`mutex_stale_owner`,
`sync_difference`) have nothing to prove; the first is why `LockExcludes` and
`UnlockChecked` assume that no thread both locks and unlocks out of turn.

## 7. Not modelled

Formatting, printing and log files, except where a property names them; failures of
`fork`, `shmget` and the like at start-up, after which the programs exit; input
generators, whose outputs are the constants of the models; `Materials`, `Lecture slides`.
In `sync.c`: symbolic links and other kinds of items, access times, descriptors that are
not closed on some paths, and a root that cannot be opened.  In `mgr.c`: an exec that
fails.  In `CSE.c`: the end of input at a terminal.  In `foothread.c`: the limit of 100
threads, bad arguments, calls on objects that are not live (each ends the program) and
two first calls of `foothread_create` at once, which no program here makes.
`proctree.c` is sequential: each process waits for the one child it has.  `prodcons.c` is
the one concurrent program without a module, see the plan.
