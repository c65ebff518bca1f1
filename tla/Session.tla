------------------------------ MODULE Session ------------------------------
(***************************************************************************)
(* The doctor's session of Assignment 6 (session.c): the assistant, which  *)
(* is the main thread and drives a discrete event simulation, the doctor's *)
(* thread and one thread for every visitor who is let in.                  *)
(*                                                                         *)
(* R, P and S stand for reporters, patients and sales representatives; the *)
(* code has a copy of every variable and of every piece of code for each   *)
(* of them, here functions of the kind.  The variables below are shared    *)
(* under `mutex`, doc_state under `doc_mutex`.  A step is what a thread    *)
(* does from one lock to the unlock or wait that ends it, or between two   *)
(* such pieces; only where a thread asks for one lock while it holds the   *)
(* other are there two steps.                                              *)
(*                                                                         *)
(* Sleep on a condition variable is a place of its own: a signal moves the *)
(* thread from there back to where it takes the lock, is lost when nobody  *)
(* sleeps, and pthreads may wake a thread for no reason.                   *)
(***************************************************************************)
EXTENDS EventQueue

CONSTANTS
    Quota,      \* how many patients and sales representatives (25 and 3)
    Files       \* the arrival schedules: sequences of events

Kind == {"R", "P", "S"}
Limited == {"P", "S"}

Count(file, k) == Len(SelectSeq(file, LAMBDA e : e.type = k))

ASSUME QuotaAssumption == Quota \in [Limited -> Nat \ {0}]

\* LA6: at least as many patients and sales representatives come as the
\* doctor attends to.
ASSUME FilesAssumption ==
    \A f \in Files :
        /\ f \in Seq(Event)
        /\ \A i \in 1..Len(f) : f[i].type \in Kind /\ f[i].duration >= 0
        /\ \A k \in Limited : Count(f, k) >= Quota[k]

\* Operators whose name ends in _Mutant are no part of the model: each is the
\* operator it is named after with a plausible bug, to show that a property
\* can fail.

VARIABLES
    E,                  \* the event queue, main's
    cnt, wait, curr,    \* patient_cnt, ..., patient_wait, ..., patient_curr, ...
    done,               \* patient_done, ...
    curr_time, doc_free, doc_session_end, doc_state,
    Q, tids,            \* patientQ, ... and patient_tids, ..., filled from 1 on
    param,              \* main's new_patient, new_reporter and new_salesrep
    event,              \* the visitor main lets in or sends in
    main, doctor,       \* where the two threads are
    visitor,            \* the visitors' threads, in the order of their creation
    transcript          \* the lines printed

shared == <<cnt, wait, curr, done, curr_time, doc_free, doc_session_end>>
local == <<Q, tids, param, event>>
vars == <<E, shared, doc_state, local, main, doctor, visitor, transcript>>

\* Who keeps a lock from one step to the next (session.c:239, 89).
MutexFree == main # "leave"
DocMutexFree == doctor # "report"

Line(who, id, says, until) ==
    [at |-> curr_time', who |-> who, id |-> id, says |-> says, until |-> until]

\* Main returns: the other threads go with it.
Running == main # "exit"

NoEvent == [type |-> "D", time |-> 0, duration |-> 0]

Init ==
    /\ \E f \in Files : E = AddEvent(InitEQ(f), NoEvent)
    /\ cnt = [k \in Kind |-> 0]
    /\ wait = [k \in Kind |-> 0]
    /\ curr = [k \in Kind |-> 0]
    /\ done = [k \in Kind |-> 0]
    /\ curr_time = -1000000000
    /\ doc_free = 0
    /\ doc_session_end = 0
    /\ doc_state = 0
    /\ Q = [k \in Kind |-> <<>>]
    /\ tids = [k \in Kind |-> <<>>]
    /\ param = [k \in Kind |-> [e |-> NoEvent, id |-> 0]]
    /\ event = NoEvent
    /\ main = "pop"
    /\ doctor = "lock"
    /\ visitor = <<>>
    /\ transcript = <<>>

-----------------------------------------------------------------------------
(* The main thread: the events                                             *)

Pops(types) ==
    /\ main = "pop"
    /\ E # <<>>
    /\ MutexFree
    /\ NextEvent(E).type \in types
    /\ E' = DelEvent(E)
    /\ curr_time' = NextEvent(E).time

QuotasAttended == \A k \in Limited : curr[k] = Quota[k]

\* The mutant forgets the reporters.
DoctorDone_Mutant ==
    /\ Pops({"D"})
    /\ doc_free' = 1
    /\ main' = IF QuotasAttended THEN "leave" ELSE "service"
    /\ UNCHANGED <<cnt, wait, curr, done, doc_session_end, doc_state, local,
                   doctor, visitor, transcript>>

\* The doctor is done with a visitor.  When he is done for the day, main
\* keeps the mutex and asks for doc_mutex.
DoctorDone ==
    /\ Pops({"D"})
    /\ doc_free' = 1
    /\ main' = IF QuotasAttended /\ wait["R"] = 0 THEN "leave" ELSE "service"
    /\ UNCHANGED <<cnt, wait, curr, done, doc_session_end, doc_state, local,
                   doctor, visitor, transcript>>

SignalDoctor == doctor' = IF doctor = "asleep" THEN "lock" ELSE doctor

EndSession ==
    /\ main = "leave"
    /\ DocMutexFree
    /\ doc_state' = -1
    /\ SignalDoctor
    /\ doc_session_end' = 1
    /\ doc_free' = 0
    /\ main' = "join_doctor"
    /\ UNCHANGED <<E, cnt, wait, curr, done, curr_time, local, visitor, transcript>>

JoinDoctor ==
    /\ main = "join_doctor"
    /\ doctor = "gone"
    /\ main' = "pop"
    /\ UNCHANGED <<E, shared, doc_state, local, doctor, visitor, transcript>>

\* A visitor arrives, and leaves when the session is over or the quota full.
Arrive ==
    LET k == NextEvent(E).type
        id == cnt[k] + 1
        leaves == doc_session_end = 1 \/ (k \in Limited /\ id > Quota[k])
        arrival == Line(k, id, "arrives", curr_time')
    IN  /\ Pops(Kind)
        /\ cnt' = [cnt EXCEPT ![k] = id]
        /\ IF leaves
           THEN /\ main' = "pop"
                /\ transcript' = transcript \o <<arrival, Line(k, id, "leaves", curr_time')>>
                /\ UNCHANGED <<wait, done, event>>
           ELSE /\ main' = "create"
                /\ transcript' = Append(transcript, arrival)
                /\ wait' = [wait EXCEPT ![k] = @ + 1]
                /\ done' = [done EXCEPT ![k] = 0]
                /\ event' = NextEvent(E)
        /\ UNCHANGED <<curr, doc_free, doc_session_end, doc_state, Q, tids, param,
                       doctor, visitor>>

\* main passes the address of a variable of its own; the thread has yet to
\* read it, and its own copy holds nothing of meaning until then.
CreateVisitor ==
    LET k == event.type
    IN  /\ main = "create"
        /\ param' = [param EXCEPT ![k] = [e |-> event, id |-> cnt[k]]]
        /\ visitor' = Append(visitor, [kind |-> k, pc |-> "start", mine |-> param[k]])
        /\ main' = "initialising"
        /\ UNCHANGED <<E, shared, doc_state, Q, tids, event, doctor, transcript>>

\* The mutant goes on without waiting.
AwaitInit_Mutant ==
    LET k == event.type
    IN  /\ main = "initialising"
        /\ MutexFree
        /\ main' = "service"
        /\ done' = [done EXCEPT ![k] = 0]
        /\ Q' = [Q EXCEPT ![k] = Append(@, event)]
        /\ tids' = [tids EXCEPT ![k] = Append(@, Len(visitor))]
        /\ UNCHANGED <<E, cnt, wait, curr, curr_time, doc_free, doc_session_end,
                       doc_state, param, event, doctor, visitor, transcript>>

\* Wait until the thread has its parameter, then note it down.
AwaitInit ==
    LET k == event.type
    IN  /\ main = "initialising"
        /\ MutexFree
        /\ IF done[k] = 0
           THEN /\ main' = "asleep_init"
                /\ UNCHANGED <<done, Q, tids>>
           ELSE /\ main' = "service"
                /\ done' = [done EXCEPT ![k] = 0]
                /\ Q' = [Q EXCEPT ![k] = Append(@, event)]
                /\ tids' = [tids EXCEPT ![k] = Append(@, Len(visitor))]
        /\ UNCHANGED <<E, cnt, wait, curr, curr_time, doc_free, doc_session_end,
                       doc_state, param, event, doctor, visitor, transcript>>

-----------------------------------------------------------------------------
(* The main thread: service                                                *)

MayServe == doc_free = 1 /\ doc_session_end = 0

\* The kinds that go before k.
Above(k) == CASE k = "R" -> {} [] k = "P" -> {"R"} [] k = "S" -> {"R", "P"}

Serve(k) ==
    /\ main = "service"
    /\ MutexFree
    /\ MayServe
    /\ wait[k] > 0
    /\ \A a \in Above(k) : wait[a] = 0
    /\ event' = Q[k][curr[k] + 1]
    /\ wait' = [wait EXCEPT ![k] = @ - 1]
    /\ doc_free' = 0
    /\ main' = "engage"
    /\ UNCHANGED <<E, cnt, curr, done, curr_time, doc_session_end, doc_state, Q, tids,
                   param, doctor, visitor, transcript>>

\* Nobody to serve, or no doctor.
NoService ==
    /\ main = "service"
    /\ MutexFree
    /\ MayServe => \A k \in Kind : wait[k] = 0
    /\ main' = "pop"
    /\ UNCHANGED <<E, shared, doc_state, local, doctor, visitor, transcript>>

EngageDoctor ==
    /\ main = "engage"
    /\ DocMutexFree
    /\ doc_state' = 1
    /\ SignalDoctor
    /\ main' = "await"
    /\ UNCHANGED <<E, shared, local, visitor, transcript>>

\* The mutant does not wait for the doctor.
AwaitDoctor_Mutant ==
    /\ main = "await"
    /\ DocMutexFree
    /\ main' = "call"
    /\ UNCHANGED <<E, shared, doc_state, local, doctor, visitor, transcript>>

AwaitDoctor ==
    /\ main = "await"
    /\ DocMutexFree
    /\ main' = IF doc_state = 1 THEN "asleep_done" ELSE "call"
    /\ UNCHANGED <<E, shared, doc_state, local, doctor, visitor, transcript>>

\* The mutant does not wake them.
CallVisitor_Mutant ==
    /\ main = "call"
    /\ MutexFree
    /\ curr' = [curr EXCEPT ![event.type] = @ + 1]
    /\ main' = "join_visitor"
    /\ UNCHANGED <<E, cnt, wait, done, curr_time, doc_free, doc_session_end,
                   doc_state, local, doctor, visitor, transcript>>

\* The next visitor of the kind is called: a broadcast to all of that kind.
CallVisitor ==
    LET k == event.type
        woken(v) == v.kind = k /\ v.pc = "asleep"
    IN  /\ main = "call"
        /\ MutexFree
        /\ curr' = [curr EXCEPT ![k] = @ + 1]
        /\ visitor' = [i \in DOMAIN visitor |->
                          IF woken(visitor[i]) THEN [visitor[i] EXCEPT !.pc = "turn"]
                                               ELSE visitor[i]]
        /\ main' = "join_visitor"
        /\ UNCHANGED <<E, cnt, wait, done, curr_time, doc_free, doc_session_end,
                       doc_state, local, doctor, transcript>>

JoinVisitor ==
    LET k == event.type
        end == [type |-> "D", time |-> curr_time + event.duration, duration |-> 0]
    IN  /\ main = "join_visitor"
        /\ visitor[tids[k][curr[k]]].pc = "gone"
        /\ E' = AddEvent(E, end)
        /\ main' = "pop"
        /\ UNCHANGED <<shared, doc_state, local, doctor, visitor, transcript>>

Exit ==
    /\ main = "pop"
    /\ E = <<>>
    /\ main' = "exit"
    /\ UNCHANGED <<E, shared, doc_state, local, doctor, visitor, transcript>>

-----------------------------------------------------------------------------
(* The doctor's thread                                                     *)

\* He keeps doc_mutex when he has something to do, and asks for the mutex.
DoctorLocks ==
    /\ Running
    /\ doctor = "lock"
    /\ doctor' = IF doc_state = 0 THEN "asleep" ELSE "report"
    /\ UNCHANGED <<E, shared, doc_state, local, main, visitor, transcript>>

DoctorCalls ==
    /\ Running
    /\ doctor = "report"
    /\ MutexFree
    /\ doc_state = 1
    /\ UNCHANGED curr_time
    /\ transcript' = Append(transcript, Line("D", 0, "next_visitor", curr_time))
    /\ doc_state' = 0
    /\ main' = IF main = "asleep_done" THEN "await" ELSE main
    /\ doctor' = "lock"
    /\ UNCHANGED <<E, cnt, wait, curr, done, doc_free, doc_session_end, local, visitor>>

DoctorLeaves ==
    /\ Running
    /\ doctor = "report"
    /\ MutexFree
    /\ doc_state = -1
    /\ UNCHANGED curr_time
    /\ transcript' = Append(transcript, Line("D", 0, "leaves", curr_time))
    /\ doc_session_end' = 1
    /\ doctor' = "gone"
    /\ UNCHANGED <<E, cnt, wait, curr, done, doc_free, doc_state, local, main, visitor>>

-----------------------------------------------------------------------------
(* The visitors' threads: patient, reporter and salesrep                   *)

Steps(i, here, next) ==
    /\ Running
    /\ visitor[i].pc = here
    /\ visitor' = [visitor EXCEPT ![i].pc = next]

\* The copy of the parameter, read from main's stack without a lock.
CopyParam(i) ==
    /\ Running
    /\ visitor[i].pc = "start"
    /\ visitor' = [visitor EXCEPT ![i].pc = "init", ![i].mine = param[visitor[i].kind]]
    /\ UNCHANGED <<E, shared, doc_state, local, main, doctor, transcript>>

\* Initialised: signal main, if it sleeps on this kind's condition.
SignalInit(i) ==
    LET k == visitor[i].kind
    IN  /\ Steps(i, "init", "turn")
        /\ MutexFree
        /\ done' = [done EXCEPT ![k] = 1]
        /\ main' = IF main = "asleep_init" /\ event.type = k THEN "initialising" ELSE main
        /\ UNCHANGED <<E, cnt, wait, curr, curr_time, doc_free, doc_session_end, doc_state,
                       local, doctor, transcript>>

AwaitTurn(i) ==
    /\ Steps(i, "turn", "asleep")
    /\ MutexFree
    /\ curr[visitor[i].kind] # visitor[i].mine.id
    /\ UNCHANGED <<E, shared, doc_state, local, main, doctor, transcript>>

EnterChamber(i) ==
    LET k == visitor[i].kind
        mine == visitor[i].mine
    IN  /\ Steps(i, "turn", "gone")
        /\ MutexFree
        /\ curr[k] = mine.id
        /\ UNCHANGED curr_time
        /\ transcript' = Append(transcript,
                             Line(k, mine.id, "in_chamber", curr_time + mine.e.duration))
        /\ UNCHANGED <<E, cnt, wait, curr, done, doc_free, doc_session_end, doc_state,
                       local, main, doctor>>

-----------------------------------------------------------------------------
(* pthread_cond_wait may return without a signal.                          *)

SpuriousMain ==
    /\ \/ main = "asleep_init" /\ main' = "initialising"
       \/ main = "asleep_done" /\ main' = "await"
    /\ UNCHANGED <<E, shared, doc_state, local, doctor, visitor, transcript>>

SpuriousDoctor ==
    /\ Running
    /\ doctor = "asleep"
    /\ doctor' = "lock"
    /\ UNCHANGED <<E, shared, doc_state, local, main, visitor, transcript>>

SpuriousVisitor(i) ==
    /\ Steps(i, "asleep", "turn")
    /\ UNCHANGED <<E, shared, doc_state, local, main, doctor, transcript>>

Terminated == main = "exit" /\ UNCHANGED vars

MainSteps ==
    \/ DoctorDone \/ EndSession \/ JoinDoctor
    \/ Arrive \/ CreateVisitor \/ AwaitInit
    \/ \E k \in Kind : Serve(k)
    \/ NoService \/ EngageDoctor \/ AwaitDoctor \/ CallVisitor \/ JoinVisitor
    \/ Exit

DoctorSteps == DoctorLocks \/ DoctorCalls \/ DoctorLeaves

VisitorSteps(i) == CopyParam(i) \/ SignalInit(i) \/ AwaitTurn(i) \/ EnterChamber(i)

Next ==
    \/ MainSteps
    \/ DoctorSteps
    \/ \E i \in DOMAIN visitor : VisitorSteps(i)
    \/ SpuriousMain
    \/ SpuriousDoctor
    \/ \E i \in DOMAIN visitor : SpuriousVisitor(i)
    \/ Terminated

\* One thread for every visitor at most.
Thread == UNION {DOMAIN f : f \in Files}

Fairness ==
    /\ WF_vars(MainSteps)
    /\ WF_vars(DoctorSteps)
    /\ \A i \in Thread : WF_vars(i \in DOMAIN visitor /\ VisitorSteps(i))

Spec == Init /\ [][Next]_vars /\ Fairness

-----------------------------------------------------------------------------
(* Properties                                                              *)

\* The types, the flags among them; no more visitors wait than are let in.
TypeOK ==
    /\ E \in Seq(Event)
    /\ cnt \in [Kind -> Nat] /\ curr \in [Kind -> Nat]
    /\ wait \in [Kind -> Nat] /\ \A k \in Limited : wait[k] <= Quota[k]
    /\ done \in [Kind -> {0, 1}]
    /\ curr_time \in Int
    /\ doc_free \in {0, 1} /\ doc_session_end \in {0, 1} /\ doc_state \in {-1, 0, 1}
    /\ Q \in [Kind -> Seq(Event)] /\ tids \in [Kind -> Seq(Thread)]
    /\ param \in [Kind -> [e : Event, id : Nat]] /\ event \in Event
    /\ main \in {"pop", "leave", "join_doctor", "create", "initialising", "asleep_init",
                 "service", "engage", "await", "asleep_done", "call", "join_visitor", "exit"}
    /\ doctor \in {"lock", "asleep", "report", "gone"}
    /\ visitor \in Seq([kind : Kind, pc : {"start", "init", "turn", "asleep", "gone"},
                        mine : [e : Event, id : Nat]])

\* event.c: the event that nextevent returns comes before every other in the
\* queue by the clock, and among those of its time by the order R, P, S, D.
EarliestNext ==
    \A i \in DOMAIN E :
        \/ NextEvent(E) = E[i]
        \/ Before(NextEvent(E), E[i])

\* With queues and flags that are what the code takes them for.
QueueInOrder == TypeOK /\ EarliestNext

\* main and the doctor take the two locks in opposite orders (session.c:229
\* and 239, 83 and 89): they never hold one each and ask for the other.
LocksNeverCross == ~(main = "leave" /\ doctor = "report")

\* The thread that main has noted down for token n of a kind has read that
\* token and that arrival from main's stack, though main has used the place
\* again: it is this thread that answers when n is called (session.c:417).
OwnToken ==
    \A k \in Kind : \A n \in DOMAIN tids[k] :
        LET v == visitor[tids[k][n]]
        IN  v.kind = k /\ v.mine = [e |-> Q[k][n], id |-> n]

\* LA6: the printing is sorted with respect to time, whichever thread prints;
\* the doctor's line announces each visitor's, and nothing follows his leaving
\* but visitors who are turned away.
TranscriptInOrder ==
    \A j \in 2..Len(transcript) :
        LET before == transcript[j - 1]
            line == transcript[j]
        IN  /\ before.at <= line.at
            /\ line.says = "in_chamber" => before.says = "next_visitor" /\ before.at = line.at
            /\ before.says = "next_visitor" => line.says = "in_chamber"
            /\ line.says \in {"next_visitor", "in_chamber"} =>
                   \A i \in 1..j : transcript[i].who = "D" => transcript[i].says # "leaves"

\* LA6, reporter > patient > sales rep: a visitor whom one of a lower kind
\* went before came only after that one had gone in, and within a kind the
\* visitors go in as they came.
HigherFirst ==
    \A i, j \in DOMAIN transcript :
        LET first == transcript[i]
            second == transcript[j]
        IN  i < j /\ first.says = "in_chamber" /\ second.says = "in_chamber" =>
            /\ <<second.who, first.who>> \in {<<"R", "P">>, <<"R", "S">>, <<"P", "S">>} =>
                   Q[second.who][second.id].time > first.at
            /\ second.who = first.who => first.id < second.id

\* The visitors are served in their order, and the transcript shows it.
ServedInOrder == TranscriptInOrder /\ HigherFirst

\* The visits, as the visitors print them, and all who may come.
Visit(line) == [kind |-> line.who, id |-> line.id, from |-> line.at, until |-> line.until]

Visited == {j \in DOMAIN transcript : transcript[j].says = "in_chamber"}

Paid == {Visit(transcript[j]) : j \in Visited}

Schedule == UNION {{f[i] : i \in DOMAIN f} : f \in Files}

\* Seen from outside this is a doctor who sees one visitor after another.
House == INSTANCE Consultation WITH
    Arrival <- Schedule, admitted <- Q, visits <- Paid, over <- doc_session_end = 1

\* The session implements Consultation: all who are let in are attended to
\* in turn, for as long as they ask, without a gap while anybody waits, and
\* the doctor leaves once the quotas are attended and no reporter waits.
KeepsHouse == House!Spec

\* The session ends with the doctor gone and nobody left in the waiting room:
\* no signal is lost, and no thread waits for another that waits for it.
SessionEnds ==
    <>(/\ main = "exit"
       /\ doctor = "gone"
       /\ \A i \in DOMAIN visitor : visitor[i].pc = "gone"
       /\ \A k \in Kind : wait[k] = 0)
=============================================================================
