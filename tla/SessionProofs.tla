--------------------------- MODULE SessionProofs ---------------------------
(***************************************************************************)
(* Proofs about Session, for every quota and every set of schedules.       *)
(***************************************************************************)
EXTENDS Session, WellFoundedInduction, TLAPS

-----------------------------------------------------------------------------
(* The two locks                                                           *)

\* doctor() holds doc_mutex and asks for the mutex only while main is at
\* rest: it waits for him to take a visitor, or it waits for his end.
LocksInv ==
    /\ doc_state \in {-1, 0, 1}
    /\ doc_state = 1 => main \in {"await", "asleep_done"}
    /\ doc_state = -1 /\ doctor # "gone" => main = "join_doctor"
    /\ doctor = "report" => doc_state # 0

\* Every step of main, the doctor and the visitors keeps LocksInv.
LEMMA LocksStep == LocksInv /\ [Next]_vars => LocksInv'
<1> SUFFICES ASSUME LocksInv, [Next]_vars
             PROVE  LocksInv'
    OBVIOUS
<1> USE DEF LocksInv
<1>1. CASE DoctorDone
    BY <1>1 DEF DoctorDone, Pops
<1>2. CASE EndSession
    BY <1>2 DEF EndSession, DocMutexFree, SignalDoctor
<1>3. CASE JoinDoctor
    BY <1>3 DEF JoinDoctor
<1>4. CASE Arrive
    BY <1>4 DEF Arrive, Pops
<1>5. CASE CreateVisitor
    BY <1>5 DEF CreateVisitor
<1>6. CASE AwaitInit
    BY <1>6 DEF AwaitInit
<1>7. ASSUME NEW k \in Kind, Serve(k)
      PROVE  LocksInv'
    BY <1>7 DEF Serve
<1>8. CASE NoService
    BY <1>8 DEF NoService
<1>9. CASE EngageDoctor
    BY <1>9 DEF EngageDoctor, DocMutexFree, SignalDoctor
<1>10. CASE AwaitDoctor
    BY <1>10 DEF AwaitDoctor
<1>11. CASE CallVisitor
    BY <1>11 DEF CallVisitor
<1>12. CASE JoinVisitor
    BY <1>12 DEF JoinVisitor
<1>13. CASE Exit
    BY <1>13 DEF Exit
<1>14. CASE DoctorLocks
    BY <1>14 DEF DoctorLocks
<1>15. CASE DoctorCalls
    BY <1>15 DEF DoctorCalls
<1>16. CASE DoctorLeaves
    BY <1>16 DEF DoctorLeaves
<1>17. ASSUME NEW i \in DOMAIN visitor, VisitorSteps(i)
       PROVE  LocksInv'
    BY <1>17 DEF VisitorSteps, CopyParam, SignalInit, AwaitTurn, EnterChamber
<1>18. CASE SpuriousMain
    BY <1>18 DEF SpuriousMain
<1>19. CASE SpuriousDoctor
    BY <1>19 DEF SpuriousDoctor
<1>20. ASSUME NEW i \in DOMAIN visitor, SpuriousVisitor(i)
       PROVE  LocksInv'
    BY <1>20 DEF SpuriousVisitor
<1>21. CASE UNCHANGED vars
    BY <1>21 DEF vars
<1>22. QED
    BY <1>1, <1>2, <1>3, <1>4, <1>5, <1>6, <1>7, <1>8, <1>9, <1>10, <1>11, <1>12,
       <1>13, <1>14, <1>15, <1>16, <1>17, <1>18, <1>19, <1>20, <1>21
    DEF Next, MainSteps, DoctorSteps, Terminated

\* Though main takes the mutex and then doc_mutex (session.c:229, 239) and the
\* doctor doc_mutex and then the mutex (83, 89), neither ever waits for the
\* lock that the other keeps.
THEOREM NoLockCycle == Spec => []LocksNeverCross
<1>1. Init => LocksInv
    BY DEF Init, LocksInv
<1>2. LocksInv => LocksNeverCross
    BY DEF LocksInv, LocksNeverCross
<1>3. QED
    BY <1>1, <1>2, LocksStep, PTL DEF Spec

-----------------------------------------------------------------------------
(* The visitors' tokens.  S is any set that holds the events in the        *)
(* variables; what the heap of event.c does to them plays no part.         *)

Place == {"start", "init", "turn", "asleep", "gone"}
Card(S) == [e : S, id : Nat]
Body(S) == [kind : Kind, pc : Place, mine : Card(S)]

Typed(S) ==
    /\ cnt \in [Kind -> Nat]
    /\ done \in [Kind -> {0, 1}]
    /\ doc_session_end \in {0, 1}
    /\ Q \in [Kind -> Seq(S)]
    /\ tids \in [Kind -> Seq(Nat)]
    /\ param \in [Kind -> Card(S)]
    /\ visitor \in Seq(Body(S))
    /\ event \in S

\* main is between the arrival and the end of the handshake, or in it.
LettingIn == main \in {"create", "initialising", "asleep_init"}
Handshake == main \in {"initialising", "asleep_init"}

\* A further visitor of kind k would be let in.
Open(k) == doc_session_end = 0 /\ (k \in Limited => cnt[k] < Quota[k])

\* The next token is the next free place of the arrays.
Counted ==
    /\ \A k \in Kind : Len(Q[k]) = Len(tids[k])
    /\ LettingIn => event.type \in Kind /\ cnt[event.type] = Len(tids[event.type]) + 1
    /\ \A k \in Kind : Open(k) /\ ~(LettingIn /\ k = event.type) => cnt[k] = Len(tids[k])

\* Only the last thread can be new, and then main waits for it and keeps
\* its parameter.
NewThread ==
    /\ \A i \in DOMAIN visitor :
           visitor[i].pc \in {"start", "init"} =>
               i = Len(visitor) /\ Handshake /\ done[event.type] = 0
    /\ main = "create" => done[event.type] = 0
    /\ Handshake =>
           /\ Len(visitor) > 0
           /\ visitor[Len(visitor)].kind = event.type
           /\ param[event.type] = [e |-> event, id |-> cnt[event.type]]
           /\ visitor[Len(visitor)].pc # "start" =>
                  visitor[Len(visitor)].mine = param[event.type]

Tokens ==
    \A k \in Kind : \A n \in DOMAIN tids[k] :
        /\ tids[k][n] \in DOMAIN visitor
        /\ Handshake => tids[k][n] # Len(visitor)
        /\ visitor[tids[k][n]].kind = k
        /\ visitor[tids[k][n]].mine = [e |-> Q[k][n], id |-> n]

TokenInv == (\E S : Typed(S)) /\ Counted /\ NewThread /\ Tokens

LEMMA TokenInit == Init => TokenInv
<1> SUFFICES ASSUME Init
             PROVE  TokenInv
    OBVIOUS
<1>1. Typed({NoEvent})
    BY DEF Init, Typed, Card, Body, Kind
<1>2. Counted /\ NewThread /\ Tokens
    BY DEF Init, Counted, NewThread, Tokens, LettingIn, Handshake, Open, Kind
<1>3. QED
    BY <1>1, <1>2 DEF TokenInv

\* A step in which the threads that have read their parameter move among the
\* later places, and main neither begins nor ends to let a visitor in.
Rest ==
    /\ UNCHANGED <<cnt, done, Q, tids, param>>
    /\ doc_session_end' \in {doc_session_end, 1}
    /\ \/ ~LettingIn /\ ~LettingIn'
       \/ Handshake /\ Handshake' /\ event' = event
       \/ main' = main /\ event' = event
    /\ Len(visitor') = Len(visitor)
    /\ \A i \in DOMAIN visitor :
           /\ visitor'[i].kind = visitor[i].kind
           /\ visitor'[i].mine = visitor[i].mine
           /\ \/ visitor'[i].pc = visitor[i].pc
              \/ /\ visitor[i].pc \notin {"start", "init"}
                 /\ visitor'[i].pc \notin {"start", "init"}

LEMMA RestStep ==
    ASSUME TokenInv, Rest, \E S : Typed(S)'
    PROVE  TokenInv'
<1> PICK S : Typed(S)
    BY DEF TokenInv
<1> PICK T : Typed(T)'
    OBVIOUS
<1>1. DOMAIN visitor' = DOMAIN visitor /\ DOMAIN visitor = 1..Len(visitor) /\ Len(visitor) \in Nat
    BY DEF Typed, Rest
<1>2. Counted'
    BY DEF TokenInv, Counted, Rest, LettingIn, Handshake, Open
<1>3. NewThread'
    BY <1>1 DEF TokenInv, NewThread, Rest, LettingIn, Handshake
<1>4. Tokens'
    BY <1>1 DEF TokenInv, Tokens, Rest, LettingIn, Handshake
<1>5. QED
    BY <1>2, <1>3, <1>4 DEF TokenInv

\* Any set of events may grow.
LEMMA Grows ==
    ASSUME NEW S, NEW T, S \subseteq T, Typed(S)
    PROVE  Typed(T)
<1>1. Card(S) \subseteq Card(T)
    BY DEF Card
<1>2. Body(S) \subseteq Body(T)
    BY <1>1 DEF Body
<1>3. Q \in [Kind -> Seq(T)]
    BY DEF Typed
<1>4. param \in [Kind -> Card(T)]
    BY <1>1 DEF Typed
<1>5. visitor \in Seq(Body(T))
    BY <1>2 DEF Typed
<1>6. QED
    BY <1>3, <1>4, <1>5 DEF Typed

\* The steps, each with any set S of events that holds the new one too.
\* Those that change none of these variables but event.
LEMMA QuietStep ==
    ASSUME NEW S, Typed(S), event' \in S, TokenInv,
           UNCHANGED <<cnt, done, Q, tids, param, visitor>>,
           doc_session_end' \in {doc_session_end, 1},
           \/ ~LettingIn /\ ~LettingIn'
           \/ Handshake /\ Handshake' /\ event' = event
           \/ main' = main /\ event' = event
    PROVE  TokenInv' /\ Typed(S)'
<1>1. Typed(S)'
    BY DEF Typed
<1>2. Rest
    BY DEF Rest
<1>3. QED
    BY <1>1, <1>2, RestStep

\* One thread moves from one of the later places to another.
LEMMA MoveStep ==
    ASSUME NEW S, Typed(S), TokenInv,
           NEW i \in DOMAIN visitor, NEW p \in {"turn", "asleep", "gone"},
           visitor[i].pc \in {"turn", "asleep"},
           visitor' = [visitor EXCEPT ![i].pc = p],
           UNCHANGED <<cnt, done, Q, tids, param, event, main, doc_session_end>>
    PROVE  TokenInv' /\ Typed(S)'
<1>1. visitor \in Seq(Body(S)) /\ p \in Place
    BY DEF Typed, Place
<1>2. visitor[i] \in Body(S)
    BY <1>1
<1> DEFINE moved == [visitor[i] EXCEPT !.pc = p]
<1>3. /\ moved \in Body(S)
      /\ moved.kind = visitor[i].kind
      /\ moved.mine = visitor[i].mine
      /\ moved.pc = p
    BY <1>1, <1>2 DEF Body
<1>4. visitor' = [visitor EXCEPT ![i] = moved]
    OBVIOUS
<1> HIDE DEF moved
<1>5. visitor' \in Seq(Body(S)) /\ Len(visitor') = Len(visitor)
    BY <1>1, <1>3, <1>4
<1>6. \A j \in DOMAIN visitor : visitor'[j] = IF j = i THEN moved ELSE visitor[j]
    BY <1>1, <1>4
<1>7. Typed(S)'
    BY <1>5 DEF Typed
<1>8. Rest
    BY <1>3, <1>5, <1>6 DEF Rest, LettingIn, Handshake
<1>9. QED
    BY <1>7, <1>8, RestStep

\* A broadcast moves some threads from sleep to their next try.
LEMMA CallStep ==
    ASSUME NEW S, Typed(S), TokenInv, CallVisitor
    PROVE  TokenInv' /\ Typed(S)'
<1> DEFINE woken(v) == v.kind = event.type /\ v.pc = "asleep"
           up(v) == [v EXCEPT !.pc = "turn"]
<1>1. visitor' = [i \in DOMAIN visitor |-> IF woken(visitor[i]) THEN up(visitor[i]) ELSE visitor[i]]
    BY DEF CallVisitor
<1>2. visitor \in Seq(Body(S))
    BY DEF Typed
<1>3. ASSUME NEW v \in Body(S)
      PROVE  up(v) \in Body(S) /\ up(v).kind = v.kind /\ up(v).mine = v.mine /\ up(v).pc = "turn"
    BY DEF Body, Place
<1> HIDE DEF up
<1>4. \A i \in DOMAIN visitor : visitor[i] \in Body(S)
    BY <1>2
<1>5. visitor' \in Seq(Body(S)) /\ Len(visitor') = Len(visitor)
    BY <1>1, <1>2, <1>3, <1>4
<1>6. Typed(S)'
    BY <1>5 DEF Typed, CallVisitor, local
<1>7. Rest
    BY <1>1, <1>3, <1>4, <1>5 DEF Rest, CallVisitor, local, LettingIn, Handshake
<1>8. QED
    BY <1>6, <1>7, RestStep

\* An arrival takes the next number, and the next place unless it leaves.
LEMMA ArriveStep ==
    ASSUME NEW S, Typed(S), event' \in S, TokenInv, Arrive
    PROVE  TokenInv' /\ Typed(S)'
<1> DEFINE k == NextEvent(E).type
<1>2. /\ k \in Kind /\ main = "pop"
      /\ cnt' = [cnt EXCEPT ![k] = cnt[k] + 1]
      /\ UNCHANGED <<Q, tids, param, visitor, doc_session_end>>
    BY DEF Arrive, Pops
<1> HIDE DEF k
<1>2a. cnt' \in [Kind -> Nat] /\ cnt'[k] = cnt[k] + 1 /\ \A j \in Kind \ {k} : cnt'[j] = cnt[j]
    BY <1>2 DEF Typed
<1>3. CASE main' = "pop" /\ done' = done
              /\ (doc_session_end = 1 \/ (k \in Limited /\ cnt[k] + 1 > Quota[k]))
  <2>1. Typed(S)'
    BY <1>2, <1>2a, <1>3 DEF Typed
  <2>2. Counted'
    BY <1>2, <1>2a, <1>3, QuotaAssumption DEF TokenInv, Counted, Typed, LettingIn, Open, Kind, Limited
  <2>3. NewThread' /\ Tokens'
    BY <1>2, <1>3 DEF TokenInv, NewThread, Tokens, Handshake
  <2>4. QED
    BY <2>1, <2>2, <2>3 DEF TokenInv
<1>4. CASE /\ main' = "create" /\ done' = [done EXCEPT ![k] = 0] /\ event'.type = k
           /\ ~(doc_session_end = 1 \/ (k \in Limited /\ cnt[k] + 1 > Quota[k]))
  <2>1. Typed(S)'
    BY <1>2, <1>2a, <1>4 DEF Typed
  <2>2. Counted'
    <3>1. Open(k) /\ ~LettingIn
      BY <1>2, <1>4, QuotaAssumption DEF Typed, Open, LettingIn, Limited
    <3>2. LettingIn' /\ event'.type = k
      BY <1>4 DEF LettingIn
    <3>3. cnt'[k] = Len(tids[k]) + 1
      BY <1>2, <1>2a, <3>1 DEF TokenInv, Counted
    <3>4. \A j \in Kind \ {k} : Open(j)' => Open(j)
      BY <1>2, <1>2a DEF Open
    <3>5. QED
      BY <1>2, <1>2a, <3>1, <3>2, <3>3, <3>4 DEF TokenInv, Counted
  <2>3. NewThread' /\ Tokens'
    BY <1>2, <1>4 DEF TokenInv, NewThread, Tokens, Typed, Handshake
  <2>4. QED
    BY <2>1, <2>2, <2>3 DEF TokenInv
<1>5. QED
    BY <1>2, <1>3, <1>4 DEF Arrive, k

\* The new thread is the last one, and the parameter is there for it.
LEMMA CreateStep ==
    ASSUME NEW S, Typed(S), TokenInv, CreateVisitor
    PROVE  TokenInv' /\ Typed(S)'
<1> DEFINE k == event.type
           card == [e |-> event, id |-> cnt[k]]
           new == [kind |-> k, pc |-> "start", mine |-> param[k]]
<1>1. k \in Kind /\ main = "create"
    BY DEF TokenInv, Counted, CreateVisitor, LettingIn
<1>2. /\ param' = [param EXCEPT ![k] = card]
      /\ visitor' = Append(visitor, new)
      /\ main' = "initialising"
      /\ UNCHANGED <<cnt, done, Q, tids, event, doc_session_end>>
    BY DEF CreateVisitor, shared
<1>3. card \in Card(S) /\ new \in Body(S) /\ new.kind = k /\ new.pc = "start"
    BY <1>1 DEF Typed, Card, Body, Place
<1> HIDE DEF card, new
<1>4. /\ visitor' \in Seq(Body(S))
      /\ Len(visitor') = Len(visitor) + 1
      /\ Len(visitor) \in Nat
      /\ DOMAIN visitor = 1..Len(visitor)
      /\ DOMAIN visitor' = 1..(Len(visitor) + 1)
      /\ \A i \in DOMAIN visitor : visitor'[i] = visitor[i]
      /\ visitor'[Len(visitor) + 1] = new
    BY <1>2, <1>3 DEF Typed
<1>5. param' \in [Kind -> Card(S)] /\ param'[k] = card
    BY <1>1, <1>2, <1>3 DEF Typed
<1>6. Typed(S)'
    BY <1>2, <1>4, <1>5 DEF Typed
<1>7. Counted'
    BY <1>1, <1>2 DEF TokenInv, Counted, LettingIn, Open
<1>8. NewThread'
    BY <1>1, <1>2, <1>3, <1>4, <1>5 DEF TokenInv, NewThread, Handshake, card
<1>9. Tokens'
    BY <1>1, <1>2, <1>4 DEF TokenInv, Tokens, Handshake
<1>10. QED
    BY <1>6, <1>7, <1>8, <1>9 DEF TokenInv

\* main notes the thread down only once it has its parameter.
LEMMA AwaitInitStep ==
    ASSUME NEW S, Typed(S), TokenInv, AwaitInit
    PROVE  TokenInv' /\ Typed(S)'
<1> DEFINE k == event.type
           last == Len(visitor)
<1>1. /\ main = "initialising"
      /\ UNCHANGED <<cnt, param, event, visitor, doc_session_end>>
    BY DEF AwaitInit
<1>2. k \in Kind /\ cnt[k] = Len(tids[k]) + 1
    BY <1>1 DEF TokenInv, Counted, LettingIn
<1>3. CASE main' = "asleep_init" /\ UNCHANGED <<done, Q, tids>>
    BY <1>1, <1>3, QuietStep DEF Handshake, Typed
<1>4. CASE /\ main' = "service" /\ done[k] # 0
           /\ done' = [done EXCEPT ![k] = 0]
           /\ Q' = [Q EXCEPT ![k] = Append(@, event)]
           /\ tids' = [tids EXCEPT ![k] = Append(@, last)]
  <2>1. /\ last \in DOMAIN visitor
        /\ visitor[last].kind = k
        /\ visitor[last].mine = [e |-> event, id |-> cnt[k]]
        /\ \A i \in DOMAIN visitor : visitor[i].pc \notin {"start", "init"}
    BY <1>1, <1>4 DEF TokenInv, NewThread, Handshake, Typed
  <2>2. /\ Q' \in [Kind -> Seq(S)]
        /\ tids' \in [Kind -> Seq(Nat)]
        /\ Q'[k] = Append(Q[k], event)
        /\ tids'[k] = Append(tids[k], last)
        /\ \A j \in Kind \ {k} : Q'[j] = Q[j] /\ tids'[j] = tids[j]
    BY <1>2, <1>4, <2>1 DEF Typed
  <2>3. Typed(S)'
    BY <1>1, <1>4, <2>2 DEF Typed
  <2>4. /\ Q[k] \in Seq(S) /\ tids[k] \in Seq(Nat) /\ Len(Q[k]) = Len(tids[k])
    BY <1>2 DEF Typed, TokenInv, Counted
  <2>5. /\ Len(Q'[k]) = Len(tids[k]) + 1
        /\ Len(tids'[k]) = Len(tids[k]) + 1
        /\ DOMAIN tids'[k] = DOMAIN tids[k] \cup {Len(tids[k]) + 1}
        /\ tids'[k][Len(tids[k]) + 1] = last
        /\ Q'[k][Len(tids[k]) + 1] = event
        /\ \A n \in DOMAIN tids[k] : tids'[k][n] = tids[k][n] /\ Q'[k][n] = Q[k][n]
    <3>1. last \in Nat /\ event \in S
      BY DEF Typed
    <3> HIDE DEF k, last
    <3>2. /\ Len(tids'[k]) = Len(tids[k]) + 1
          /\ DOMAIN tids'[k] = DOMAIN tids[k] \cup {Len(tids[k]) + 1}
          /\ tids'[k][Len(tids[k]) + 1] = last
          /\ \A n \in DOMAIN tids[k] : tids'[k][n] = tids[k][n]
      BY <2>2, <2>4, <3>1
    <3>3. /\ Len(Q'[k]) = Len(Q[k]) + 1 /\ DOMAIN Q[k] = DOMAIN tids[k]
          /\ Q'[k][Len(Q[k]) + 1] = event
          /\ \A n \in DOMAIN Q[k] : Q'[k][n] = Q[k][n]
      BY <2>2, <2>4, <3>1
    <3> QED
      BY <2>4, <3>2, <3>3
  <2>6. Counted'
    BY <1>1, <1>2, <1>4, <2>2, <2>5 DEF TokenInv, Counted, LettingIn, Open
  <2>7. NewThread'
    BY <1>1, <1>4, <2>1 DEF NewThread, Handshake
  <2>8. Tokens'
    <3>0. visitor' = visitor /\ ~Handshake'
        BY <1>1, <1>4 DEF Handshake
    <3> SUFFICES ASSUME NEW j \in Kind, NEW n \in DOMAIN tids'[j]
                 PROVE  /\ tids'[j][n] \in DOMAIN visitor'
                        /\ Handshake' => tids'[j][n] # Len(visitor')
                        /\ visitor'[tids'[j][n]].kind = j
                        /\ visitor'[tids'[j][n]].mine = [e |-> Q'[j][n], id |-> n]
        BY DEF Tokens
    <3>1. CASE j = k /\ n = Len(tids[k]) + 1
        BY <1>2, <2>1, <2>5, <3>0, <3>1
    <3>2. CASE n \in DOMAIN tids[j] /\ tids'[j][n] = tids[j][n] /\ Q'[j][n] = Q[j][n]
        BY <3>0, <3>2 DEF TokenInv, Tokens
    <3>3. CASE j # k
        BY <2>2, <3>2, <3>3
    <3>4. CASE j = k
        BY <2>5, <3>1, <3>2, <3>4
    <3>5. QED
        BY <3>3, <3>4
  <2>9. QED
    BY <2>3, <2>6, <2>7, <2>8 DEF TokenInv
<1>5. QED
    BY <1>3, <1>4 DEF AwaitInit

\* The thread reads the parameter while main keeps it.
LEMMA CopyStep ==
    ASSUME NEW S, Typed(S), TokenInv, NEW i \in DOMAIN visitor, CopyParam(i)
    PROVE  TokenInv' /\ Typed(S)'
<1> DEFINE k == visitor[i].kind
           read == [visitor[i] EXCEPT !.pc = "init", !.mine = param[k]]
<1>1. /\ visitor[i].pc = "start"
      /\ visitor' = [visitor EXCEPT ![i] = read]
      /\ UNCHANGED <<cnt, done, Q, tids, param, event, main, doc_session_end>>
    BY DEF CopyParam, shared, local
<1>2. visitor \in Seq(Body(S)) /\ visitor[i] \in Body(S) /\ k \in Kind /\ param[k] \in Card(S)
  <2>1. visitor \in Seq(Body(S)) /\ visitor[i] \in Body(S)
    BY DEF Typed
  <2>2. QED
    BY <2>1 DEF Typed, Body
<1>3. /\ read \in Body(S)
      /\ read.kind = k /\ read.pc = "init" /\ read.mine = param[k]
    BY <1>2 DEF Body, Place
<1> HIDE DEF read
<1>4. /\ visitor' \in Seq(Body(S))
      /\ Len(visitor') = Len(visitor)
      /\ DOMAIN visitor' = DOMAIN visitor
      /\ \A j \in DOMAIN visitor : visitor'[j] = IF j = i THEN read ELSE visitor[j]
    BY <1>1, <1>2, <1>3
<1>5. i = Len(visitor) /\ Handshake /\ done[event.type] = 0 /\ k = event.type
    BY <1>1 DEF TokenInv, NewThread
<1>6. Typed(S)'
    BY <1>1, <1>4 DEF Typed
<1>7. Counted'
    BY <1>1 DEF TokenInv, Counted, LettingIn, Open
<1>8. NewThread'
    BY <1>1, <1>3, <1>4, <1>5 DEF TokenInv, NewThread, Handshake
<1>9. Tokens'
    BY <1>1, <1>4, <1>5 DEF TokenInv, Tokens, Handshake
<1>10. QED
    BY <1>6, <1>7, <1>8, <1>9 DEF TokenInv

\* The thread reports for the kind that main waits for.
LEMMA SignalStep ==
    ASSUME NEW S, Typed(S), TokenInv, NEW i \in DOMAIN visitor, SignalInit(i)
    PROVE  TokenInv' /\ Typed(S)'
<1> DEFINE k == visitor[i].kind
           told == [visitor[i] EXCEPT !.pc = "turn"]
<1>1. /\ visitor[i].pc = "init"
      /\ visitor' = [visitor EXCEPT ![i] = told]
      /\ done' = [done EXCEPT ![k] = 1]
      /\ main' \in {main, "initialising"}
      /\ main' = main \/ main = "asleep_init"
      /\ UNCHANGED <<cnt, Q, tids, param, event, doc_session_end>>
    BY DEF SignalInit, Steps, local
<1>2. visitor \in Seq(Body(S)) /\ visitor[i] \in Body(S) /\ k \in Kind
  <2>1. visitor \in Seq(Body(S)) /\ visitor[i] \in Body(S)
    BY DEF Typed
  <2>2. QED
    BY <2>1 DEF Body
<1>3. told \in Body(S) /\ told.kind = k /\ told.pc = "turn" /\ told.mine = visitor[i].mine
    BY <1>2 DEF Body, Place
<1> HIDE DEF told
<1>4. /\ visitor' \in Seq(Body(S))
      /\ Len(visitor') = Len(visitor)
      /\ DOMAIN visitor' = DOMAIN visitor
      /\ \A j \in DOMAIN visitor : visitor'[j] = IF j = i THEN told ELSE visitor[j]
    BY <1>1, <1>2, <1>3
<1>5. i = Len(visitor) /\ Handshake /\ Handshake' /\ k = event.type
    BY <1>1 DEF TokenInv, NewThread, Handshake
<1>6. Typed(S)'
    BY <1>1, <1>2, <1>4 DEF Typed
<1>7. Counted'
    BY <1>1, <1>5 DEF TokenInv, Counted, LettingIn, Handshake, Open
<1>8. NewThread'
  <2>1. main' # "create"
    BY <1>5 DEF Handshake
  <2>2. QED
    BY <1>1, <1>3, <1>4, <1>5, <2>1 DEF TokenInv, NewThread
<1>9. Tokens'
    BY <1>1, <1>3, <1>4, <1>5 DEF TokenInv, Tokens
<1>10. QED
    BY <1>6, <1>7, <1>8, <1>9 DEF TokenInv

LEMMA TypedStep ==
    ASSUME NEW S, Typed(S), event' \in S, TokenInv, [Next]_vars
    PROVE  TokenInv' /\ Typed(S)'
<1> USE DEF LettingIn, Handshake
<1>1. CASE DoctorDone
    BY <1>1, QuietStep DEF DoctorDone, Pops, local
<1>2. CASE EndSession
    BY <1>2, QuietStep DEF EndSession, local
<1>3. CASE JoinDoctor
    BY <1>3, QuietStep DEF JoinDoctor, shared, local
<1>4. ASSUME NEW k \in Kind, Serve(k)
      PROVE  TokenInv' /\ Typed(S)'
    BY <1>4, QuietStep DEF Serve
<1>5. CASE NoService
    BY <1>5, QuietStep DEF NoService, shared, local
<1>6. CASE EngageDoctor
    BY <1>6, QuietStep DEF EngageDoctor, shared, local
<1>7. CASE AwaitDoctor
    BY <1>7, QuietStep DEF AwaitDoctor, shared, local
<1>8. CASE JoinVisitor
    BY <1>8, QuietStep DEF JoinVisitor, shared, local
<1>9. CASE Exit
    BY <1>9, QuietStep DEF Exit, shared, local
<1>10. CASE DoctorLocks
    BY <1>10, QuietStep DEF DoctorLocks, shared, local
<1>11. CASE DoctorCalls
    BY <1>11, QuietStep DEF DoctorCalls, local
<1>12. CASE DoctorLeaves
    BY <1>12, QuietStep DEF DoctorLeaves, local
<1>13. CASE SpuriousMain
    BY <1>13, QuietStep DEF SpuriousMain, shared, local
<1>14. CASE SpuriousDoctor
    BY <1>14, QuietStep DEF SpuriousDoctor, shared, local
<1>15. ASSUME NEW i \in DOMAIN visitor, AwaitTurn(i)
       PROVE  TokenInv' /\ Typed(S)'
    BY <1>15, MoveStep DEF AwaitTurn, Steps, shared, local
<1>16. ASSUME NEW i \in DOMAIN visitor, EnterChamber(i)
       PROVE  TokenInv' /\ Typed(S)'
    BY <1>16, MoveStep DEF EnterChamber, Steps, local
<1>17. ASSUME NEW i \in DOMAIN visitor, SpuriousVisitor(i)
       PROVE  TokenInv' /\ Typed(S)'
    BY <1>17, MoveStep DEF SpuriousVisitor, Steps, shared, local
<1>18. CASE UNCHANGED vars
    BY <1>18, QuietStep DEF vars, shared, local
<1>19. QED
    BY <1>1, <1>2, <1>3, <1>4, <1>5, <1>6, <1>7, <1>8, <1>9, <1>10, <1>11, <1>12, <1>13,
       <1>14, <1>15, <1>16, <1>17, <1>18, ArriveStep, CreateStep, AwaitInitStep, CallStep,
       CopyStep, SignalStep
    DEF Next, MainSteps, DoctorSteps, VisitorSteps, Terminated

LEMMA TokenStep == TokenInv /\ [Next]_vars => TokenInv'
<1> SUFFICES ASSUME TokenInv, [Next]_vars
             PROVE  TokenInv'
    OBVIOUS
<1> PICK S : Typed(S)
    BY DEF TokenInv
<1> PICK T : T = S \cup {event'}
    OBVIOUS
<1>1. Typed(T) /\ event' \in T
    BY Grows
<1>2. QED
    BY <1>1, TypedStep

\* Whatever the threads' speed, each visitor's thread holds the token and the
\* arrival that main has noted it down for, though both pass through one place
\* on main's stack (session.c:278-290): main joins the thread it has called.
THEOREM TokensOwn == Spec => []OwnToken
<1>1. TokenInv => OwnToken
    BY DEF TokenInv, Tokens, OwnToken
<1>2. QED
    BY <1>1, TokenInit, TokenStep, PTL DEF Spec

-----------------------------------------------------------------------------
(* The heap of event.c                                                    *)

LEMMA LeastNat ==
    ASSUME NEW S \in SUBSET Nat, S # {}
    PROVE  \E n \in S : \A m \in S : n <= m
<1>1. PICK n \in S : \A m \in S : ~ (<<m, n>> \in OpToRel(<, Nat))
  BY NatLessThanWellFounded, WFMin
<1>2. ASSUME NEW m \in S, m < n
      PROVE  FALSE
  <2>1. <<m, n>> \in OpToRel(<, Nat)
    BY <1>2 DEF OpToRel
  <2> QED
    BY <1>1, <2>1
<1> QED
  BY <1>2

\* A loop that runs from state to state, in D, has a result in every state:
\* what end says of the states where it stops, if it reaches one.
HasResults(D, stop, next, end) ==
    \E R : \E f \in [D -> R] :
        \A s \in D :
            /\ s \in stop => f[s] = end[s]
            /\ s \notin stop => f[s] = f[next[s]]

LEMMA LoopExists ==
    ASSUME NEW D, NEW stop, NEW next \in [D -> D], NEW end
    PROVE  HasResults(D, stop, next, end)
<1> DEFINE closed == {A \in SUBSET D : \A y \in A \ stop : next[y] \in A}
           reach(s) == {x \in D : \A A \in closed : s \in A => x \in A}
           ends(s) == reach(s) \cap stop
           f == [s \in D |-> end[CHOOSE x : x \in ends(s)]]
<1>1. ASSUME NEW s \in D \cap stop
      PROVE  f[s] = end[s]
  <2>1. {s} \in closed
    OBVIOUS
  <2>2. ends(s) = {s}
    BY <2>1
  <2> HIDE DEF ends
  <2>3. f[s] = end[CHOOSE x : x \in {s}]
    BY <2>2
  <2>4. (CHOOSE x : x \in {s}) = s
    OBVIOUS
  <2> QED
    BY <2>3, <2>4
<1>2. ASSUME NEW s \in D \ stop
      PROVE  f[s] = f[next[s]]
  <2>1. next[s] \in D
    OBVIOUS
  <2>2. reach(next[s]) \subseteq reach(s)
    OBVIOUS
  <2>3. reach(s) \subseteq {s} \cup reach(next[s])
    <3> SUFFICES ASSUME NEW x \in reach(s), NEW A \in closed, next[s] \in A, x # s
                 PROVE  x \in A
      OBVIOUS
    <3>1. A \cup {s} \in closed
      OBVIOUS
    <3> QED
      BY <3>1
  <2>4. ends(s) = ends(next[s])
    BY <2>2, <2>3
  <2> HIDE DEF ends
  <2> QED
    BY <2>1, <2>4
<1> HIDE DEF f
<1>3. f \in [D -> {f[s] : s \in D}]
  BY DEF f
<1>4. \A s \in D : f[s] = IF s \in stop THEN end[s] ELSE f[next[s]]
  BY <1>1, <1>2
<1> QED
  BY <1>3, <1>4 DEF HasResults

-----------------------------------------------------------------------------
(* The loops of the heap                                                   *)

Sinks(s) ==
    LET q == s.queue
        i == s.at
    IN  2 * i <= Len(q) /\ ~Before(q[i], q[FirstChild(q, i)])

Sunk(s) ==
    LET q == s.queue
        i == s.at
    IN  [queue |-> Swap(q, i, FirstChild(q, i)), at |-> FirstChild(q, i)]

Rises(s) ==
    LET q == s.queue
        i == s.at
    IN  i # 1 /\ ~Before(q[i \div 2], q[i])

Risen(s) == [queue |-> Swap(s.queue, s.at, s.at \div 2), at |-> s.at \div 2]

LEMMA SwapType ==
    ASSUME NEW q \in Seq(Event), NEW i \in 1 .. Len(q), NEW j \in 1 .. Len(q)
    PROVE  /\ Swap(q, i, j) \in Seq(Event)
           /\ Len(Swap(q, i, j)) = Len(q)
           /\ Swap(q, i, j)[i] = q[j]
           /\ Swap(q, i, j)[j] = q[i]
           /\ \A k \in 1 .. Len(q) : k # i /\ k # j => Swap(q, i, j)[k] = q[k]
<1>1. q[i] \in Event /\ q[j] \in Event
  OBVIOUS
<1> HIDE DEF Event
<1>2. Swap(q, i, j) = [[q EXCEPT ![i] = q[j]] EXCEPT ![j] = q[i]]
  BY DEF Swap
<1> QED
  BY <1>1, <1>2

LEMMA ChildIn ==
    ASSUME NEW q, NEW i \in Nat \ {0}, Len(q) \in Nat, 2 * i <= Len(q)
    PROVE  /\ FirstChild(q, i) \in i + 1 .. Len(q)
           /\ FirstChild(q, i) \in {2 * i, 2 * i + 1}
  BY DEF FirstChild

LEMMA SpotIs ==
    ASSUME NEW s \in Spot
    PROVE  s.queue \in Seq(Event) /\ Len(s.queue) \in Nat /\ s.at \in 1 .. Len(s.queue)
  BY DEF Spot

LEMMA SunkIn ==
    ASSUME NEW s \in Spot, Sinks(s)
    PROVE  Sunk(s) \in Spot
<1> DEFINE q == s.queue
           m == FirstChild(q, s.at)
<1>1. q \in Seq(Event) /\ Len(q) \in Nat /\ s.at \in 1 .. Len(q)
  BY SpotIs
<1>2. m \in 1 .. Len(q)
  BY <1>1, ChildIn DEF Sinks
<1>3. Swap(q, s.at, m) \in Seq(Event) /\ Len(Swap(q, s.at, m)) = Len(q)
  BY <1>1, <1>2, SwapType
<1> QED
  BY <1>2, <1>3 DEF Sunk, Spot

LEMMA RisenIn ==
    ASSUME NEW s \in Spot, Rises(s)
    PROVE  Risen(s) \in Spot
<1> DEFINE q == s.queue
           p == s.at \div 2
<1>1. q \in Seq(Event) /\ Len(q) \in Nat /\ s.at \in 1 .. Len(q)
  BY SpotIs
<1>2. p \in 1 .. Len(q)
  BY <1>1 DEF Rises
<1>3. Swap(q, s.at, p) \in Seq(Event) /\ Len(Swap(q, s.at, p)) = Len(q)
  BY <1>1, <1>2, SwapType
<1> QED
  BY <1>2, <1>3 DEF Risen, Spot

\* What the recursive definitions say: each has a solution.
LEMMA SiftDownIs ==
    ASSUME NEW s \in Spot
    PROVE  SiftDown[s] = IF Sinks(s) THEN SiftDown[Sunk(s)] ELSE s.queue
<1> DEFINE stop == {r \in Spot : ~Sinks(r)}
           next == [r \in Spot |-> IF Sinks(r) THEN Sunk(r) ELSE r]
           end == [r \in Spot |-> r.queue]
           stays(r) == 2 * r.at > Len(r.queue)
                          \/ Before(r.queue[r.at], r.queue[FirstChild(r.queue, r.at)])
           is(f) == f = [r \in Spot |-> IF stays(r)
                                        THEN r.queue
                                        ELSE f[[queue |-> Swap(r.queue, r.at, FirstChild(r.queue, r.at)),
                                                at |-> FirstChild(r.queue, r.at)]]]
<1>1. next \in [Spot -> Spot]
  BY SunkIn
<1>2. HasResults(Spot, stop, next, end)
  <2> HIDE DEF stop, next, end
  <2> QED
    BY <1>1, LoopExists
<1> HIDE DEF stop, next, end
<1>2b. PICK R : \E f \in [Spot -> R] :
           \A r \in Spot : /\ r \in stop => f[r] = end[r]
                           /\ r \notin stop => f[r] = f[next[r]]
  BY <1>2 DEF HasResults
<1>2a. PICK f \in [Spot -> R] :
           \A r \in Spot : /\ r \in stop => f[r] = end[r]
                           /\ r \notin stop => f[r] = f[next[r]]
  BY <1>2b
<1> USE DEF stop, next, end
<1>3. ASSUME NEW r \in Spot
      PROVE  stays(r) <=> ~Sinks(r)
  BY <1>3, SpotIs DEF Sinks
<1>4. ASSUME NEW r \in Spot
      PROVE  f[r] = IF stays(r) THEN r.queue ELSE f[Sunk(r)]
  <2>1. CASE stays(r)
    <3>1. r \in stop /\ end[r] = r.queue
      BY <1>3, <2>1
    <3> HIDE DEF stays, stop, next, end
    <3> QED
      BY <1>2a, <2>1, <3>1
  <2>2. CASE ~stays(r)
    <3>1. r \notin stop /\ next[r] = Sunk(r)
      BY <1>3, <2>2
    <3> HIDE DEF stays, stop, next, end
    <3> QED
      BY <1>2a, <2>2, <3>1
  <2> QED
    BY <2>1, <2>2
<1>5. is(f)
  <2> HIDE DEF stays
  <2> QED
    BY <1>2a, <1>4 DEF Sunk
<1>6. SiftDown = CHOOSE g : is(g)
  BY DEF SiftDown
<1>7. is(SiftDown)
  <2> HIDE DEF is
  <2> QED
    BY <1>5, <1>6
<1> HIDE DEF stays
<1> QED
  BY <1>3, <1>7 DEF Sunk

LEMMA SiftUpIs ==
    ASSUME NEW s \in Spot
    PROVE  SiftUp[s] = IF Rises(s) THEN SiftUp[Risen(s)] ELSE s.queue
<1> DEFINE stop == {r \in Spot : ~Rises(r)}
           next == [r \in Spot |-> IF Rises(r) THEN Risen(r) ELSE r]
           end == [r \in Spot |-> r.queue]
           stays(r) == r.at = 1 \/ Before(r.queue[r.at \div 2], r.queue[r.at])
           is(f) == f = [r \in Spot |-> IF stays(r)
                                        THEN r.queue
                                        ELSE f[[queue |-> Swap(r.queue, r.at, r.at \div 2),
                                                at |-> r.at \div 2]]]
<1>1. next \in [Spot -> Spot]
  BY RisenIn
<1>2. HasResults(Spot, stop, next, end)
  <2> HIDE DEF stop, next, end
  <2> QED
    BY <1>1, LoopExists
<1> HIDE DEF stop, next, end
<1>2b. PICK R : \E f \in [Spot -> R] :
           \A r \in Spot : /\ r \in stop => f[r] = end[r]
                           /\ r \notin stop => f[r] = f[next[r]]
  BY <1>2 DEF HasResults
<1>2a. PICK f \in [Spot -> R] :
           \A r \in Spot : /\ r \in stop => f[r] = end[r]
                           /\ r \notin stop => f[r] = f[next[r]]
  BY <1>2b
<1> USE DEF stop, next, end
<1>3. ASSUME NEW r \in Spot
      PROVE  stays(r) <=> ~Rises(r)
  BY <1>3, SpotIs DEF Rises
<1>4. ASSUME NEW r \in Spot
      PROVE  f[r] = IF stays(r) THEN r.queue ELSE f[Risen(r)]
  <2>1. CASE stays(r)
    <3>1. r \in stop /\ end[r] = r.queue
      BY <1>3, <2>1
    <3> HIDE DEF stays, stop, next, end
    <3> QED
      BY <1>2a, <2>1, <3>1
  <2>2. CASE ~stays(r)
    <3>1. r \notin stop /\ next[r] = Risen(r)
      BY <1>3, <2>2
    <3> HIDE DEF stays, stop, next, end
    <3> QED
      BY <1>2a, <2>2, <3>1
  <2> QED
    BY <2>1, <2>2
<1>5. is(f)
  <2> HIDE DEF stays
  <2> QED
    BY <1>2a, <1>4 DEF Risen
<1>6. SiftUp = CHOOSE g : is(g)
  BY DEF SiftUp
<1>7. is(SiftUp)
  <2> HIDE DEF is
  <2> QED
    BY <1>5, <1>6
<1> HIDE DEF stays
<1> QED
  BY <1>3, <1>7 DEF Risen

\* From good states the loop descends, and the result does not change.
Descends(good, stop, next, measure, result) ==
    /\ \A s \in good : measure[s] \in Nat
    /\ \A s \in good \ stop :
           /\ next[s] \in good
           /\ measure[next[s]] < measure[s]
           /\ result[s] = result[next[s]]

\* It ends in a good state, with the result it had from the start.
LEMMA LoopEnds ==
    ASSUME NEW good, NEW stop, NEW next, NEW measure, NEW result,
           Descends(good, stop, next, measure, result)
    PROVE  \A s \in good : \E t \in good \cap stop : result[s] = result[t]
<1> DEFINE bad == {s \in good : ~ \E t \in good \cap stop : result[s] = result[t]}
           S == {measure[s] : s \in bad}
<1> SUFFICES ASSUME bad # {}
             PROVE  FALSE
  OBVIOUS
<1>1. S \in SUBSET Nat /\ S # {}
  BY DEF Descends
<1> HIDE DEF S
<1>2. PICK n \in S : \A m \in S : n <= m
  BY <1>1, LeastNat
<1>3. PICK s \in bad : measure[s] = n
  BY <1>2 DEF S
<1>4. s \in good \ stop
  BY <1>3
<1>5. /\ next[s] \in good /\ result[s] = result[next[s]]
      /\ measure[next[s]] < measure[s]
      /\ measure[s] \in Nat /\ measure[next[s]] \in Nat
  BY <1>4 DEF Descends
<1>6. next[s] \in bad
  BY <1>3, <1>5
<1>7. n <= measure[next[s]]
  BY <1>2, <1>6 DEF S
<1> QED
  BY <1>3, <1>5, <1>7

-----------------------------------------------------------------------------
(* The order of the events                                                 *)

\* e may stand above f: two ends of visits of one time may stand either way.
NotAfter(e, f) ==
    \/ Before(e, f)
    \/ e.time = f.time /\ e.type = "D" /\ f.type = "D"

LEMMA NotAfterTotal ==
    ASSUME NEW e \in Event, NEW f \in Event
    PROVE  /\ Before(e, f) => NotAfter(e, f)
           /\ ~Before(e, f) => NotAfter(f, e)
           /\ NotAfter(e, e)
  BY DEF Event, EventKind, NotAfter, Before

LEMMA NotAfterTransitive ==
    ASSUME NEW e \in Event, NEW f \in Event, NEW g \in Event,
           NotAfter(e, f), NotAfter(f, g)
    PROVE  NotAfter(e, g)
  BY DEF Event, EventKind, NotAfter, Before

Child(a, c) == c = 2 * a \/ c = 2 * a + 1

\* Nobody stands above one who comes before, from node j on.
HeapFrom(q, j) ==
    \A a \in j .. Len(q), c \in 1 .. Len(q) : Child(a, c) => NotAfter(q[a], q[c])

\* Nor with the element at i away, which sinks ...
Sinking(q, i, j) ==
    /\ \A a \in j .. Len(q), c \in 1 .. Len(q) :
           Child(a, c) /\ a # i => NotAfter(q[a], q[c])
    /\ \A a \in j .. Len(q), c \in 1 .. Len(q) :
           Child(a, i) /\ Child(i, c) => NotAfter(q[a], q[c])

\* ... or rises.
Rising(q, i) ==
    /\ \A a \in 1 .. Len(q), c \in 1 .. Len(q) :
           Child(a, c) /\ c # i => NotAfter(q[a], q[c])
    /\ \A a \in 1 .. Len(q), c \in 1 .. Len(q) :
           Child(a, i) /\ Child(i, c) => NotAfter(q[a], q[c])

Elements(q) == {q[i] : i \in 1 .. Len(q)}

\* The child that comes first is not after the other.
LEMMA FirstChildFirst ==
    ASSUME NEW q \in Seq(Event), NEW i \in 1 .. Len(q), 2 * i <= Len(q),
           NEW c \in 1 .. Len(q), Child(i, c)
    PROVE  NotAfter(q[FirstChild(q, i)], q[c])
<1>1. q[2 * i] \in Event /\ q[c] \in Event
  OBVIOUS
<1>2. CASE c = FirstChild(q, i)
  BY <1>1, <1>2, NotAfterTotal
<1>3. CASE c # FirstChild(q, i) /\ 2 * i + 1 <= Len(q)
  <2>1. q[2 * i + 1] \in Event
    BY <1>3
  <2> QED
    BY <1>1, <1>3, <2>1, NotAfterTotal DEF FirstChild, Child
<1>4. CASE c # FirstChild(q, i) /\ ~ (2 * i + 1 <= Len(q))
  BY <1>4 DEF FirstChild, Child
<1> QED
  BY <1>2, <1>3, <1>4

\* One step of each loop moves the gap to where the element goes.
LEMMA SinkStep ==
    ASSUME NEW q \in Seq(Event), NEW j \in Nat \ {0}, NEW i \in j .. Len(q),
           2 * i <= Len(q), Sinking(q, i, j), ~Before(q[i], q[FirstChild(q, i)])
    PROVE  Sinking(Swap(q, i, FirstChild(q, i)), FirstChild(q, i), j)
<1> DEFINE m == FirstChild(q, i)
           r == Swap(q, i, m)
<1>1. m \in i + 1 .. Len(q) /\ Child(i, m) /\ i \in 1 .. Len(q)
  BY ChildIn DEF Child
<1>2. ASSUME NEW c \in 1 .. Len(q), Child(i, c)
      PROVE  NotAfter(q[m], q[c])
  BY <1>1, <1>2, FirstChildFirst
<1>3. ~Before(q[i], q[m])
  OBVIOUS
<1> HIDE DEF m
<1>4. /\ Len(r) = Len(q) /\ r[i] = q[m] /\ r[m] = q[i]
      /\ \A k \in 1 .. Len(q) : k # i /\ k # m => r[k] = q[k]
  BY <1>1, SwapType
<1> HIDE DEF r
<1>5. \A k \in 1 .. Len(q) : q[k] \in Event
  OBVIOUS
<1>6. ASSUME NEW a \in j .. Len(q), NEW c \in 1 .. Len(q), Child(a, c), a # m
      PROVE  NotAfter(r[a], r[c])
  <2>1. CASE a = i /\ c = m
    BY <1>1, <1>3, <1>4, <1>5, <2>1, NotAfterTotal
  <2>2. CASE a = i /\ c # m
    <3>1. c # i
      BY <1>6, <2>2 DEF Child
    <3> QED
      BY <1>2, <1>4, <1>6, <2>2, <3>1
  <2>3. CASE a # i /\ c = i
    <3>1. NotAfter(q[a], q[m])
      BY <1>1, <1>6, <2>3 DEF Sinking
    <3> QED
      BY <1>4, <1>6, <2>3, <3>1
  <2>4. CASE a # i /\ c # i
    <3>1. c # m
      BY <1>1, <1>6, <2>4 DEF Child
    <3>2. NotAfter(q[a], q[c])
      BY <1>6, <2>4 DEF Sinking
    <3>3. a \in 1 .. Len(q)
      OBVIOUS
    <3> QED
      BY <1>4, <1>6, <2>4, <3>1, <3>2, <3>3
  <2> QED
    BY <2>1, <2>2, <2>3, <2>4
<1>7. ASSUME NEW a \in j .. Len(q), NEW c \in 1 .. Len(q), Child(a, m), Child(m, c)
      PROVE  NotAfter(r[a], r[c])
  <2>1. a = i /\ c # i /\ c # m /\ m # i /\ m \in j .. Len(q)
    BY <1>1, <1>7 DEF Child
  <2>2. NotAfter(q[m], q[c])
    BY <1>7, <2>1 DEF Sinking
  <2> QED
    BY <1>4, <2>1, <2>2
<1>8. Sinking(r, m, j)
  BY <1>4, <1>6, <1>7 DEF Sinking
<1> QED
  BY <1>8 DEF m, r

LEMMA RiseStep ==
    ASSUME NEW q \in Seq(Event), NEW i \in 2 .. Len(q),
           Rising(q, i), ~Before(q[i \div 2], q[i])
    PROVE  Rising(Swap(q, i, i \div 2), i \div 2)
<1> DEFINE p == i \div 2
           r == Swap(q, i, p)
<1>1. p \in 1 .. Len(q) /\ p < i /\ Child(p, i) /\ i \in 1 .. Len(q)
  BY DEF Child
<1>2. ~Before(q[p], q[i])
  OBVIOUS
<1> HIDE DEF p
<1>3. /\ Len(r) = Len(q) /\ r[i] = q[p] /\ r[p] = q[i]
      /\ \A k \in 1 .. Len(q) : k # i /\ k # p => r[k] = q[k]
  BY <1>1, SwapType
<1> HIDE DEF r
<1>4. \A k \in 1 .. Len(q) : q[k] \in Event
  OBVIOUS
<1>5. NotAfter(q[i], q[p])
  BY <1>1, <1>2, <1>4, NotAfterTotal
<1>6. ASSUME NEW a \in 1 .. Len(q), NEW c \in 1 .. Len(q), Child(a, c), c # p
      PROVE  NotAfter(r[a], r[c])
  <2>1. CASE c = i
    <3>1. a = p
      BY <1>1, <1>6, <2>1 DEF Child
    <3> QED
      BY <1>3, <1>5, <2>1, <3>1
  <2>2. CASE c # i /\ a = p
    <3>1. NotAfter(q[p], q[c])
      BY <1>6, <2>2 DEF Rising
    <3>2. NotAfter(q[i], q[c])
      BY <1>1, <1>4, <1>5, <3>1, NotAfterTransitive
    <3> QED
      BY <1>3, <1>6, <2>2, <3>2
  <2>3. CASE c # i /\ a = i
    <3>1. NotAfter(q[p], q[c])
      BY <1>1, <1>6, <2>3 DEF Rising
    <3> QED
      BY <1>3, <1>6, <2>3, <3>1
  <2>4. CASE c # i /\ a # p /\ a # i
    <3>1. NotAfter(q[a], q[c])
      BY <1>6, <2>4 DEF Rising
    <3> QED
      BY <1>3, <1>6, <2>4, <3>1
  <2> QED
    BY <2>1, <2>2, <2>3, <2>4
<1>7. ASSUME NEW a \in 1 .. Len(q), NEW c \in 1 .. Len(q), Child(a, p), Child(p, c)
      PROVE  NotAfter(r[a], r[c])
  <2>1. a # p /\ a # i /\ c # p /\ p # i
    BY <1>1, <1>7 DEF Child
  <2>2. NotAfter(q[a], q[p])
    BY <1>1, <1>7, <2>1 DEF Rising
  <2>3. CASE c = i
    BY <1>3, <2>1, <2>2, <2>3
  <2>4. CASE c # i
    <3>1. NotAfter(q[p], q[c])
      BY <1>1, <1>7, <2>4 DEF Rising
    <3>2. NotAfter(q[a], q[c])
      BY <1>1, <1>4, <2>2, <3>1, NotAfterTransitive
    <3> QED
      BY <1>3, <2>1, <2>4, <3>2
  <2> QED
    BY <2>3, <2>4
<1>8. Rising(r, p)
  BY <1>3, <1>6, <1>7 DEF Rising
<1> QED
  BY <1>8 DEF p, r

\* The orders in which n elements may stand.
Orders(n) ==
    {p \in [1 .. n -> 1 .. n] :
        /\ \A i, j \in 1 .. n : p[i] = p[j] => i = j
        /\ \A m \in 1 .. n : \E i \in 1 .. n : p[i] = m}

InOrder(r, q, p) == \A i \in 1 .. Len(q) : r[i] = q[p[i]]

\* The queue q with its elements in another order.
Rearranged(q) ==
    {r \in Seq(Event) : Len(r) = Len(q) /\ \E p \in Orders(Len(q)) : InOrder(r, q, p)}

LEMMA SameElements ==
    ASSUME NEW q \in Seq(Event), NEW r \in Rearranged(q)
    PROVE  r \in Seq(Event) /\ Len(r) = Len(q) /\ Elements(r) = Elements(q)
<1>1. PICK p \in Orders(Len(q)) : InOrder(r, q, p)
  BY DEF Rearranged
<1>2. r \in Seq(Event) /\ Len(r) = Len(q)
  BY DEF Rearranged
<1>3. ASSUME NEW k \in 1 .. Len(q)
      PROVE  r[k] \in Elements(q) /\ q[k] \in Elements(r)
  <2>1. PICK i \in 1 .. Len(q) : p[i] = k
    BY <1>1 DEF Orders
  <2>2. p[k] \in 1 .. Len(q) /\ r[k] = q[p[k]] /\ r[i] = q[k]
    BY <1>1, <2>1 DEF Orders, InOrder
  <2> QED
    BY <1>2, <2>2 DEF Elements
<1> QED
  BY <1>2, <1>3 DEF Elements

LEMMA RearrangedSelf ==
    ASSUME NEW q \in Seq(Event)
    PROVE  q \in Rearranged(q)
<1> DEFINE p == [i \in 1 .. Len(q) |-> i]
<1>1. p \in Orders(Len(q)) /\ InOrder(q, q, p)
  BY DEF Orders, InOrder
<1> HIDE DEF p
<1> QED
  BY <1>1 DEF Rearranged

LEMMA RearrangedAgain ==
    ASSUME NEW file \in Seq(Event), NEW q \in Rearranged(file), NEW r \in Rearranged(q)
    PROVE  r \in Rearranged(file)
<1>0. /\ q \in Seq(Event) /\ Len(q) = Len(file)
      /\ r \in Seq(Event) /\ Len(r) = Len(file)
  BY DEF Rearranged
<1>1. PICK a \in Orders(Len(file)) : InOrder(q, file, a)
  BY DEF Rearranged
<1>2. PICK b \in Orders(Len(file)) : InOrder(r, q, b)
  BY <1>0 DEF Rearranged
<1> DEFINE n == Len(file)
           p == [i \in 1 .. n |-> a[b[i]]]
<1>3. /\ a \in [1 .. n -> 1 .. n] /\ b \in [1 .. n -> 1 .. n]
      /\ \A i, j \in 1 .. n : (a[i] = a[j] => i = j) /\ (b[i] = b[j] => i = j)
      /\ \A m \in 1 .. n : (\E i \in 1 .. n : a[i] = m) /\ (\E i \in 1 .. n : b[i] = m)
  BY DEF Orders
<1> HIDE DEF n
<1>4. /\ p \in [1 .. n -> 1 .. n]
      /\ \A i, j \in 1 .. n : p[i] = p[j] => i = j
  BY <1>3
<1>5. ASSUME NEW m \in 1 .. n
      PROVE  \E i \in 1 .. n : p[i] = m
  <2>1. PICK k \in 1 .. n : a[k] = m
    BY <1>3
  <2>2. PICK i \in 1 .. n : b[i] = k
    BY <1>3
  <2> QED
    BY <2>1, <2>2
<1>6. \A i \in 1 .. n : r[i] = file[p[i]]
  BY <1>0, <1>1, <1>2, <1>3 DEF InOrder, n
<1> HIDE DEF p
<1>7. p \in Orders(n) /\ InOrder(r, file, p)
  BY <1>4, <1>5, <1>6 DEF Orders, InOrder, n
<1> QED
  BY <1>0, <1>7 DEF Rearranged, n

LEMMA SwapRearranges ==
    ASSUME NEW q \in Seq(Event), NEW r \in Rearranged(q),
           NEW i \in 1 .. Len(q), NEW j \in 1 .. Len(q)
    PROVE  Swap(r, i, j) \in Rearranged(q)
<1> DEFINE n == Len(q)
           s == Swap(r, i, j)
           p == [k \in 1 .. n |-> IF k = i THEN j ELSE IF k = j THEN i ELSE k]
<1>1. r \in Seq(Event) /\ Len(r) = n
  BY DEF Rearranged
<1>2. /\ s \in Seq(Event) /\ Len(s) = n /\ s[i] = r[j] /\ s[j] = r[i]
      /\ \A k \in 1 .. n : k # i /\ k # j => s[k] = r[k]
  <2>1. i \in 1 .. Len(r) /\ j \in 1 .. Len(r)
    BY <1>1
  <2> HIDE DEF p, n
  <2>2. /\ s \in Seq(Event) /\ Len(s) = Len(r) /\ s[i] = r[j] /\ s[j] = r[i]
        /\ \A k \in 1 .. Len(r) : k # i /\ k # j => s[k] = r[k]
    <3> HIDE DEF Event
    <3> QED
      BY <1>1, <2>1, SwapType
  <2> QED
    BY <1>1, <2>2
<1> HIDE DEF s, n
<1>3. /\ p \in [1 .. n -> 1 .. n]
      /\ \A k, m \in 1 .. n : p[k] = p[m] => k = m
      /\ \A k \in 1 .. n : p[p[k]] = k
  BY DEF n
<1>4. \A k \in 1 .. n : s[k] = r[p[k]]
  BY <1>2
<1> HIDE DEF p
<1>5. p \in Orders(n)
  BY <1>3 DEF Orders
<1>6. s \in Rearranged(r)
  BY <1>1, <1>2, <1>4, <1>5 DEF Rearranged, InOrder
<1> QED
  BY <1>6, RearrangedAgain DEF s

\* The loop of initEQ and delevent makes a heap from j on.
LEMMA SiftDownHeap ==
    ASSUME NEW q \in Seq(Event), NEW j \in 1 .. Len(q), HeapFrom(q, j + 1)
    PROVE  /\ SiftDown[[queue |-> q, at |-> j]] \in Rearranged(q)
           /\ HeapFrom(SiftDown[[queue |-> q, at |-> j]], j)
<1> DEFINE start == [queue |-> q, at |-> j]
           good == {s \in Spot : /\ s.queue \in Rearranged(q)
                                 /\ j <= s.at
                                 /\ Sinking(s.queue, s.at, j)}
           stop == {s \in Spot : ~Sinks(s)}
           next == [s \in Spot |-> Sunk(s)]
           measure == [s \in Spot |-> Len(s.queue) - s.at]
<1>1. start \in good
  <2>1. start \in Spot /\ start.queue = q /\ start.at = j
    BY DEF Spot
  <2>2. Sinking(q, j, j)
    BY DEF HeapFrom, Sinking, Child
  <2>3. q \in Rearranged(q)
    BY RearrangedSelf
  <2> QED
    BY <2>1, <2>2, <2>3
<1>2. ASSUME NEW s \in good
      PROVE  measure[s] \in Nat
  BY SpotIs
<1>3. ASSUME NEW s \in good \ stop
      PROVE  /\ Sunk(s) \in good
             /\ Len(Sunk(s).queue) - Sunk(s).at < Len(s.queue) - s.at
             /\ SiftDown[s] = SiftDown[Sunk(s)]
  <2>1. s \in Spot /\ Sinks(s)
    OBVIOUS
  <2> DEFINE p == s.queue
             i == s.at
             m == FirstChild(p, i)
  <2>2. p \in Seq(Event) /\ Len(p) \in Nat /\ i \in j .. Len(p) /\ Len(p) = Len(q)
    BY <2>1, SpotIs DEF Rearranged
  <2>3. 2 * i <= Len(p) /\ ~Before(p[i], p[m])
    BY <2>1 DEF Sinks
  <2>4. m \in i + 1 .. Len(p)
    BY <2>2, <2>3, ChildIn
  <2>5. Sunk(s).queue = Swap(p, i, m) /\ Sunk(s).at = m
    BY DEF Sunk
  <2>6. Sinking(Swap(p, i, m), m, j)
    <3>1. Sinking(p, i, j)
      OBVIOUS
    <3> HIDE DEF p, i, good, stop, start, measure
    <3> QED
      BY <2>2, <2>3, <3>1, SinkStep DEF m
  <2>7. p \in Rearranged(q)
    OBVIOUS
  <2> HIDE DEF p, i, m
  <2>8. Swap(p, i, m) \in Rearranged(q)
    BY <2>2, <2>4, <2>7, SwapRearranges
  <2>9. Len(Swap(p, i, m)) = Len(p)
    BY <2>2, <2>8 DEF Rearranged
  <2>10. Sunk(s) \in Spot
    BY <2>1, SunkIn
  <2>11. Sunk(s) \in good
    BY <2>2, <2>4, <2>5, <2>6, <2>8, <2>10
  <2>12. Len(Sunk(s).queue) - Sunk(s).at < Len(s.queue) - s.at
    BY <2>2, <2>4, <2>5, <2>9 DEF p, i
  <2> QED
    BY <2>1, <2>11, <2>12, SiftDownIs
<1>4. Descends(good, stop, next, measure, SiftDown)
  <2>1. \A s \in good : s \in Spot
    OBVIOUS
  <2>2. \A s \in good \ stop : measure[Sunk(s)] < measure[s]
    BY <1>3
  <2>3. \A s \in good : next[s] = Sunk(s)
    BY <2>1
  <2> HIDE DEF good, stop, next, measure
  <2> QED
    BY <1>2, <1>3, <2>2, <2>3 DEF Descends
<1>5. PICK t \in good \cap stop : SiftDown[start] = SiftDown[t]
  <2> HIDE DEF good, stop, next, measure
  <2> QED
    BY <1>1, <1>4, LoopEnds
<1>6. SiftDown[start] = t.queue
  BY <1>5, SiftDownIs
<1> DEFINE r == t.queue
           i == t.at
<1>7. /\ r \in Seq(Event) /\ Len(r) \in Nat /\ i \in j .. Len(r)
      /\ Sinking(r, i, j) /\ ~Sinks(t)
  BY <1>5, SpotIs
<1>8. ASSUME NEW a \in j .. Len(r), NEW c \in 1 .. Len(r), Child(a, c)
      PROVE  NotAfter(r[a], r[c])
  <2>1. CASE a # i
    BY <1>7, <1>8, <2>1 DEF Sinking
  <2>2. CASE a = i
    <3> DEFINE m == FirstChild(r, i)
    <3>1. 2 * i <= Len(r) /\ i \in 1 .. Len(r)
      BY <1>7, <1>8, <2>2 DEF Child
    <3>2. Before(r[i], r[m])
      BY <1>7, <3>1 DEF Sinks
    <3>3. m \in 1 .. Len(r)
      BY <1>7, <3>1, ChildIn
    <3>4. NotAfter(r[m], r[c])
      BY <1>7, <1>8, <2>2, <3>1, FirstChildFirst
    <3> HIDE DEF m
    <3>5. r[i] \in Event /\ r[m] \in Event /\ r[c] \in Event
      BY <1>7, <3>1, <3>3
    <3>6. NotAfter(r[i], r[m])
      BY <3>2, <3>5, NotAfterTotal
    <3> QED
      BY <2>2, <3>4, <3>5, <3>6, NotAfterTransitive
  <2> QED
    BY <2>1, <2>2
<1>9. r \in Rearranged(q) /\ HeapFrom(r, j)
  BY <1>5, <1>8 DEF HeapFrom
<1> QED
  BY <1>6, <1>9

\* The loop of addevent.
LEMMA SiftUpHeap ==
    ASSUME NEW q \in Seq(Event), NEW j \in 1 .. Len(q), Rising(q, j)
    PROVE  /\ SiftUp[[queue |-> q, at |-> j]] \in Rearranged(q)
           /\ HeapFrom(SiftUp[[queue |-> q, at |-> j]], 1)
<1> DEFINE start == [queue |-> q, at |-> j]
           good == {s \in Spot : s.queue \in Rearranged(q) /\ Rising(s.queue, s.at)}
           stop == {s \in Spot : ~Rises(s)}
           next == [s \in Spot |-> Risen(s)]
           measure == [s \in Spot |-> s.at]
<1>1. start \in good
  <2>1. start \in Spot /\ start.queue = q /\ start.at = j
    BY DEF Spot
  <2>2. q \in Rearranged(q)
    BY RearrangedSelf
  <2> QED
    BY <2>1, <2>2
<1>2. ASSUME NEW s \in good
      PROVE  measure[s] \in Nat
  BY SpotIs
<1>3. ASSUME NEW s \in good \ stop
      PROVE  /\ Risen(s) \in good
             /\ Risen(s).at < s.at
             /\ SiftUp[s] = SiftUp[Risen(s)]
  <2>1. s \in Spot /\ Rises(s)
    OBVIOUS
  <2> DEFINE p == s.queue
             i == s.at
  <2>2. p \in Seq(Event) /\ Len(p) \in Nat /\ i \in 1 .. Len(p) /\ Len(p) = Len(q)
    BY <2>1, SpotIs DEF Rearranged
  <2>3. i # 1 /\ ~Before(p[i \div 2], p[i])
    BY <2>1 DEF Rises
  <2>4. i \in 2 .. Len(p) /\ i \div 2 \in 1 .. Len(p) /\ i \div 2 < i
    BY <2>2, <2>3
  <2>5. Risen(s).queue = Swap(p, i, i \div 2) /\ Risen(s).at = i \div 2
    BY DEF Risen
  <2>6. Rising(Swap(p, i, i \div 2), i \div 2)
    BY <2>2, <2>3, <2>4, RiseStep
  <2>7. p \in Rearranged(q)
    OBVIOUS
  <2> HIDE DEF p, i
  <2>8. Swap(p, i, i \div 2) \in Rearranged(q)
    BY <2>2, <2>4, <2>7, SwapRearranges
  <2>9. Risen(s) \in Spot
    BY <2>1, RisenIn
  <2>10. Risen(s) \in good
    BY <2>5, <2>6, <2>8, <2>9
  <2>11. Risen(s).at < s.at
    BY <2>4, <2>5 DEF i
  <2> QED
    BY <2>1, <2>10, <2>11, SiftUpIs
<1>4. Descends(good, stop, next, measure, SiftUp)
  <2>1. \A s \in good : next[s] = Risen(s)
    OBVIOUS
  <2>2. \A s \in good \ stop : measure[Risen(s)] < measure[s]
    BY <1>3
  <2> HIDE DEF good, stop, next, measure
  <2> QED
    BY <1>2, <1>3, <2>1, <2>2 DEF Descends
<1>5. PICK t \in good \cap stop : SiftUp[start] = SiftUp[t]
  <2> HIDE DEF good, stop, next, measure
  <2> QED
    BY <1>1, <1>4, LoopEnds
<1>6. SiftUp[start] = t.queue
  BY <1>5, SiftUpIs
<1> DEFINE r == t.queue
           i == t.at
<1>7. /\ r \in Seq(Event) /\ Len(r) \in Nat /\ i \in 1 .. Len(r)
      /\ Rising(r, i) /\ ~Rises(t)
  BY <1>5, SpotIs
<1>8. ASSUME NEW a \in 1 .. Len(r), NEW c \in 1 .. Len(r), Child(a, c)
      PROVE  NotAfter(r[a], r[c])
  <2>1. CASE c # i
    BY <1>7, <1>8, <2>1 DEF Rising
  <2>2. CASE c = i
    <3>1. i # 1 /\ a = i \div 2
      BY <1>7, <1>8, <2>2 DEF Child
    <3>2. Before(r[a], r[i])
      BY <1>7, <3>1 DEF Rises
    <3>3. r[a] \in Event /\ r[i] \in Event
      BY <1>7
    <3> QED
      BY <2>2, <3>2, <3>3, NotAfterTotal
  <2> QED
    BY <2>1, <2>2
<1>9. r \in Rearranged(q) /\ HeapFrom(r, 1)
  BY <1>5, <1>8 DEF HeapFrom
<1> QED
  BY <1>6, <1>9

Heap == {q \in Seq(Event) : HeapFrom(q, 1)}

\* addevent keeps the heap, and the queue has the new event too.
LEMMA AddEventHeap ==
    ASSUME NEW q \in Heap, NEW e \in Event
    PROVE  /\ AddEvent(q, e) \in Heap \cap Rearranged(Append(q, e))
           /\ Len(AddEvent(q, e)) = Len(q) + 1
           /\ Elements(AddEvent(q, e)) = Elements(q) \cup {e}
<1> DEFINE r == Append(q, e)
           n == Len(q)
<1>0. q \in Seq(Event) /\ HeapFrom(q, 1) /\ n \in Nat
  BY DEF Heap
<1>1. r \in Seq(Event) /\ Len(r) = n + 1 /\ r[n + 1] = e /\ \A i \in 1 .. n : r[i] = q[i]
  BY <1>0
<1> HIDE DEF r
<1>2. Elements(r) = Elements(q) \cup {e}
  <2>1. 1 .. Len(r) = 1 .. n \cup {n + 1}
    BY <1>0, <1>1
  <2> QED
    BY <1>1, <2>1 DEF Elements
<1>3. Rising(r, n + 1)
  <2>1. ASSUME NEW a \in 1 .. Len(r), NEW c \in 1 .. Len(r), Child(a, c), c # n + 1
        PROVE  NotAfter(r[a], r[c])
    <3>1. a \in 1 .. n /\ c \in 1 .. n
      BY <1>0, <1>1, <2>1 DEF Child
    <3>2. NotAfter(q[a], q[c])
      BY <1>0, <2>1, <3>1 DEF HeapFrom
    <3> QED
      BY <1>1, <3>1, <3>2
  <2>2. \A c \in 1 .. Len(r) : ~Child(n + 1, c)
    BY <1>0, <1>1 DEF Child
  <2> QED
    BY <2>1, <2>2 DEF Rising
<1> DEFINE s == SiftUp[[queue |-> r, at |-> n + 1]]
<1>4. s \in Rearranged(r) /\ HeapFrom(s, 1)
  BY <1>0, <1>1, <1>3, SiftUpHeap
<1>5. AddEvent(q, e) = s
  BY DEF AddEvent, r
<1>6. s \in Seq(Event) /\ Len(s) = n + 1 /\ Elements(s) = Elements(r)
  BY <1>1, <1>4, SameElements
<1> HIDE DEF s
<1> QED
  BY <1>2, <1>4, <1>5, <1>6 DEF Heap, r

\* delevent keeps the heap and takes the first event.
LEMMA DelEventHeap ==
    ASSUME NEW q \in Heap, q # <<>>
    PROVE  /\ DelEvent(q) \in Heap \cap Rearranged(Tail(q))
           /\ Len(DelEvent(q)) = Len(q) - 1
           /\ Elements(DelEvent(q)) = {q[i] : i \in 2 .. Len(q)}
<1> DEFINE n == Len(q)
<1>0. q \in Seq(Event) /\ HeapFrom(q, 1) /\ n \in Nat \ {0}
  BY DEF Heap
<1>1. CASE n = 1
  <2>1. DelEvent(q) = <<>>
    BY <1>1 DEF DelEvent
  <2>2. 2 .. n = {} /\ 1 .. 0 = {}
    BY <1>1
  <2>3. <<>> \in Seq(Event) /\ Len(<<>>) = 0
    OBVIOUS
  <2>4. HeapFrom(<<>>, 1)
    BY DEF HeapFrom
  <2>5. Elements(<<>>) = {q[i] : i \in 2 .. Len(q)}
    BY <2>2 DEF Elements
  <2>6. PICK u \in Seq(Event) : u = Tail(q) /\ Len(u) = 0
    <3>1. Tail(q) \in Seq(Event) /\ Len(Tail(q)) = 0
      BY <1>0, <1>1
    <3> QED
      BY <3>1
  <2>7. <<>> \in Rearranged(Tail(q))
    <3>1. PICK p \in Orders(0) : InOrder(u, u, p)
      BY <2>6, RearrangedSelf DEF Rearranged
    <3>2. 1 .. Len(u) = {}
      BY <2>6
    <3>3. InOrder(<<>>, u, p)
      BY <3>2 DEF InOrder
    <3>4. <<>> \in Rearranged(u)
      BY <2>3, <2>6, <3>1, <3>3 DEF Rearranged
    <3> QED
      BY <2>6, <3>4
  <2> QED
    BY <1>1, <2>1, <2>3, <2>4, <2>5, <2>7 DEF Heap
<1>2. CASE n > 1
  <2> DEFINE r == [i \in 1..(Len(q) - 1) |-> IF i = 1 THEN q[Len(q)] ELSE q[i]]
  <2>1. /\ r \in Seq(Event) /\ Len(r) = n - 1
        /\ \A i \in 1 .. n - 1 : r[i] = IF i = 1 THEN q[n] ELSE q[i]
    BY <1>0, <1>2
  <2>2. DelEvent(q) = SiftDown[[queue |-> r, at |-> 1]]
    BY <1>0, <1>2 DEF DelEvent
  <2> HIDE DEF r
  <2>3. HeapFrom(r, 2)
    <3> SUFFICES ASSUME NEW a \in 2 .. Len(r), NEW c \in 1 .. Len(r), Child(a, c)
                 PROVE  NotAfter(r[a], r[c])
      BY DEF HeapFrom
    <3>1. a \in 1 .. n /\ c \in 1 .. n /\ c # 1 /\ a # 1
      BY <1>0, <2>1 DEF Child
    <3>2. NotAfter(q[a], q[c])
      BY <1>0, <3>1 DEF HeapFrom
    <3> QED
      BY <2>1, <3>1, <3>2
  <2>4. r \in Rearranged(Tail(q))
    <3> DEFINE u == Tail(q)
               p == [i \in 1 .. n - 1 |-> IF i = 1 THEN n - 1 ELSE i - 1]
    <3>1. u \in Seq(Event) /\ Len(u) = n - 1 /\ \A i \in 1 .. n - 1 : u[i] = q[i + 1]
      BY <1>0, <1>2
    <3> HIDE DEF u, n
    <3>2. /\ p \in [1 .. n - 1 -> 1 .. n - 1]
          /\ \A i, j \in 1 .. n - 1 : p[i] = p[j] => i = j
      BY <1>0, <1>2
    <3>3. ASSUME NEW m \in 1 .. n - 1
          PROVE  \E i \in 1 .. n - 1 : p[i] = m
      <4>1. CASE m = n - 1
        BY <1>0, <1>2, <4>1
      <4>2. CASE m # n - 1
        <5>1. m + 1 \in 1 .. n - 1 /\ p[m + 1] = m
          BY <1>0, <1>2, <4>2
        <5> QED
          BY <5>1
      <4> QED
        BY <4>1, <4>2
    <3>4. \A i \in 1 .. n - 1 : r[i] = u[p[i]]
      BY <1>0, <1>2, <2>1, <3>1
    <3> HIDE DEF p
    <3>5. p \in Orders(Len(u)) /\ InOrder(r, u, p)
      BY <3>1, <3>2, <3>3, <3>4 DEF Orders, InOrder
    <3> QED
      BY <2>1, <3>1, <3>5 DEF Rearranged, u
  <2> DEFINE s == SiftDown[[queue |-> r, at |-> 1]]
  <2>5. s \in Rearranged(r) /\ HeapFrom(s, 1)
    <3>1. 1 \in 1 .. Len(r) /\ HeapFrom(r, 1 + 1)
      BY <1>0, <1>2, <2>1, <2>3
    <3> QED
      BY <2>1, <3>1, SiftDownHeap
  <2> HIDE DEF s
  <2>6. Tail(q) \in Seq(Event) /\ Len(Tail(q)) = n - 1 /\ \A i \in 1 .. n - 1 : Tail(q)[i] = q[i + 1]
    BY <1>0, <1>2
  <2>7. s \in Rearranged(Tail(q))
    BY <2>4, <2>5, <2>6, RearrangedAgain
  <2>8. s \in Seq(Event) /\ Len(s) = n - 1 /\ Elements(s) = Elements(Tail(q))
    BY <2>6, <2>7, SameElements
  <2>9. Elements(Tail(q)) = {q[i] : i \in 2 .. n}
    <3>1. \A i \in 1 .. n - 1 : i + 1 \in 2 .. n
      BY <1>0, <1>2
    <3>2. \A k \in 2 .. n : k - 1 \in 1 .. n - 1 /\ Tail(q)[k - 1] = q[k]
      BY <1>0, <1>2, <2>6
    <3> QED
      BY <2>6, <3>1, <3>2 DEF Elements
  <2> QED
    BY <2>2, <2>5, <2>7, <2>8, <2>9 DEF Heap, s
<1>3. n = 1 \/ n > 1
  <2> HIDE DEF n
  <2> QED
    BY <1>0
<1> QED
  BY <1>1, <1>2, <1>3

\* nextevent returns an event that none comes before.
LEMMA RootFirst ==
    ASSUME NEW q \in Heap, NEW k \in 1 .. Len(q)
    PROVE  NotAfter(q[1], q[k])
<1>0. q \in Seq(Event) /\ HeapFrom(q, 1) /\ Len(q) \in Nat \ {0}
  BY DEF Heap
<1> DEFINE bad == {i \in 1 .. Len(q) : ~NotAfter(q[1], q[i])}
<1> SUFFICES ASSUME bad # {}
             PROVE  FALSE
  OBVIOUS
<1>1. bad \in SUBSET Nat
  OBVIOUS
<1>2. PICK i \in bad : \A m \in bad : i <= m
  <2> HIDE DEF bad
  <2> QED
    BY <1>1, LeastNat
<1>3. i # 1
  BY <1>0, <1>2, NotAfterTotal
<1> DEFINE p == i \div 2
<1>4. p \in 1 .. Len(q) /\ p < i /\ Child(p, i)
  BY <1>2, <1>3 DEF Child
<1> HIDE DEF p
<1>5. NotAfter(q[1], q[p])
  BY <1>2, <1>4
<1>6. NotAfter(q[p], q[i])
  BY <1>0, <1>2, <1>4 DEF HeapFrom
<1>7. q[1] \in Event /\ q[p] \in Event /\ q[i] \in Event
  BY <1>0, <1>2, <1>4
<1> QED
  BY <1>2, <1>5, <1>6, <1>7, NotAfterTransitive

\* initEQ: the inner nodes from j on have been sifted, the last one first.
Sifts(file, j, f) ==
    f = [k \in j .. Len(file) \div 2 + 1 |->
            IF k > Len(file) \div 2 THEN file ELSE SiftDown[[queue |-> f[k + 1], at |-> k]]]

LEMMA SiftsExist ==
    ASSUME NEW file, Len(file) \in Nat
    PROVE  \E f : Sifts(file, 1, f)
<1> DEFINE h == Len(file) \div 2
           bad == {d \in 0 .. h : ~ \E f : Sifts(file, h + 1 - d, f)}
<1>1. h \in Nat
  OBVIOUS
<1> SUFFICES ASSUME bad # {}
             PROVE  FALSE
  BY <1>1
<1>2. PICK d \in bad : \A m \in bad : d <= m
  <2>1. bad \in SUBSET Nat
    OBVIOUS
  <2> HIDE DEF bad
  <2> QED
    BY <2>1, LeastNat
<1>3. CASE d = 0
  <2> DEFINE f == [k \in h + 1 .. h + 1 |-> file]
  <2>1. Sifts(file, h + 1, f)
    BY <1>1 DEF Sifts
  <2>2. h + 1 - d = h + 1
    BY <1>1, <1>3
  <2>3. Sifts(file, h + 1 - d, f)
    BY <2>1, <2>2
  <2>4. ~ \E g : Sifts(file, h + 1 - d, g)
    BY <1>2
  <2> HIDE DEF f
  <2> QED
    BY <2>3, <2>4
<1>4. CASE d # 0
  <2> DEFINE j == h + 1 - d
  <2>0. d \in 1 .. h
    BY <1>1, <1>2, <1>4
  <2> HIDE DEF h, bad
  <2>1. j \in 1 .. h /\ j + 1 = h + 1 - (d - 1) /\ d - 1 \in 0 .. h /\ d - 1 < d
    BY <1>1, <2>0
  <2>2. d - 1 \notin bad
    <3>1. ~ (d <= d - 1)
      BY <2>0, <1>1
    <3> QED
      BY <1>2, <3>1
  <2> USE DEF h, bad
  <2>3. PICK f : Sifts(file, j + 1, f)
    BY <2>1, <2>2
  <2> DEFINE g == [k \in j .. h + 1 |-> IF k = j THEN SiftDown[[queue |-> f[j + 1], at |-> j]]
                                                ELSE f[k]]
  <2> HIDE DEF j
  <2>4. ASSUME NEW k \in j .. h + 1
        PROVE  g[k] = IF k > h THEN file ELSE SiftDown[[queue |-> g[k + 1], at |-> k]]
    <3>1. CASE k = j
      <4>1. ~(k > h) /\ k + 1 \in j .. h + 1 /\ k + 1 # j
        BY <1>1, <2>1, <3>1
      <4> QED
        BY <3>1, <4>1
    <3>2. CASE k # j
      <4>1. k \in j + 1 .. h + 1
        BY <1>1, <2>1, <3>2
      <4>2. f[k] = IF k > h THEN file ELSE SiftDown[[queue |-> f[k + 1], at |-> k]]
        BY <2>3, <4>1 DEF Sifts
      <4>3. ~(k > h) => k + 1 \in j .. h + 1 /\ k + 1 # j
        BY <1>1, <2>1, <4>1
      <4> HIDE DEF h
      <4> QED
        BY <3>2, <4>2, <4>3
    <3> QED
      BY <3>1, <3>2
  <2>5. Sifts(file, j, g)
    <3>1. g = [k \in j .. h + 1 |-> g[k]]
      OBVIOUS
    <3> HIDE DEF g
    <3> QED
      BY <2>4, <3>1 DEF Sifts
  <2> QED
    BY <1>2, <2>1, <2>5 DEF j
<1> QED
  BY <1>3, <1>4

LEMMA InitEQIs ==
    ASSUME NEW file, Len(file) \in Nat
    PROVE  \E f : Sifts(file, 1, f) /\ InitEQ(file) = f[1]
<1> DEFINE f == CHOOSE g : Sifts(file, 1, g)
<1>1. Sifts(file, 1, f)
  BY SiftsExist
<1>2. InitEQ(file) = f[1]
  BY DEF InitEQ, Sifts
<1> HIDE DEF f
<1> QED
  BY <1>1, <1>2

\* initEQ makes a heap of the file.
LEMMA InitEQHeap ==
    ASSUME NEW file \in Seq(Event)
    PROVE  InitEQ(file) \in Rearranged(file) \cap Heap
<1> DEFINE h == Len(file) \div 2
<1>1. h \in Nat /\ Len(file) \in Nat /\ 2 * h <= Len(file) /\ Len(file) <= 2 * h + 1
  OBVIOUS
<1>2. PICK f : Sifts(file, 1, f) /\ InitEQ(file) = f[1]
  BY <1>1, InitEQIs
<1> DEFINE settled(k) == f[k] \in Rearranged(file) /\ HeapFrom(f[k], k)
           bad == {d \in 0 .. h : ~settled(h + 1 - d)}
<1>3. \A k \in 1 .. h + 1 :
          f[k] = IF k > h THEN file ELSE SiftDown[[queue |-> f[k + 1], at |-> k]]
  BY <1>1, <1>2 DEF Sifts
<1> HIDE DEF h
<1>4. bad = {}
  <2> SUFFICES ASSUME bad # {}
               PROVE  FALSE
    OBVIOUS
  <2>1. PICK d \in bad : \A m \in bad : d <= m
    <3>1. bad \in SUBSET Nat
      OBVIOUS
    <3> HIDE DEF bad
    <3> QED
      BY <3>1, LeastNat
  <2>2. CASE d = 0
    <3>1. f[h + 1] = file
      <4>1. h + 1 \in 1 .. h + 1 /\ h + 1 > h
        BY <1>1
      <4> QED
        BY <1>3, <4>1
    <3>2. HeapFrom(file, h + 1)
      BY <1>1 DEF HeapFrom, Child
    <3>3. file \in Rearranged(file)
      BY RearrangedSelf
    <3>4. settled(h + 1)
      BY <3>1, <3>2, <3>3
    <3> QED
      BY <1>1, <2>1, <2>2, <3>4
  <2>3. CASE d # 0
    <3> DEFINE j == h + 1 - d
    <3>1. j \in 1 .. h /\ j + 1 = h + 1 - (d - 1) /\ d - 1 \in 0 .. h /\ d - 1 < d
      BY <1>1, <2>1, <2>3
    <3>2. d - 1 \notin bad
      BY <2>1, <3>1
    <3>3. settled(j + 1)
      BY <3>1, <3>2
    <3>4. f[j] = SiftDown[[queue |-> f[j + 1], at |-> j]]
      BY <1>1, <1>3, <3>1
    <3> DEFINE q == f[j + 1]
    <3>5. q \in Rearranged(file) /\ q \in Seq(Event) /\ Len(q) = Len(file)
      BY <3>3 DEF Rearranged
    <3>6. j \in 1 .. Len(q) /\ HeapFrom(q, j + 1)
      BY <1>1, <3>1, <3>3, <3>5
    <3> HIDE DEF j, q
    <3>7. f[j] \in Rearranged(q) /\ HeapFrom(f[j], j)
      BY <3>4, <3>5, <3>6, SiftDownHeap DEF q
    <3>8. settled(j)
      BY <3>5, <3>7, RearrangedAgain
    <3> QED
      BY <2>1, <3>8 DEF j
  <2> QED
    BY <2>2, <2>3
<1>5. settled(1)
  <2>1. h \in 0 .. h /\ h + 1 - h = 1
    BY <1>1
  <2>2. h \notin bad
    BY <1>4
  <2> QED
    BY <2>1, <2>2
<1> QED
  BY <1>2, <1>5 DEF Heap, Rearranged

\* event.c, for queues of any length: initEQ orders the events of the file,
\* addevent adds one and delevent takes out the first, the order is kept, no
\* event is lost, doubled or invented, and nextevent returns an event that
\* none comes before.
THEOREM HeapKept ==
    /\ \A file \in Seq(Event) : InitEQ(file) \in Heap \cap Rearranged(file)
    /\ \A q \in Heap, e \in Event : AddEvent(q, e) \in Heap \cap Rearranged(Append(q, e))
    /\ \A q \in Heap \ {<<>>} :
           /\ DelEvent(q) \in Heap \cap Rearranged(Tail(q))
           /\ NextEvent(q) = Head(q)
           /\ \A i \in 1 .. Len(q) : NotAfter(NextEvent(q), q[i])
  BY InitEQHeap, AddEventHeap, DelEventHeap, RootFirst DEF NextEvent

-----------------------------------------------------------------------------
(* The event queue and the counters of the session                         *)

Num(b) == IF b THEN 1 ELSE 0

\* main has sent for the doctor, and then waits for the visitor.
Serving == main \in {"engage", "await", "asleep_done", "call"}
Engaged == Serving \/ main = "join_visitor"

\* The end of a visit is not in the queue: it has been taken out, or is yet
\* to be put in.
Out == doc_free = 1 \/ doc_session_end = 1 \/ Engaged

Flags ==
    /\ curr \in [Kind -> Nat] /\ wait \in [Kind -> Nat]
    /\ curr_time \in Int
    /\ doc_free \in {0, 1}
    /\ main \in {"pop", "leave", "join_doctor", "create", "initialising", "asleep_init",
                 "service", "engage", "await", "asleep_done", "call", "join_visitor", "exit"}
    /\ doctor \in {"lock", "asleep", "report", "gone"}

Turn ==
    /\ main = "leave" => doc_free = 1
    /\ Engaged => doc_free = 0 /\ doc_session_end = 0
    /\ Serving => event.type \in Kind
    /\ doc_state = -1 => doc_session_end = 1

\* An end takes no time.
Ends ==
    /\ \A e \in Elements(E) : e.type = "D" => e.duration = 0
    /\ ~Out => \E e \in Elements(E) : e.type = "D"

\* A thread for every arrival of the file that has left the queue, at most.
Bounded ==
    \E f \in Files :
        Len(visitor) + Num(main = "create") + Len(E) + Num(Out) <= Len(f) + 1

\* Who waits is noted down and has not been called, and no more are noted
\* down than the quota.
Waiting ==
    \A k \in Kind :
        /\ wait[k] + curr[k] + Num(Serving /\ event.type = k)
               = Len(tids[k]) + Num(LettingIn /\ event.type = k)
        /\ \A n \in DOMAIN Q[k] : Q[k][n].type = k
        /\ k \in Limited => Len(tids[k]) + Num(LettingIn /\ event.type = k) <= Quota[k]

QueueInv ==
    /\ LocksInv /\ TokenInv /\ Typed(Event)
    /\ Flags /\ Turn
    /\ E \in Heap /\ Ends
    /\ Bounded /\ Waiting

LEMMA PopFacts ==
    ASSUME NEW types, QueueInv, Pops(types)
    PROVE  /\ main = "pop" /\ NextEvent(E) \in Event /\ NextEvent(E).type \in types
           /\ E' \in Heap /\ Len(E) \in Nat /\ Len(E') = Len(E) - 1
           /\ curr_time' \in Int
           /\ \A e \in Elements(E') : e \in Elements(E)
           /\ \A e \in Elements(E) : e \in Elements(E') \/ e = NextEvent(E)
<1>1. E \in Heap /\ E # <<>> /\ E' = DelEvent(E) /\ curr_time' = E[1].time
  BY DEF QueueInv, Pops, NextEvent
<1>2. E \in Seq(Event) /\ Len(E) \in Nat \ {0} /\ E[1] \in Event
  BY <1>1 DEF Heap
<1>3. E' \in Heap /\ Len(E') = Len(E) - 1 /\ Elements(E') = {E[i] : i \in 2 .. Len(E)}
  BY <1>1, DelEventHeap
<1>4. 1 .. Len(E) = {1} \cup 2 .. Len(E)
  BY <1>2
<1>5. Elements(E) = Elements(E') \cup {E[1]}
  BY <1>3, <1>4 DEF Elements
<1>6. E[1].time \in Int
  BY <1>2 DEF Event
<1> QED
  BY <1>1, <1>2, <1>3, <1>5, <1>6 DEF Pops, NextEvent

\* The next visitor of a kind is among those noted down.
LEMMA ServeFacts ==
    ASSUME QueueInv, NEW k \in Kind, Serve(k)
    PROVE  /\ event' \in Event /\ event'.type = k
           /\ curr[k] + 1 <= Len(tids[k])
           /\ ~LettingIn /\ ~Serving
<1>1. main = "service" /\ wait[k] > 0 /\ event' = Q[k][curr[k] + 1]
  BY DEF Serve
<1>2. ~LettingIn /\ ~Serving
  BY <1>1 DEF LettingIn, Serving
<1>3. wait[k] \in Nat /\ curr[k] \in Nat
  BY DEF QueueInv, Flags
<1>4. /\ Q[k] \in Seq(Event) /\ tids[k] \in Seq(Nat) /\ Len(Q[k]) = Len(tids[k])
      /\ Len(tids[k]) \in Nat
  BY DEF QueueInv, Typed, TokenInv, Counted
<1>5. wait[k] + curr[k] = Len(tids[k])
  BY <1>2, <1>3, <1>4 DEF QueueInv, Waiting, Num
<1>6. curr[k] + 1 \in 1 .. Len(tids[k]) /\ curr[k] + 1 \in DOMAIN Q[k]
  BY <1>1, <1>3, <1>4, <1>5
<1>7. event' \in Event
  BY <1>1, <1>4, <1>6
<1>8. event'.type = k
  BY <1>1, <1>6 DEF QueueInv, Waiting
<1> QED
  BY <1>2, <1>6, <1>7, <1>8

LEMMA EventStep ==
    ASSUME QueueInv, [Next]_vars
    PROVE  event' \in Event
<1>1. event \in Event
  BY DEF QueueInv, Typed
<1>2. CASE Arrive
  BY <1>1, <1>2, PopFacts DEF Arrive
<1>3. ASSUME NEW k \in Kind, Serve(k)
      PROVE  event' \in Event
  BY <1>3, ServeFacts
<1>4. CASE ~Arrive /\ ~ \E k \in Kind : Serve(k)
  <2>1. event' = event
    BY <1>4 DEF Next, MainSteps, DoctorSteps, VisitorSteps, Terminated, vars, local, DoctorDone, EndSession, JoinDoctor,
       CreateVisitor, AwaitInit, NoService, EngageDoctor, AwaitDoctor,
       CallVisitor, JoinVisitor, Exit, DoctorLocks, DoctorCalls, DoctorLeaves, CopyParam,
       SignalInit, AwaitTurn, EnterChamber, SpuriousMain, SpuriousDoctor, SpuriousVisitor
  <2> QED
    BY <1>1, <2>1
<1> QED
  BY <1>2, <1>3, <1>4

LEMMA FlagsStep ==
    ASSUME QueueInv, [Next]_vars
    PROVE  Flags'
<1> USE DEF Flags
<1>0. Flags /\ Turn /\ Typed(Event)
  BY DEF QueueInv
<1>1. CASE DoctorDone
  BY <1>0, <1>1, PopFacts DEF DoctorDone
<1>2. CASE EndSession
  BY <1>0, <1>2 DEF EndSession, SignalDoctor
<1>3. CASE JoinDoctor
  BY <1>0, <1>3 DEF JoinDoctor, shared
<1>4. CASE Arrive
  <2> DEFINE k == NextEvent(E).type
  <2>2. k \in Kind /\ curr_time' \in Int /\ wait' \in {wait, [wait EXCEPT ![k] = @ + 1]}
        /\ main' \in {"pop", "create"} /\ UNCHANGED <<curr, doc_free, doctor>>
    BY <1>4, PopFacts DEF Arrive
  <2> HIDE DEF k
  <2> QED
    BY <1>0, <2>2
<1>5. CASE CreateVisitor
  BY <1>0, <1>5 DEF CreateVisitor, shared
<1>6. CASE AwaitInit
  BY <1>0, <1>6 DEF AwaitInit
<1>7. ASSUME NEW k \in Kind, Serve(k)
      PROVE  Flags'
  BY <1>0, <1>7 DEF Serve
<1>8. CASE NoService
  BY <1>0, <1>8 DEF NoService, shared
<1>9. CASE EngageDoctor
  BY <1>0, <1>9 DEF EngageDoctor, shared, SignalDoctor
<1>10. CASE AwaitDoctor
  BY <1>0, <1>10 DEF AwaitDoctor, shared
<1>11. CASE CallVisitor
  BY <1>0, <1>11 DEF CallVisitor, Turn, Serving
<1>12. CASE JoinVisitor
  BY <1>0, <1>12 DEF JoinVisitor, shared
<1>13. CASE Exit
  BY <1>0, <1>13 DEF Exit, shared
<1>14. CASE DoctorSteps
  BY <1>0, <1>14 DEF DoctorSteps, DoctorLocks, DoctorCalls, DoctorLeaves, shared
<1>15. ASSUME NEW i \in DOMAIN visitor, VisitorSteps(i) \/ SpuriousVisitor(i)
       PROVE  Flags'
  BY <1>0, <1>15 DEF VisitorSteps, CopyParam, SignalInit, AwaitTurn, EnterChamber,
                     SpuriousVisitor, shared
<1>16. CASE SpuriousMain \/ SpuriousDoctor
  BY <1>0, <1>16 DEF SpuriousMain, SpuriousDoctor, shared
<1>17. CASE UNCHANGED vars
  BY <1>0, <1>17 DEF vars, shared
<1> QED
  BY <1>1, <1>2, <1>3, <1>4, <1>5, <1>6, <1>7, <1>8, <1>9, <1>10, <1>11, <1>12, <1>13,
     <1>14, <1>15, <1>16, <1>17
  DEF Next, MainSteps, Terminated

LEMMA TurnStep ==
    ASSUME QueueInv, [Next]_vars
    PROVE  Turn'
<1> USE DEF Turn, Serving, Engaged
<1>0. Turn /\ LocksInv /\ doc_session_end \in {0, 1}
  BY DEF QueueInv, Typed
<1>1. CASE DoctorDone
  BY <1>0, <1>1, PopFacts DEF DoctorDone
<1>2. CASE EndSession
  BY <1>0, <1>2 DEF EndSession
<1>3. CASE JoinDoctor
  BY <1>0, <1>3 DEF JoinDoctor, shared
<1>4. CASE Arrive
  BY <1>0, <1>4, PopFacts DEF Arrive
<1>5. CASE CreateVisitor
  BY <1>0, <1>5 DEF CreateVisitor, shared
<1>6. CASE AwaitInit
  BY <1>0, <1>6 DEF AwaitInit
<1>7. ASSUME NEW k \in Kind, Serve(k)
      PROVE  Turn'
  BY <1>0, <1>7, ServeFacts DEF Serve, MayServe
<1>8. CASE NoService
  BY <1>0, <1>8 DEF NoService, shared
<1>9. CASE EngageDoctor
  BY <1>0, <1>9 DEF EngageDoctor, shared, local
<1>10. CASE AwaitDoctor
  BY <1>0, <1>10 DEF AwaitDoctor, shared, local
<1>11. CASE CallVisitor
  BY <1>0, <1>11 DEF CallVisitor
<1>12. CASE JoinVisitor
  BY <1>0, <1>12 DEF JoinVisitor, shared
<1>13. CASE Exit
  BY <1>0, <1>13 DEF Exit, shared
<1>14. CASE DoctorSteps
  BY <1>0, <1>14 DEF DoctorSteps, DoctorLocks, DoctorCalls, DoctorLeaves, shared, local, LocksInv
<1>15. ASSUME NEW i \in DOMAIN visitor, VisitorSteps(i) \/ SpuriousVisitor(i)
       PROVE  Turn'
  BY <1>0, <1>15 DEF VisitorSteps, CopyParam, SignalInit, AwaitTurn, EnterChamber,
                     SpuriousVisitor, shared, local
<1>16. CASE SpuriousMain \/ SpuriousDoctor
  BY <1>0, <1>16 DEF SpuriousMain, SpuriousDoctor, shared, local
<1>17. CASE UNCHANGED vars
  BY <1>0, <1>17 DEF vars, shared, local
<1> QED
  BY <1>1, <1>2, <1>3, <1>4, <1>5, <1>6, <1>7, <1>8, <1>9, <1>10, <1>11, <1>12, <1>13,
     <1>14, <1>15, <1>16, <1>17
  DEF Next, MainSteps, Terminated

\* Only an end that is taken out, and one that is put in, changes where it is.
LEMMA OutKept ==
    ASSUME QueueInv, [Next]_vars, ~DoctorDone, ~JoinVisitor
    PROVE  Out' <=> Out
<1> USE DEF Out, Serving, Engaged
<1>0. Turn
  BY DEF QueueInv
<1>2. CASE EndSession
  BY <1>0, <1>2 DEF EndSession, Turn
<1>3. CASE JoinDoctor
  BY <1>3 DEF JoinDoctor, shared
<1>4. CASE Arrive
  BY <1>4, PopFacts DEF Arrive
<1>5. CASE CreateVisitor
  BY <1>5 DEF CreateVisitor, shared
<1>6. CASE AwaitInit
  BY <1>6 DEF AwaitInit
<1>7. ASSUME NEW k \in Kind, Serve(k)
      PROVE  Out' <=> Out
  BY <1>7 DEF Serve, MayServe
<1>8. CASE NoService
  BY <1>8 DEF NoService, shared
<1>9. CASE EngageDoctor
  BY <1>9 DEF EngageDoctor, shared
<1>10. CASE AwaitDoctor
  BY <1>10 DEF AwaitDoctor, shared
<1>11. CASE CallVisitor
  BY <1>11 DEF CallVisitor
<1>13. CASE Exit
  BY <1>13 DEF Exit, shared
<1>14. CASE DoctorSteps
  BY <1>0, <1>14 DEF DoctorSteps, DoctorLocks, DoctorCalls, DoctorLeaves, shared, Turn
<1>15. ASSUME NEW i \in DOMAIN visitor, VisitorSteps(i) \/ SpuriousVisitor(i)
       PROVE  Out' <=> Out
  BY <1>15 DEF VisitorSteps, CopyParam, SignalInit, AwaitTurn, EnterChamber,
                     SpuriousVisitor, shared
<1>16. CASE SpuriousMain \/ SpuriousDoctor
  BY <1>16 DEF SpuriousMain, SpuriousDoctor, shared
<1>17. CASE UNCHANGED vars
  BY <1>17 DEF vars, shared
<1> QED
  BY <1>2, <1>3, <1>4, <1>5, <1>6, <1>7, <1>8, <1>9, <1>10, <1>11, <1>13,
     <1>14, <1>15, <1>16, <1>17
  DEF Next, MainSteps, Terminated

\* The steps that leave the queue alone, and the threads but for a new one.
LEMMA QueueKept ==
    ASSUME QueueInv, [Next]_vars, ~DoctorDone, ~Arrive, ~JoinVisitor
    PROVE  /\ E' = E
           /\ Len(visitor') + Num(main' = "create") = Len(visitor) + Num(main = "create")
<1>0. visitor \in Seq(Body(Event)) /\ Len(visitor) \in Nat
  BY DEF QueueInv, Typed
<1>1. CASE CreateVisitor
  BY <1>0, <1>1 DEF CreateVisitor, Num
<1>2. CASE ~CreateVisitor
  <2>1. E' = E /\ (main' = "create" <=> main = "create")
    BY <1>2 DEF Next, MainSteps, DoctorSteps, VisitorSteps, Terminated, vars, Num,
       EndSession, JoinDoctor, AwaitInit, Serve, NoService, EngageDoctor, AwaitDoctor, CallVisitor,
       Exit, DoctorLocks, DoctorCalls, DoctorLeaves, CopyParam, SignalInit, AwaitTurn,
       EnterChamber, Steps, SpuriousMain, SpuriousDoctor, SpuriousVisitor
  <2>2. CASE visitor' = visitor
    BY <2>1, <2>2
  <2>3. CASE CallVisitor
    BY <1>0, <2>1, <2>3 DEF CallVisitor
  <2>4. ASSUME NEW i \in DOMAIN visitor, VisitorSteps(i) \/ SpuriousVisitor(i)
        PROVE  Len(visitor') = Len(visitor)
    BY <1>0, <2>4 DEF VisitorSteps, CopyParam, SignalInit, AwaitTurn, EnterChamber, Steps,
                      SpuriousVisitor
  <2>5. CASE visitor' # visitor /\ ~CallVisitor
    <3>1. \E i \in DOMAIN visitor : VisitorSteps(i) \/ SpuriousVisitor(i)
      BY <1>2, <2>5 DEF Next, MainSteps, DoctorSteps, Terminated, vars, EndSession, JoinDoctor,
         AwaitInit, Serve, NoService, EngageDoctor, AwaitDoctor, Exit, DoctorLocks,
         DoctorCalls, DoctorLeaves, SpuriousMain, SpuriousDoctor
    <3> QED
      BY <2>1, <2>4, <3>1
  <2> QED
    BY <2>1, <2>2, <2>3, <2>5
<1> QED
  BY <1>1, <1>2

LEMMA QueueStep ==
    ASSUME QueueInv, [Next]_vars
    PROVE  E' \in Heap /\ Ends' /\ Bounded'
<1>0. /\ E \in Heap /\ Ends /\ Bounded /\ Turn /\ Flags
      /\ Len(E) \in Nat /\ Len(visitor) \in Nat
  BY DEF QueueInv, Heap, Typed
<1>1. CASE DoctorDone
  <2>1. /\ E' \in Heap /\ Len(E') = Len(E) - 1
        /\ \A e \in Elements(E') : e \in Elements(E)
        /\ Out' /\ visitor' = visitor
        /\ main = "pop" /\ main' # "create" /\ NextEvent(E).type = "D"
    BY <1>1, PopFacts DEF DoctorDone, Out
  <2>2. Ends'
    BY <1>0, <2>1 DEF Ends
  <2>3. Bounded'
    BY <1>0, <2>1 DEF Bounded, Num
  <2> QED
    BY <2>1, <2>2, <2>3
<1>2. CASE Arrive
  <2>1. /\ E' \in Heap /\ Len(E') = Len(E) - 1
        /\ \A e \in Elements(E') : e \in Elements(E)
        /\ \A e \in Elements(E) : e \in Elements(E') \/ e = NextEvent(E)
        /\ visitor' = visitor
        /\ main = "pop" /\ NextEvent(E).type \in Kind
    BY <1>2, PopFacts DEF Arrive
  <2>2. Out' <=> Out
    BY <1>2, <2>1, OutKept DEF DoctorDone, JoinVisitor, Pops, Kind
  <2>3. \A e \in Elements(E) : e.type = "D" => e \in Elements(E')
    BY <2>1 DEF Kind
  <2>4. Ends'
    BY <1>0, <2>1, <2>2, <2>3 DEF Ends
  <2>5. Bounded'
    <3>1. PICK f \in Files :
              Len(visitor) + Num(main = "create") + Len(E) + Num(Out) <= Len(f) + 1
      BY <1>0 DEF Bounded
    <3>2. Num(Out') = Num(Out) /\ Num(main = "create") = 0 /\ Num(main' = "create") \in {0, 1}
          /\ Num(Out) \in {0, 1}
      BY <2>1, <2>2 DEF Num
    <3>3. Len(f) \in Nat
      BY FilesAssumption
    <3>4. Len(visitor') + Num(main' = "create") + Len(E') + Num(Out') <= Len(f) + 1
      BY <1>0, <2>1, <3>1, <3>2, <3>3
    <3> QED
      BY <3>4 DEF Bounded
  <2> QED
    BY <2>1, <2>4, <2>5
<1>3. CASE JoinVisitor
  <2> DEFINE end == [type |-> "D", time |-> curr_time + event.duration, duration |-> 0]
  <2>1. end \in Event
    <3>1. event \in Event
      BY DEF QueueInv, Typed
    <3> QED
      BY <1>0, <3>1 DEF Event, EventKind, Flags
  <2>2. /\ E' = AddEvent(E, end) /\ visitor' = visitor
        /\ main = "join_visitor" /\ main' = "pop"
        /\ UNCHANGED <<doc_free, doc_session_end>>
    BY <1>3 DEF JoinVisitor, shared
  <2>3. end.type = "D" /\ end.duration = 0
    OBVIOUS
  <2> HIDE DEF end
  <2>4. /\ E' \in Heap /\ Len(E') = Len(E) + 1
        /\ Elements(E') = Elements(E) \cup {end}
    BY <1>0, <2>1, <2>2, AddEventHeap
  <2>5. Out /\ ~Out'
    BY <1>0, <2>2 DEF Out, Turn, Engaged, Serving
  <2>6. Ends'
    BY <1>0, <2>3, <2>4 DEF Ends
  <2>7. Bounded'
    <3>1. PICK f \in Files :
              Len(visitor) + Num(main = "create") + Len(E) + Num(Out) <= Len(f) + 1
      BY <1>0 DEF Bounded
    <3>2. Num(Out') = 0 /\ Num(Out) = 1 /\ Num(main' = "create") = 0 /\ Num(main = "create") = 0
      BY <2>2, <2>5 DEF Num
    <3>3. Len(f) \in Nat
      BY FilesAssumption
    <3>4. Len(visitor') + Num(main' = "create") + Len(E') + Num(Out') <= Len(f) + 1
      BY <1>0, <2>2, <2>4, <3>1, <3>2, <3>3
    <3> QED
      BY <3>4 DEF Bounded
  <2> QED
    BY <2>4, <2>6, <2>7
<1>4. CASE ~DoctorDone /\ ~Arrive /\ ~JoinVisitor
  <2>1. /\ E' = E
        /\ (Out' <=> Out)
        /\ Len(visitor') + Num(main' = "create") = Len(visitor) + Num(main = "create")
    BY <1>4, OutKept, QueueKept
  <2>2. Num(Out') = Num(Out)
    BY <2>1 DEF Num
  <2>3. Ends'
    BY <1>0, <2>1 DEF Ends
  <2>4. Bounded'
    BY <1>0, <2>1, <2>2 DEF Bounded
  <2> QED
    BY <1>0, <2>1, <2>3, <2>4
<1> QED
  BY <1>1, <1>2, <1>3, <1>4

LEMMA WaitingStep ==
    ASSUME QueueInv, [Next]_vars
    PROVE  Waiting'
<1>0. /\ Waiting /\ Typed(Event) /\ Counted /\ Flags /\ Turn
      /\ \A k \in Kind : /\ Q[k] \in Seq(Event) /\ tids[k] \in Seq(Nat)
                         /\ Len(Q[k]) \in Nat /\ Len(tids[k]) = Len(Q[k])
                         /\ wait[k] \in Nat /\ curr[k] \in Nat
  BY DEF QueueInv, TokenInv, Counted, Flags, Typed
<1>1. CASE /\ UNCHANGED <<wait, curr, tids, Q, event>>
           /\ (Serving' <=> Serving) /\ (LettingIn' <=> LettingIn)
  BY <1>0, <1>1 DEF Waiting, Num
<1>2. CASE Arrive
  <2> DEFINE k == NextEvent(E).type
  <2>1. /\ k \in Kind /\ main = "pop" /\ UNCHANGED <<curr, tids, Q>>
        /\ ~LettingIn /\ ~Serving
    BY <1>2, PopFacts DEF Arrive, LettingIn, Serving
  <2>2. CASE main' = "pop" /\ UNCHANGED <<wait, event>>
    BY <1>1, <2>1, <2>2 DEF LettingIn, Serving
  <2>3. CASE /\ main' = "create" /\ wait' = [wait EXCEPT ![k] = @ + 1] /\ event' = NextEvent(E)
             /\ ~(doc_session_end = 1 \/ (k \in Limited /\ cnt[k] + 1 > Quota[k]))
    <3>1. event'.type = k /\ LettingIn' /\ ~Serving'
      BY <2>3 DEF LettingIn, Serving
    <3> HIDE DEF k
    <3>2. /\ wait'[k] = wait[k] + 1
          /\ \A j \in Kind \ {k} : wait'[j] = wait[j]
      BY <1>0, <2>1, <2>3 DEF Flags
    <3>3. k \in Limited => Len(tids[k]) + 1 <= Quota[k]
      <4> SUFFICES ASSUME k \in Limited
                   PROVE  Len(tids[k]) + 1 <= Quota[k]
        OBVIOUS
      <4>1. cnt[k] \in Nat /\ Quota[k] \in Nat /\ doc_session_end \in {0, 1}
        BY <1>0, <2>1, QuotaAssumption DEF Typed
      <4>2. Open(k)
        BY <2>3, <4>1 DEF Open
      <4>3. cnt[k] = Len(tids[k])
        BY <1>0, <2>1, <4>2 DEF Counted
      <4> QED
        BY <2>3, <4>1, <4>3
    <3>4. ASSUME NEW j \in Kind
          PROVE  /\ wait'[j] + curr[j] + Num(Serving' /\ event'.type = j)
                        = Len(tids[j]) + Num(LettingIn' /\ event'.type = j)
                 /\ j \in Limited => Len(tids[j]) + Num(LettingIn' /\ event'.type = j) <= Quota[j]
      <4>1. wait[j] + curr[j] + 0 = Len(tids[j]) + 0
        BY <1>0, <2>1 DEF Waiting, Num
      <4>2. CASE j = k
        <5>1. Num(Serving' /\ event'.type = k) = 0 /\ Num(LettingIn' /\ event'.type = k) = 1
          BY <3>1 DEF Num
        <5>2. wait[k] \in Nat /\ curr[k] \in Nat /\ Len(tids[k]) \in Nat
          BY <1>0, <2>1
        <5> QED
          BY <3>2, <3>3, <4>1, <4>2, <5>1, <5>2
      <4>3. CASE j # k
        <5>1. j \in Limited => Len(tids[j]) + 0 <= Quota[j]
          BY <1>0, <2>1 DEF Waiting, Num
        <5> QED
          BY <1>0, <3>1, <3>2, <4>1, <4>3, <5>1 DEF Num
      <4> QED
        BY <4>2, <4>3
    <3> QED
      BY <1>0, <2>1, <3>4 DEF Waiting
  <2> QED
    BY <1>2, <2>2, <2>3 DEF Arrive
<1>3. CASE AwaitInit
  <2> DEFINE k == event.type
  <2>1. /\ main = "initialising" /\ UNCHANGED <<wait, curr, event>>
        /\ LettingIn /\ ~Serving /\ k \in Kind
    BY <1>0, <1>3 DEF AwaitInit, LettingIn, Serving, Counted
  <2>2. CASE main' = "asleep_init" /\ UNCHANGED <<Q, tids>>
    BY <1>1, <2>1, <2>2 DEF LettingIn, Serving
  <2>3. CASE /\ main' = "service"
             /\ Q' = [Q EXCEPT ![k] = Append(@, event)]
             /\ tids' = [tids EXCEPT ![k] = Append(@, Len(visitor))]
    <3>1. ~LettingIn' /\ ~Serving'
      BY <2>3 DEF LettingIn, Serving
    <3>2. /\ Len(tids'[k]) = Len(tids[k]) + 1
          /\ Q'[k] = Append(Q[k], event)
          /\ \A j \in Kind \ {k} : Q'[j] = Q[j] /\ tids'[j] = tids[j]
      BY <1>0, <2>1, <2>3 DEF Typed
    <3>3. \A n \in DOMAIN Q'[k] : Q'[k][n].type = k
      <4>1. event \in Event /\ event.type = k
        BY <1>0 DEF Typed
      <4>2. \A n \in DOMAIN Q[k] : Q[k][n].type = k
        BY <1>0, <2>1 DEF Waiting
      <4>3. Q[k] \in Seq(Event) /\ Len(Q[k]) \in Nat
        BY <1>0, <2>1
      <4> HIDE DEF k
      <4>4. ASSUME NEW n \in DOMAIN Append(Q[k], event)
            PROVE  Append(Q[k], event)[n].type = k
        <5>1. CASE n = Len(Q[k]) + 1
          BY <4>1, <4>3, <5>1
        <5>2. CASE n # Len(Q[k]) + 1
          BY <4>1, <4>2, <4>3, <5>2
        <5> QED
          BY <5>1, <5>2
      <4> QED
        BY <3>2, <4>4
    <3>4. ASSUME NEW j \in Kind
          PROVE  /\ wait[j] + curr[j] + 0 = Len(tids'[j]) + 0
                 /\ j \in Limited => Len(tids'[j]) + 0 <= Quota[j]
                 /\ \A n \in DOMAIN Q'[j] : Q'[j][n].type = j
      <4>1. CASE j = k
        <5>1. /\ wait[k] + curr[k] + 0 = Len(tids[k]) + 1
              /\ k \in Limited => Len(tids[k]) + 1 <= Quota[k]
          BY <1>0, <2>1 DEF Waiting, Num
        <5>2. wait[k] \in Nat /\ curr[k] \in Nat /\ Len(tids[k]) \in Nat
          BY <1>0, <2>1
        <5> HIDE DEF k
        <5>3. /\ wait[k] + curr[k] + 0 = Len(tids'[k]) + 0
              /\ k \in Limited => Len(tids'[k]) + 0 <= Quota[k]
          BY <3>2, <5>1, <5>2
        <5> QED
          BY <3>3, <4>1, <5>3
      <4>2. CASE j # k
        <5>1. /\ wait[j] + curr[j] + 0 = Len(tids[j]) + 0
              /\ j \in Limited => Len(tids[j]) + 0 <= Quota[j]
              /\ \A n \in DOMAIN Q[j] : Q[j][n].type = j
          BY <1>0, <2>1, <4>2 DEF Waiting, Num
        <5> QED
          BY <3>2, <4>2, <5>1
      <4> QED
        BY <4>1, <4>2
    <3> QED
      BY <2>1, <3>1, <3>4 DEF Waiting, Num
  <2> QED
    BY <1>3, <2>2, <2>3 DEF AwaitInit
<1>4. ASSUME NEW k \in Kind, Serve(k)
      PROVE  Waiting'
  <2>1. /\ event'.type = k /\ Serving' /\ ~LettingIn' /\ ~LettingIn /\ ~Serving
        /\ UNCHANGED <<curr, tids, Q>>
        /\ wait' = [wait EXCEPT ![k] = @ - 1]
    BY <1>4, ServeFacts DEF Serve, Serving, LettingIn
  <2>2. wait'[k] = wait[k] - 1 /\ \A j \in Kind \ {k} : wait'[j] = wait[j]
    BY <1>0, <2>1 DEF Flags
  <2>3. ASSUME NEW j \in Kind
        PROVE  /\ wait'[j] + curr[j] + Num(Serving' /\ event'.type = j) = Len(tids[j]) + 0
               /\ j \in Limited => Len(tids[j]) + 0 <= Quota[j]
               /\ \A n \in DOMAIN Q[j] : Q[j][n].type = j
    <3>1. /\ wait[j] + curr[j] + 0 = Len(tids[j]) + 0
          /\ j \in Limited => Len(tids[j]) + 0 <= Quota[j]
          /\ \A n \in DOMAIN Q[j] : Q[j][n].type = j
      BY <1>0, <2>1 DEF Waiting, Num
    <3>2. CASE j = k
      <4>1. Num(Serving' /\ event'.type = k) = 1
        BY <2>1 DEF Num
      <4>2. wait[k] \in Nat /\ curr[k] \in Nat /\ Len(tids[k]) \in Nat
        BY <1>0
      <4> QED
        BY <2>2, <3>1, <3>2, <4>1, <4>2
    <3>3. CASE j # k
      BY <1>0, <2>1, <2>2, <3>1, <3>3 DEF Num
    <3> QED
      BY <3>2, <3>3
  <2> QED
    BY <2>1, <2>3 DEF Waiting, Num
<1>5. CASE CallVisitor
  <2> DEFINE k == event.type
  <2>1. /\ Serving /\ ~Serving' /\ ~LettingIn' /\ ~LettingIn /\ k \in Kind
        /\ UNCHANGED <<wait, tids, Q, event>>
        /\ curr' = [curr EXCEPT ![k] = @ + 1]
    BY <1>0, <1>5 DEF CallVisitor, Serving, LettingIn, Turn, local
  <2>2. curr'[k] = curr[k] + 1 /\ \A j \in Kind \ {k} : curr'[j] = curr[j]
    BY <1>0, <2>1 DEF Flags
  <2>3. ASSUME NEW j \in Kind
        PROVE  /\ wait[j] + curr'[j] + 0 = Len(tids[j]) + 0
               /\ j \in Limited => Len(tids[j]) + 0 <= Quota[j]
               /\ \A n \in DOMAIN Q[j] : Q[j][n].type = j
    <3>1. /\ wait[j] + curr[j] + Num(k = j) = Len(tids[j]) + 0
          /\ j \in Limited => Len(tids[j]) + 0 <= Quota[j]
          /\ \A n \in DOMAIN Q[j] : Q[j][n].type = j
      BY <1>0, <2>1 DEF Waiting, Num
    <3>2. CASE j = k
      <4>1. Num(k = k) = 1
        BY DEF Num
      <4>2. wait[k] \in Nat /\ curr[k] \in Nat /\ Len(tids[k]) \in Nat
        BY <1>0, <2>1
      <4> HIDE DEF k
      <4> QED
        BY <2>2, <3>1, <3>2, <4>1, <4>2
    <3>3. CASE j # k
      BY <1>0, <2>1, <2>2, <3>1, <3>3 DEF Num
    <3> QED
      BY <3>2, <3>3
  <2> QED
    BY <2>1, <2>3 DEF Waiting, Num
<1>6. CASE ~Arrive /\ ~AwaitInit /\ ~CallVisitor /\ ~ \E k \in Kind : Serve(k)
  <2>1. /\ UNCHANGED <<wait, curr, tids, Q, event>>
        /\ (Serving' <=> Serving) /\ (LettingIn' <=> LettingIn)
    <3> USE DEF Serving, LettingIn, shared, local
    <3>1. CASE DoctorDone \/ EndSession \/ JoinDoctor \/ NoService
      BY <3>1 DEF DoctorDone, Pops, EndSession, JoinDoctor, NoService
    <3>2. CASE CreateVisitor \/ EngageDoctor \/ AwaitDoctor
      BY <3>2 DEF CreateVisitor, EngageDoctor, AwaitDoctor
    <3>3. CASE JoinVisitor \/ Exit \/ DoctorSteps
      BY <3>3 DEF JoinVisitor, Exit, DoctorSteps, DoctorLocks, DoctorCalls, DoctorLeaves
    <3>4. ASSUME NEW i \in DOMAIN visitor, VisitorSteps(i) \/ SpuriousVisitor(i)
          PROVE  /\ UNCHANGED <<wait, curr, tids, Q, event>>
                 /\ (Serving' <=> Serving) /\ (LettingIn' <=> LettingIn)
      BY <3>4 DEF VisitorSteps, CopyParam, SignalInit, AwaitTurn, EnterChamber, SpuriousVisitor
    <3>5. CASE SpuriousMain \/ SpuriousDoctor \/ UNCHANGED vars
      BY <3>5 DEF SpuriousMain, SpuriousDoctor, vars
    <3> QED
      BY <1>6, <3>1, <3>2, <3>3, <3>4, <3>5 DEF Next, MainSteps, Terminated
  <2> QED
    BY <1>1, <2>1
<1> QED
  BY <1>2, <1>3, <1>4, <1>5, <1>6

LEMMA QueueInvInit == Init => QueueInv
<1> SUFFICES ASSUME Init
             PROVE  QueueInv
  OBVIOUS
<1>1. PICK f \in Files : E = AddEvent(InitEQ(f), NoEvent)
  BY DEF Init
<1>2. f \in Seq(Event) /\ Len(f) \in Nat /\ \A i \in 1 .. Len(f) : f[i].type \in Kind
  BY FilesAssumption
<1>3. InitEQ(f) \in Heap /\ Len(InitEQ(f)) = Len(f) /\ Elements(InitEQ(f)) = Elements(f)
  BY <1>2, InitEQHeap, SameElements
<1>4. NoEvent \in Event /\ NoEvent.type = "D" /\ NoEvent.duration = 0
  BY DEF NoEvent, Event, EventKind
<1>5. E \in Heap /\ Len(E) = Len(f) + 1 /\ Elements(E) = Elements(f) \cup {NoEvent}
  BY <1>1, <1>3, <1>4, AddEventHeap
<1>6. \A e \in Elements(f) : e.type # "D"
  BY <1>2 DEF Elements, Kind
<1>7. Ends
  BY <1>4, <1>5, <1>6 DEF Ends
<1>8. Bounded
  <2>1. ~Out /\ main = "pop" /\ visitor = <<>>
    BY DEF Init, Out, Engaged, Serving
  <2>2. Len(visitor) = 0 /\ Num(main = "create") = 0 /\ Num(Out) = 0
    BY <2>1 DEF Num
  <2> QED
    BY <1>2, <1>5, <2>2 DEF Bounded
<1>9. Typed(Event)
  BY <1>4 DEF Init, Typed, Card, Kind
<1>10. Flags /\ Turn
  BY DEF Init, Flags, Turn, Engaged, Serving
<1>11. Waiting
  <2>1. \A k \in Kind : Len(tids[k]) = 0 /\ DOMAIN Q[k] = {} /\ wait[k] = 0 /\ curr[k] = 0
    BY DEF Init
  <2>2. ~Serving /\ ~LettingIn
    BY DEF Init, Serving, LettingIn
  <2> QED
    BY <2>1, <2>2, QuotaAssumption DEF Waiting, Num
<1>12. LocksInv /\ TokenInv
  BY TokenInit DEF Init, LocksInv
<1> QED
  BY <1>5, <1>7, <1>8, <1>9, <1>10, <1>11, <1>12 DEF QueueInv

LEMMA QueueInvStep == QueueInv /\ [Next]_vars => QueueInv'
<1> SUFFICES ASSUME QueueInv, [Next]_vars
             PROVE  QueueInv'
  OBVIOUS
<1>1. LocksInv'
  BY LocksStep DEF QueueInv
<1>2. event' \in Event
  BY EventStep
<1>3. TokenInv' /\ Typed(Event)'
  BY <1>2, TypedStep DEF QueueInv
<1> QED
  BY <1>1, <1>3, FlagsStep, TurnStep, QueueStep, WaitingStep DEF QueueInv

LEMMA QueueInvInOrder == QueueInv => QueueInOrder
<1> SUFFICES ASSUME QueueInv
             PROVE  TypeOK /\ EarliestNext
  BY DEF QueueInOrder
<1>0. /\ E \in Heap /\ E \in Seq(Event) /\ Len(E) \in Nat /\ Typed(Event) /\ Flags
      /\ LocksInv /\ Ends /\ Waiting /\ Bounded
  BY DEF QueueInv, Heap
<1>1. EarliestNext
  <2> SUFFICES ASSUME NEW i \in 1 .. Len(E), ~Before(E[1], E[i])
               PROVE  E[1] = E[i]
    BY <1>0 DEF EarliestNext, NextEvent
  <2>1. E[1].time = E[i].time /\ E[1].type = "D" /\ E[i].type = "D"
    BY <1>0, RootFirst DEF NotAfter
  <2>2. E[1] \in Elements(E) /\ E[i] \in Elements(E) /\ E[1] \in Event /\ E[i] \in Event
    BY <1>0 DEF Elements
  <2>3. E[1].duration = 0 /\ E[i].duration = 0
    BY <1>0, <2>1, <2>2 DEF Ends
  <2> QED
    BY <2>1, <2>2, <2>3 DEF Event
<1>2. tids \in [Kind -> Seq(Thread)]
  <2>1. PICK f \in Files :
            Len(visitor) + Num(main = "create") + Len(E) + Num(Out) <= Len(f) + 1
    BY <1>0 DEF Bounded
  <2>2. Len(E) + Num(Out) >= 1 /\ Num(main = "create") \in {0, 1} /\ Num(Out) \in {0, 1}
    BY <1>0 DEF Ends, Elements, Num
  <2>3. f \in Seq(Event) /\ Len(visitor) \in Nat
    BY <1>0, FilesAssumption DEF Typed
  <2>4. Len(visitor) <= Len(f)
    BY <1>0, <2>1, <2>2, <2>3
  <2>5. DOMAIN visitor \subseteq Thread
    <3>1. DOMAIN visitor = 1 .. Len(visitor) /\ DOMAIN f = 1 .. Len(f)
      BY <1>0, <2>3 DEF Typed
    <3>2. DOMAIN visitor \subseteq DOMAIN f
      BY <2>3, <2>4, <3>1
    <3> QED
      BY <3>2 DEF Thread
  <2>6. ASSUME NEW k \in Kind
        PROVE  tids[k] \in Seq(Thread)
    <3>1. tids[k] \in Seq(Nat)
      BY <1>0 DEF Typed
    <3>2. \A n \in DOMAIN tids[k] : tids[k][n] \in Thread
      BY <2>5 DEF QueueInv, TokenInv, Tokens
    <3> QED
      BY <3>1, <3>2
  <2> QED
    BY <1>0, <2>6 DEF Typed
<1>3. \A k \in Limited : wait[k] <= Quota[k]
  <2> SUFFICES ASSUME NEW k \in Limited
               PROVE  wait[k] <= Quota[k]
    OBVIOUS
  <2>1. k \in Kind /\ Quota[k] \in Nat
    BY QuotaAssumption DEF Kind, Limited
  <2>2. tids[k] \in Seq(Nat) /\ Len(tids[k]) \in Nat /\ wait[k] \in Nat /\ curr[k] \in Nat
    BY <1>0, <2>1 DEF Typed, Flags
  <2>3. /\ wait[k] + curr[k] + Num(Serving /\ event.type = k)
               = Len(tids[k]) + Num(LettingIn /\ event.type = k)
        /\ Len(tids[k]) + Num(LettingIn /\ event.type = k) <= Quota[k]
    BY <1>0, <2>1 DEF Waiting
  <2>4. Num(Serving /\ event.type = k) \in {0, 1} /\ Num(LettingIn /\ event.type = k) \in {0, 1}
    BY DEF Num
  <2> QED
    BY <2>1, <2>2, <2>3, <2>4
<1>4. TypeOK
  BY <1>0, <1>2, <1>3 DEF TypeOK, Typed, Flags, LocksInv, Card, Body, Place
<1> QED
  BY <1>1, <1>4

\* Whatever main does to the heap of event.c, nextevent returns an event that
\* none comes before; and no more visitors wait than the quota, no more
\* threads are noted down than visitors come, and an entry is read only once
\* it has been written.
THEOREM QueueOrdered == Spec => []QueueInOrder
<1> QED
  BY QueueInvInit, QueueInvStep, QueueInvInOrder, PTL DEF Spec

-----------------------------------------------------------------------------
(* The order of service and of the printed lines                           *)

Saying == {"arrives", "leaves", "next_visitor", "in_chamber"}
Printed == [at : Int, who : Kind \cup {"D"}, id : Nat, says : Saying, until : Int]

\* The visitor who has been called has yet to go in.
Pending ==
    /\ main = "join_visitor"
    /\ visitor[tids[event.type][curr[event.type]]].pc # "gone"

\* The doctor's last line is not followed yet by a visitor's.
Announced ==
    \/ main \in {"await", "asleep_done"} /\ doc_state = 0
    \/ main = "call"
    \/ Pending

NoDelay ==
    /\ \A e \in Elements(E) : e.duration >= 0
    /\ \A k \in Kind : \A n \in DOMAIN Q[k] : Q[k][n].duration >= 0
    /\ event.duration >= 0

\* A thread that knows its number is noted down under it, the newest one
\* after the handshake.
Placed ==
    /\ \A i \in DOMAIN visitor :
           LET v == visitor[i]
           IN  v.pc \in {"turn", "asleep", "gone"} =>
                   \/ v.mine.id \in DOMAIN tids[v.kind] /\ tids[v.kind][v.mine.id] = i
                   \/ Handshake /\ i = Len(visitor) /\ v.pc # "gone"
    /\ main = "join_visitor" => event.type \in Kind /\ curr[event.type] \in DOMAIN tids[event.type]

\* Those who have gone in are the ones called, but for the last one.
Called ==
    \A k \in Kind :
        /\ curr[k] <= Len(tids[k])
        /\ \A n \in DOMAIN tids[k] :
               /\ n > curr[k] => visitor[tids[k][n]].pc # "gone"
               /\ n <= curr[k] => \/ visitor[tids[k][n]].pc = "gone"
                                  \/ Pending /\ event.type = k /\ n = curr[k]

Last == transcript[Len(transcript)]

\* Time does not run back, from the first arrival on.
Clock ==
    /\ \A j \in DOMAIN transcript : transcript[j].at <= curr_time
    /\ \/ transcript = <<>> /\ main = "pop"
       \/ \A e \in Elements(E) : curr_time <= e.time

LastLine ==
    /\ Announced => transcript # <<>> /\ Last.says = "next_visitor" /\ Last.at = curr_time
    /\ ~Announced => transcript = <<>> \/ Last.says # "next_visitor"

Closed ==
    \A j \in DOMAIN transcript :
        transcript[j].who = "D" /\ transcript[j].says = "leaves" => doc_session_end = 1

\* Line j is the visit of number n of kind k.
VisitAt(j, k, n) ==
    /\ transcript[j].says = "in_chamber"
    /\ transcript[j].who = k
    /\ transcript[j].id = n

\* There is a visit for each number called, but for the last one.
Visits ==
    /\ \A k \in Kind : \A n \in 1 .. curr[k] :
           \/ \E j \in DOMAIN transcript : VisitAt(j, k, n)
           \/ Pending /\ event.type = k /\ n = curr[k]
    /\ \A j \in DOMAIN transcript :
           transcript[j].says = "in_chamber" =>
               LET k == transcript[j].who
               IN  /\ k \in Kind
                   /\ transcript[j].id \in 1 .. curr[k]
                   /\ ~(Pending /\ event.type = k /\ transcript[j].id = curr[k])
    /\ \A i, j \in DOMAIN transcript :
           /\ i < j
           /\ transcript[i].says = "in_chamber" /\ transcript[j].says = "in_chamber"
           /\ transcript[i].who = transcript[j].who
           => transcript[i].id < transcript[j].id

\* Whoever is yet to come and goes before k comes after t.
Later(k, t) == \A e \in Elements(E) : e.type \in Above(k) => e.time > t

\* While the doctor is free nobody waits but the one who has just come.
Service ==
    /\ main = "pop" /\ MayServe => \A k \in Kind : wait[k] = 0
    /\ (LettingIn \/ main = "service") /\ MayServe =>
           \A k \in Kind : wait[k] > 0 => Later(k, curr_time)
    /\ Engaged => /\ Later(event.type, curr_time)
                  /\ \A a \in Above(event.type) : wait[a] = 0
    /\ main = "join_doctor" => doc_session_end = 1

\* Who goes before a visitor who has been in has come later or been in earlier.
Past ==
    \A j \in DOMAIN transcript :
        transcript[j].says = "in_chamber" =>
            LET k == transcript[j].who
                t == transcript[j].at
            IN  /\ Later(k, t)
                /\ LettingIn /\ event.type \in Above(k) => event.time > t
                /\ \A a \in Above(k) : \A n \in DOMAIN Q[a] :
                       Q[a][n].time > t \/ \E i \in 1 .. j - 1 : VisitAt(i, a, n)

OrderInv ==
    /\ QueueInv /\ NoDelay
    /\ Placed /\ Called
    /\ transcript \in Seq(Printed)
    /\ Clock /\ LastLine /\ Closed /\ TranscriptInOrder
    /\ Visits /\ Service /\ Past

\* Only the visitor who has been called goes in.
LEMMA EnterFacts ==
    ASSUME OrderInv, NEW i \in DOMAIN visitor, EnterChamber(i)
    PROVE  LET k == visitor[i].kind
           IN  /\ k \in Kind /\ main = "join_visitor" /\ event.type = k
               /\ curr[k] \in DOMAIN tids[k] /\ tids[k][curr[k]] = i
               /\ visitor[i].mine.id = curr[k]
               /\ Pending
<1> DEFINE k == visitor[i].kind
           n == visitor[i].mine.id
<1>1. visitor[i].pc = "turn" /\ curr[k] = n
  BY DEF EnterChamber, Steps
<1>2. visitor[i] \in Body(Event) /\ k \in Kind /\ n \in Nat
  <2>1. visitor[i] \in Body(Event)
    BY DEF OrderInv, QueueInv, Typed
  <2> QED
    BY <2>1 DEF Body, Card
<1>3. CASE n \in DOMAIN tids[k] /\ tids[k][n] = i
  <2>1. Pending /\ event.type = k
    BY <1>1, <1>2, <1>3 DEF OrderInv, Called
  <2> QED
    BY <1>1, <1>2, <1>3, <2>1 DEF Pending
<1>4. CASE Handshake /\ i = Len(visitor)
  <2>1. k = event.type /\ visitor[i].mine = param[event.type]
        /\ param[event.type] = [e |-> event, id |-> cnt[event.type]]
    BY <1>1, <1>4 DEF OrderInv, QueueInv, TokenInv, NewThread
  <2>2. n = Len(tids[k]) + 1 /\ Len(tids[k]) \in Nat
    BY <1>2, <1>4, <2>1 DEF OrderInv, QueueInv, TokenInv, Counted, Handshake, LettingIn, Typed
  <2>3. n <= Len(tids[k])
    BY <1>1, <1>2 DEF OrderInv, Called
  <2> QED
    BY <2>2, <2>3
<1> QED
  BY <1>1, <1>3, <1>4 DEF OrderInv, Placed

LEMMA NoDelayStep ==
    ASSUME OrderInv, [Next]_vars
    PROVE  NoDelay'
<1>0. /\ NoDelay /\ QueueInv /\ Typed(Event)
      /\ \A e \in Elements(E) : e.duration >= 0
      /\ E \in Heap
  BY DEF OrderInv, QueueInv, NoDelay
<1>1. CASE DoctorDone
  <2>1. \A e \in Elements(E') : e \in Elements(E)
    BY <1>0, <1>1, PopFacts DEF DoctorDone
  <2>2. UNCHANGED <<Q, event>>
    BY <1>1 DEF DoctorDone, local
  <2> QED
    BY <1>0, <2>1, <2>2 DEF NoDelay
<1>2. CASE Arrive
  <2>1. /\ \A e \in Elements(E') : e \in Elements(E)
        /\ NextEvent(E) \in Elements(E)
    <3>1. E # <<>> /\ E \in Seq(Event)
      BY <1>0, <1>2 DEF Arrive, Pops, Heap
    <3>2. 1 \in 1 .. Len(E)
      BY <3>1
    <3> QED
      BY <1>0, <1>2, <3>2, PopFacts DEF Arrive, Elements, NextEvent
  <2>2. Q' = Q /\ event' \in {event, NextEvent(E)}
    BY <1>2 DEF Arrive
  <2> QED
    BY <1>0, <2>1, <2>2 DEF NoDelay
<1>3. CASE AwaitInit
  <2> DEFINE k == event.type
  <2>1. E' = E /\ event' = event /\ k \in Kind
    BY <1>0, <1>3 DEF AwaitInit, QueueInv, TokenInv, Counted, LettingIn
  <2>2. CASE Q' = Q
    BY <1>0, <2>1, <2>2 DEF NoDelay
  <2>3. CASE Q' = [Q EXCEPT ![k] = Append(@, event)]
    <3>1. ASSUME NEW j \in Kind, NEW n \in DOMAIN Q'[j]
          PROVE  Q'[j][n].duration >= 0
      <4>1. CASE j = k /\ n = Len(Q[k]) + 1
        BY <1>0, <2>1, <2>3, <4>1 DEF NoDelay, Typed
      <4>2. CASE ~(j = k /\ n = Len(Q[k]) + 1)
        <5>1. Q \in [Kind -> Seq(Event)] /\ event \in Event
          BY <1>0 DEF Typed
        <5> HIDE DEF k
        <5>2. n \in DOMAIN Q[j] /\ Q'[j][n] = Q[j][n]
          BY <2>1, <2>3, <4>2, <5>1
        <5> QED
          BY <1>0, <5>2 DEF NoDelay
      <4> QED
        BY <4>1, <4>2
    <3> QED
      BY <1>0, <2>1, <3>1 DEF NoDelay
  <2> QED
    BY <1>3, <2>2, <2>3 DEF AwaitInit
<1>4. ASSUME NEW k \in Kind, Serve(k)
      PROVE  NoDelay'
  <2>1. Q' = Q /\ E' = E /\ event' = Q[k][curr[k] + 1]
    BY <1>4 DEF Serve
  <2>2. curr[k] + 1 \in DOMAIN Q[k]
    <3>1. curr[k] \in Nat /\ Q[k] \in Seq(Event) /\ Len(Q[k]) = Len(tids[k])
      BY <1>0 DEF QueueInv, Flags, Typed, TokenInv, Counted
    <3>2. curr[k] + 1 <= Len(tids[k])
      BY <1>0, <1>4, ServeFacts
    <3> QED
      BY <3>1, <3>2
  <2> QED
    BY <1>0, <2>1, <2>2 DEF NoDelay
<1>5. CASE JoinVisitor
  <2> DEFINE end == [type |-> "D", time |-> curr_time + event.duration, duration |-> 0]
  <2>1. /\ E' = AddEvent(E, end)
        /\ UNCHANGED <<Q, event>>
    BY <1>5 DEF JoinVisitor, local
  <2>2. end \in Event
    BY <1>0 DEF QueueInv, Flags, Typed, Event, EventKind
  <2>3. end.duration = 0
    OBVIOUS
  <2> HIDE DEF end
  <2>4. Elements(E') = Elements(E) \cup {end}
    BY <1>0, <2>1, <2>2, AddEventHeap
  <2> QED
    BY <1>0, <2>1, <2>3, <2>4 DEF NoDelay
<1>6. CASE ~DoctorDone /\ ~Arrive /\ ~AwaitInit /\ ~JoinVisitor /\ ~ \E k \in Kind : Serve(k)
  <2>1. UNCHANGED <<E, Q, event>>
    BY <1>6 DEF Next, MainSteps, DoctorSteps, VisitorSteps, Terminated, vars, shared, local,
       EndSession, JoinDoctor, CreateVisitor, NoService, EngageDoctor, AwaitDoctor, CallVisitor,
       Exit, DoctorLocks, DoctorCalls, DoctorLeaves, CopyParam, SignalInit, AwaitTurn,
       EnterChamber, SpuriousMain, SpuriousDoctor, SpuriousVisitor
  <2> QED
    BY <1>0, <2>1 DEF NoDelay
<1> QED
  BY <1>1, <1>2, <1>3, <1>4, <1>5, <1>6

\* The steps in which nobody is noted down, called or goes in.
Still ==
    /\ UNCHANGED <<tids, curr>>
    /\ \/ main = "join_visitor" /\ main' = "join_visitor" /\ event' = event
       \/ main # "join_visitor" /\ main' # "join_visitor"
       \/ ~Pending /\ main' # "join_visitor"
    /\ Handshake => Handshake' /\ Len(visitor') = Len(visitor)
    /\ DOMAIN visitor \subseteq DOMAIN visitor'
    /\ \A i \in DOMAIN visitor : visitor'[i].pc = "gone" <=> visitor[i].pc = "gone"
    /\ \A i \in DOMAIN visitor' :
           visitor'[i].pc \in {"turn", "asleep", "gone"} =>
               \/ /\ i \in DOMAIN visitor /\ visitor[i].pc \in {"turn", "asleep", "gone"}
                  /\ visitor'[i].kind = visitor[i].kind /\ visitor'[i].mine = visitor[i].mine
               \/ Handshake' /\ i = Len(visitor') /\ visitor'[i].pc # "gone"

LEMMA StillStep ==
    ASSUME OrderInv, Still
    PROVE  Placed' /\ Called' /\ (Pending' <=> Pending)
<1>0. /\ Placed /\ Called /\ Tokens
      /\ visitor \in Seq(Body(Event)) /\ DOMAIN visitor = 1 .. Len(visitor)
  BY DEF OrderInv, QueueInv, TokenInv, Typed
<1>1. Pending' <=> Pending
  <2>1. CASE main = "join_visitor" /\ main' = "join_visitor" /\ event' = event
    <3> DEFINE k == event.type
    <3>1. k \in Kind /\ curr[k] \in DOMAIN tids[k]
      BY <1>0, <2>1 DEF Placed
    <3>2. tids[k][curr[k]] \in DOMAIN visitor
      BY <1>0, <3>1 DEF Tokens
    <3> QED
      BY <2>1, <3>1, <3>2 DEF Still, Pending
  <2>2. CASE ~(main = "join_visitor" /\ main' = "join_visitor" /\ event' = event)
    BY <2>2 DEF Still, Pending
  <2> QED
    BY <2>1, <2>2
<1>2. Placed'
  <2>1. ASSUME NEW i \in DOMAIN visitor', visitor'[i].pc \in {"turn", "asleep", "gone"}
        PROVE  LET v == visitor'[i]
               IN  \/ v.mine.id \in DOMAIN tids[v.kind] /\ tids[v.kind][v.mine.id] = i
                   \/ Handshake' /\ i = Len(visitor') /\ v.pc # "gone"
    BY <1>0, <2>1 DEF Still, Placed
  <2>2. main' = "join_visitor" => event'.type \in Kind /\ curr[event'.type] \in DOMAIN tids[event'.type]
    BY <1>0 DEF Still, Placed
  <2> QED
    BY <2>1, <2>2 DEF Still, Placed
<1>3. Called'
  <2>1. \A k \in Kind : \A n \in DOMAIN tids[k] :
            visitor'[tids[k][n]].pc = "gone" <=> visitor[tids[k][n]].pc = "gone"
    BY <1>0 DEF Tokens, Still
  <2>2. Pending => Pending' /\ event' = event
    BY <1>1 DEF Still, Pending
  <2>3. ASSUME NEW k \in Kind
        PROVE  /\ curr[k] <= Len(tids[k])
               /\ \A n \in DOMAIN tids[k] :
                      /\ n > curr[k] => visitor'[tids[k][n]].pc # "gone"
                      /\ n <= curr[k] => \/ visitor'[tids[k][n]].pc = "gone"
                                         \/ Pending' /\ event'.type = k /\ n = curr[k]
    BY <1>0, <2>1, <2>2 DEF Called
  <2> QED
    BY <2>3 DEF Called, Still
<1> QED
  BY <1>1, <1>2, <1>3

\* The threads move from place to place but for the three steps below.
LEMMA StillElse ==
    ASSUME OrderInv, [Next]_vars, ~AwaitInit, ~CallVisitor,
           ~ \E i \in DOMAIN visitor : EnterChamber(i)
    PROVE  Still
<1>0. /\ visitor \in Seq(Body(Event)) /\ DOMAIN visitor = 1 .. Len(visitor) /\ Len(visitor) \in Nat
      /\ NewThread /\ Flags
  BY DEF OrderInv, QueueInv, TokenInv, Typed
<1>1. CASE CreateVisitor
  <2> DEFINE new == [kind |-> event.type, pc |-> "start", mine |-> param[event.type]]
  <2>1. /\ visitor' = Append(visitor, new) /\ UNCHANGED <<tids, curr>>
        /\ main = "create" /\ main' = "initialising"
    BY <1>1 DEF CreateVisitor, shared
  <2>2. new.pc = "start"
    OBVIOUS
  <2> HIDE DEF new
  <2>3. /\ DOMAIN visitor' = 1 .. Len(visitor) + 1
        /\ \A i \in DOMAIN visitor : visitor'[i] = visitor[i]
        /\ visitor'[Len(visitor) + 1] = new
    BY <1>0, <2>1
  <2> QED
    BY <1>0, <2>1, <2>2, <2>3 DEF Still, Handshake
<1>2. CASE JoinVisitor
  <2>1. /\ main = "join_visitor" /\ main' = "pop" /\ ~Pending
        /\ UNCHANGED <<tids, curr, visitor>>
    BY <1>2 DEF JoinVisitor, shared, local, Pending
  <2> QED
    BY <2>1 DEF Still, Handshake
<1>3. ASSUME NEW k \in Kind, Serve(k)
      PROVE  Still
  BY <1>3 DEF Serve, Still, Handshake
<1>4. CASE DoctorDone \/ EndSession \/ JoinDoctor \/ Arrive
  BY <1>4 DEF DoctorDone, Pops, EndSession, JoinDoctor, Arrive, Still, Handshake, shared, local
<1>5. CASE NoService \/ EngageDoctor \/ AwaitDoctor \/ Exit
  BY <1>5 DEF NoService, EngageDoctor, AwaitDoctor, Exit, Still, Handshake, shared, local
<1>6. CASE DoctorSteps
  BY <1>6 DEF DoctorSteps, DoctorLocks, DoctorCalls, DoctorLeaves, Still, Handshake, shared, local
<1>7. CASE SpuriousMain \/ SpuriousDoctor \/ UNCHANGED vars
  BY <1>7 DEF SpuriousMain, SpuriousDoctor, vars, Still, Handshake, shared, local
<1>8. ASSUME NEW i \in DOMAIN visitor,
             AwaitTurn(i) \/ SpuriousVisitor(i) \/ SignalInit(i) \/ CopyParam(i)
      PROVE  Still
  <2>1. visitor[i] \in Body(Event)
    BY <1>0
  <2>2. ASSUME NEW p \in {"turn", "asleep"}, visitor' = [visitor EXCEPT ![i].pc = p]
        PROVE  /\ DOMAIN visitor' = DOMAIN visitor /\ Len(visitor') = Len(visitor)
               /\ visitor'[i].pc = p
               /\ visitor'[i].kind = visitor[i].kind /\ visitor'[i].mine = visitor[i].mine
               /\ \A j \in DOMAIN visitor : j # i => visitor'[j] = visitor[j]
    <3> DEFINE v == [visitor[i] EXCEPT !.pc = p]
    <3>1. v.pc = p /\ v.kind = visitor[i].kind /\ v.mine = visitor[i].mine
      BY <2>1 DEF Body
    <3>2. visitor' = [visitor EXCEPT ![i] = v]
      BY <2>2
    <3> HIDE DEF v
    <3> QED
      BY <1>0, <3>1, <3>2
  <2>3. CASE AwaitTurn(i) \/ SpuriousVisitor(i)
    <3>1. \E p \in {"turn", "asleep"} : visitor' = [visitor EXCEPT ![i].pc = p]
      BY <2>3 DEF AwaitTurn, SpuriousVisitor, Steps
    <3>2. visitor[i].pc \in {"turn", "asleep"} /\ UNCHANGED <<tids, curr, main, event>>
      BY <2>3 DEF AwaitTurn, SpuriousVisitor, Steps, shared, local
    <3> QED
      BY <2>2, <3>1, <3>2 DEF Still, Handshake
  <2>4. CASE SignalInit(i)
    <3>1. visitor' = [visitor EXCEPT ![i].pc = "turn"] /\ visitor[i].pc = "init"
      BY <2>4 DEF SignalInit, Steps
    <3>2. UNCHANGED <<tids, curr, event>> /\ main' \in {main, "initialising"}
          /\ (main' = main \/ main = "asleep_init")
      BY <2>4 DEF SignalInit, local
    <3>3. i = Len(visitor) /\ Handshake
      BY <1>0, <3>1 DEF NewThread
    <3>4. Handshake' /\ main # "join_visitor" /\ main' # "join_visitor"
      BY <3>2, <3>3 DEF Handshake
    <3> QED
      BY <2>2, <3>1, <3>2, <3>3, <3>4 DEF Still
  <2>5. CASE CopyParam(i)
    <3> DEFINE v == [visitor[i] EXCEPT !.pc = "init", !.mine = param[visitor[i].kind]]
    <3>1. v.pc = "init"
      BY <2>1 DEF Body
    <3>2. visitor' = [visitor EXCEPT ![i] = v] /\ visitor[i].pc = "start"
          /\ UNCHANGED <<tids, curr, main, event>>
      BY <2>5 DEF CopyParam, shared, local
    <3> HIDE DEF v
    <3>3. /\ DOMAIN visitor' = DOMAIN visitor /\ Len(visitor') = Len(visitor)
          /\ visitor'[i].pc = "init"
          /\ \A j \in DOMAIN visitor : j # i => visitor'[j] = visitor[j]
      BY <1>0, <3>1, <3>2
    <3> QED
      BY <3>2, <3>3 DEF Still, Handshake
  <2> QED
    BY <1>8, <2>3, <2>4, <2>5
<1> QED
  BY <1>1, <1>2, <1>3, <1>4, <1>5, <1>6, <1>7, <1>8
  DEF Next, MainSteps, VisitorSteps, Terminated

\* The newest thread is noted down under its number.
LEMMA NoteStep ==
    ASSUME OrderInv, AwaitInit
    PROVE  Placed' /\ Called' /\ ~Pending /\ ~Pending'
<1> DEFINE k == event.type
           last == Len(visitor)
<1>0. /\ Placed /\ Called /\ Tokens /\ NewThread /\ Flags /\ Waiting /\ Typed(Event)
      /\ visitor \in Seq(Body(Event)) /\ DOMAIN visitor = 1 .. Len(visitor)
  BY DEF OrderInv, QueueInv, TokenInv, Typed
<1>1. /\ main = "initialising" /\ main' \in {"asleep_init", "service"}
      /\ UNCHANGED <<curr, event, visitor>>
  BY DEF AwaitInit
<1>2. ~Pending /\ ~Pending'
  BY <1>1 DEF Pending
<1>3. CASE main' = "asleep_init" /\ tids' = tids
  <2>1. Still
    BY <1>0, <1>1, <1>2, <1>3 DEF Still, Handshake
  <2> QED
    BY <1>2, <2>1, StillStep
<1>4. CASE /\ main' = "service" /\ done[k] # 0
           /\ tids' = [tids EXCEPT ![k] = Append(@, last)]
  <2>1. k \in Kind /\ cnt[k] = Len(tids[k]) + 1
    BY <1>1 DEF OrderInv, QueueInv, TokenInv, Counted, LettingIn
  <2>2. /\ last \in DOMAIN visitor /\ visitor[last].kind = k /\ visitor[last].mine.id = cnt[k]
        /\ visitor[last].pc \notin {"start", "init"}
    BY <1>0, <1>1, <1>4 DEF NewThread, Handshake
  <2>3. visitor[last].pc \in {"turn", "asleep"}
    <3>1. visitor[last] \in Body(Event)
      BY <1>0, <2>2
    <3>2. visitor[last].pc \in Place
      BY <3>1 DEF Body
    <3>3. ASSUME visitor[last].pc = "gone"
          PROVE  FALSE
      <4>1. visitor[last].mine.id \in DOMAIN tids[k]
        BY <1>0, <2>2, <3>3 DEF Placed
      <4>2. tids[k] \in Seq(Nat)
        BY <1>0, <2>1 DEF Typed
      <4> QED
        BY <2>1, <2>2, <4>1, <4>2
    <3> QED
      BY <2>2, <3>2, <3>3 DEF Place
  <2>4. tids[k] \in Seq(Nat) /\ last \in Nat /\ tids \in [Kind -> Seq(Nat)]
    BY <1>0, <2>1, <2>2 DEF Typed
  <2> HIDE DEF k, last
  <2>5. /\ Len(tids'[k]) = Len(tids[k]) + 1 /\ Len(tids[k]) \in Nat
        /\ DOMAIN tids[k] = 1 .. Len(tids[k])
        /\ DOMAIN tids'[k] = 1 .. Len(tids[k]) + 1
        /\ tids'[k][Len(tids[k]) + 1] = last
        /\ \A n \in DOMAIN tids[k] : tids'[k][n] = tids[k][n]
        /\ \A j \in Kind \ {k} : tids'[j] = tids[j]
    BY <1>4, <2>1, <2>4
  <2>6. Placed'
    <3>1. ASSUME NEW i \in DOMAIN visitor, visitor[i].pc \in {"turn", "asleep", "gone"}
          PROVE  LET v == visitor[i]
                 IN  v.mine.id \in DOMAIN tids'[v.kind] /\ tids'[v.kind][v.mine.id] = i
      <4>1. CASE i = last
        BY <2>1, <2>2, <2>5, <4>1
      <4>2. CASE i # last
        <5>1. visitor[i].mine.id \in DOMAIN tids[visitor[i].kind]
              /\ tids[visitor[i].kind][visitor[i].mine.id] = i
          BY <1>0, <3>1, <4>2 DEF Placed, last
        <5>2. visitor[i].kind \in Kind
          <6>1. visitor[i] \in Body(Event)
            BY <1>0
          <6> QED
            BY <6>1 DEF Body
        <5> QED
          BY <2>5, <5>1, <5>2
      <4> QED
        BY <4>1, <4>2
    <3> QED
      BY <1>1, <1>4, <3>1 DEF Placed
  <2>7. Called'
    <3>1. ASSUME NEW j \in Kind
          PROVE  /\ curr[j] <= Len(tids'[j])
                 /\ \A n \in DOMAIN tids'[j] :
                        /\ n > curr[j] => visitor[tids'[j][n]].pc # "gone"
                        /\ n <= curr[j] => visitor[tids'[j][n]].pc = "gone"
      <4>0. /\ curr[j] \in Nat /\ curr[j] <= Len(tids[j])
            /\ \A n \in DOMAIN tids[j] :
                   /\ n > curr[j] => visitor[tids[j][n]].pc # "gone"
                   /\ n <= curr[j] => visitor[tids[j][n]].pc = "gone"
        BY <1>0, <1>2 DEF Called, Flags
      <4>1. CASE j # k
        BY <2>5, <4>0, <4>1
      <4>2. CASE j = k
        <5>1. curr[k] <= Len(tids'[k])
          BY <2>5, <4>0, <4>2
        <5>2. ASSUME NEW n \in DOMAIN tids'[k]
              PROVE  /\ n > curr[k] => visitor[tids'[k][n]].pc # "gone"
                     /\ n <= curr[k] => visitor[tids'[k][n]].pc = "gone"
          <6>1. CASE n = Len(tids[k]) + 1
            BY <2>3, <2>5, <4>0, <4>2, <6>1
          <6>2. CASE n # Len(tids[k]) + 1
            BY <2>5, <4>0, <4>2, <6>2
          <6> QED
            BY <6>1, <6>2
        <5> QED
          BY <4>2, <5>1, <5>2
      <4> QED
        BY <4>1, <4>2
    <3> QED
      BY <1>1, <3>1 DEF Called
  <2> QED
    BY <1>2, <2>6, <2>7
<1> QED
  BY <1>3, <1>4 DEF AwaitInit

\* The visitor called is the first of his kind who has not gone in.
LEMMA CalledStep ==
    ASSUME OrderInv, CallVisitor
    PROVE  /\ Placed' /\ Called' /\ ~Pending /\ Pending'
           /\ event.type \in Kind /\ curr[event.type] \in Nat
           /\ curr'[event.type] = curr[event.type] + 1
           /\ \A j \in Kind \ {event.type} : curr'[j] = curr[j]
<1> DEFINE k == event.type
           woken(v) == v.kind = k /\ v.pc = "asleep"
           up(v) == [v EXCEPT !.pc = "turn"]
<1>0. /\ Placed /\ Called /\ Tokens /\ Flags /\ Waiting /\ Typed(Event)
      /\ visitor \in Seq(Body(Event)) /\ DOMAIN visitor = 1 .. Len(visitor)
      /\ \A i \in DOMAIN visitor : visitor[i] \in Body(Event)
  BY DEF OrderInv, QueueInv, TokenInv, Typed
<1>1. /\ main = "call" /\ main' = "join_visitor"
      /\ UNCHANGED <<event, tids, wait>>
      /\ curr' = [curr EXCEPT ![k] = @ + 1]
      /\ visitor' = [i \in DOMAIN visitor |-> IF woken(visitor[i]) THEN up(visitor[i]) ELSE visitor[i]]
  BY DEF CallVisitor, local
<1>2. k \in Kind
  BY <1>1 DEF OrderInv, QueueInv, Turn, Serving
<1>3. ASSUME NEW v \in Body(Event)
      PROVE  up(v).kind = v.kind /\ up(v).mine = v.mine /\ up(v).pc = "turn"
  BY DEF Body
<1>4. /\ DOMAIN visitor' = DOMAIN visitor
      /\ \A i \in DOMAIN visitor :
             /\ visitor'[i].kind = visitor[i].kind /\ visitor'[i].mine = visitor[i].mine
             /\ (visitor'[i].pc = "gone" <=> visitor[i].pc = "gone")
             /\ visitor'[i].pc \in {"turn", "asleep", "gone"} =>
                    visitor[i].pc \in {"turn", "asleep", "gone"}
  <2> HIDE DEF up
  <2> QED
    BY <1>0, <1>1, <1>3
<1> HIDE DEF k
<1>5. /\ curr[k] \in Nat /\ curr'[k] = curr[k] + 1
      /\ \A j \in Kind \ {k} : curr'[j] = curr[j]
  BY <1>0, <1>1, <1>2 DEF Flags
<1>6. /\ \A j \in Kind : tids[j] \in Seq(Nat) /\ wait[j] \in Nat /\ curr[j] \in Nat
      /\ Len(tids[k]) \in Nat /\ DOMAIN tids[k] = 1 .. Len(tids[k])
  BY <1>0, <1>2 DEF Typed, Flags
<1>7. curr[k] + 1 \in DOMAIN tids[k]
  <2>1. wait[k] + curr[k] + 1 = Len(tids[k]) + 0
    BY <1>0, <1>1, <1>2 DEF Waiting, Num, Serving, LettingIn, k
  <2> QED
    BY <1>2, <1>6, <2>1
<1>8. \A j \in Kind : \A n \in DOMAIN tids[j] :
          visitor'[tids[j][n]].pc = "gone" <=> visitor[tids[j][n]].pc = "gone"
  BY <1>0, <1>4 DEF Tokens
<1>9. ~Pending /\ Pending'
  <2>1. visitor'[tids[k][curr[k] + 1]].pc # "gone"
    BY <1>0, <1>2, <1>5, <1>7, <1>8 DEF Called
  <2> QED
    BY <1>1, <1>5, <2>1 DEF Pending, k
<1>10. Placed'
  <2>1. ~Handshake
    BY <1>1 DEF Handshake
  <2> QED
    BY <1>0, <1>1, <1>2, <1>4, <1>5, <1>7, <2>1 DEF Placed, k
<1>11. Called'
  <2>1. ASSUME NEW j \in Kind
        PROVE  /\ curr'[j] <= Len(tids[j])
               /\ \A n \in DOMAIN tids[j] :
                      /\ n > curr'[j] => visitor'[tids[j][n]].pc # "gone"
                      /\ n <= curr'[j] => \/ visitor'[tids[j][n]].pc = "gone"
                                          \/ k = j /\ n = curr'[j]
    <3>1. /\ curr[j] \in Nat /\ curr[j] <= Len(tids[j]) /\ tids[j] \in Seq(Nat)
          /\ \A n \in DOMAIN tids[j] :
                 /\ n > curr[j] => visitor'[tids[j][n]].pc # "gone"
                 /\ n <= curr[j] => visitor'[tids[j][n]].pc = "gone"
      BY <1>0, <1>6, <1>8, <1>9 DEF Called
    <3>2. CASE j = k
      BY <1>5, <1>6, <1>7, <3>1, <3>2
    <3>3. CASE j # k
      BY <1>5, <3>1, <3>3
    <3> QED
      BY <3>2, <3>3
  <2>2. tids' = tids /\ Pending' /\ event'.type = k
    BY <1>1, <1>2, <1>9 DEF k
  <2> QED
    BY <2>1, <2>2 DEF Called
<1> QED
  BY <1>2, <1>5, <1>9, <1>10, <1>11 DEF k

LEMMA EnterStep ==
    ASSUME OrderInv, NEW i \in DOMAIN visitor, EnterChamber(i)
    PROVE  Placed' /\ Called' /\ ~Pending'
<1> DEFINE k == visitor[i].kind
           v == [visitor[i] EXCEPT !.pc = "gone"]
<1>0. /\ Placed /\ Called /\ Tokens
      /\ visitor \in Seq(Body(Event)) /\ visitor[i] \in Body(Event)
  BY DEF OrderInv, QueueInv, TokenInv, Typed
<1>1. /\ k \in Kind /\ main = "join_visitor" /\ event.type = k
      /\ curr[k] \in DOMAIN tids[k] /\ tids[k][curr[k]] = i
      /\ visitor[i].mine.id = curr[k]
  BY EnterFacts
<1>2. /\ UNCHANGED <<main, event, tids, curr>>
      /\ visitor' = [visitor EXCEPT ![i] = v]
  BY DEF EnterChamber, Steps, local
<1>3. v.pc = "gone" /\ v.kind = visitor[i].kind /\ v.mine = visitor[i].mine
  BY <1>0 DEF Body
<1> HIDE DEF v
<1>4. /\ DOMAIN visitor' = DOMAIN visitor /\ visitor'[i] = v
      /\ \A j \in DOMAIN visitor : j # i => visitor'[j] = visitor[j]
  BY <1>0, <1>2
<1>5. ~Pending'
  BY <1>1, <1>2, <1>3, <1>4 DEF Pending
<1>6. ~Handshake
  BY <1>1 DEF Handshake
<1> HIDE DEF k
<1>7. Placed'
  <2>1. ASSUME NEW j \in DOMAIN visitor, visitor'[j].pc \in {"turn", "asleep", "gone"}
        PROVE  LET w == visitor'[j]
               IN  w.mine.id \in DOMAIN tids[w.kind] /\ tids[w.kind][w.mine.id] = j
    <3>1. CASE j = i
      BY <1>1, <1>3, <1>4, <3>1 DEF k
    <3>2. CASE j # i
      BY <1>0, <1>4, <1>6, <2>1, <3>2 DEF Placed
    <3> QED
      BY <3>1, <3>2
  <2> QED
    BY <1>1, <1>2, <1>4, <2>1 DEF Placed
<1>8. Called'
  <2>1. ASSUME NEW j \in Kind
        PROVE  /\ curr[j] <= Len(tids[j])
               /\ \A n \in DOMAIN tids[j] :
                      /\ n > curr[j] => visitor'[tids[j][n]].pc # "gone"
                      /\ n <= curr[j] => visitor'[tids[j][n]].pc = "gone"
    <3>1. curr[j] <= Len(tids[j])
      BY <1>0 DEF Called
    <3>2. ASSUME NEW n \in DOMAIN tids[j]
          PROVE  /\ n > curr[j] => visitor'[tids[j][n]].pc # "gone"
                 /\ n <= curr[j] => visitor'[tids[j][n]].pc = "gone"
      <4>0. /\ tids[j][n] \in DOMAIN visitor
            /\ visitor[tids[j][n]].kind = j /\ visitor[tids[j][n]].mine.id = n
        <5>1. /\ tids[j][n] \in DOMAIN visitor
              /\ visitor[tids[j][n]].kind = j
              /\ visitor[tids[j][n]].mine = [e |-> Q[j][n], id |-> n]
          BY <1>0 DEF Tokens
        <5> QED
          BY <5>1
      <4>1. CASE tids[j][n] = i
        <5>1. j = k /\ n = curr[k]
          BY <1>1, <4>0, <4>1 DEF k
        <5>2. visitor'[tids[j][n]].pc = "gone"
          BY <1>3, <1>4, <4>1
        <5>3. curr[k] \in Nat
          BY <1>1 DEF OrderInv, QueueInv, Flags
        <5> QED
          BY <5>1, <5>2, <5>3
      <4>2. CASE tids[j][n] # i
        <5>1. visitor'[tids[j][n]] = visitor[tids[j][n]]
          BY <1>4, <4>0, <4>2
        <5>2. ~(event.type = j /\ n = curr[j])
          BY <1>1, <4>2
        <5> QED
          BY <1>0, <5>1, <5>2 DEF Called
      <4> QED
        BY <4>1, <4>2
    <3> QED
      BY <3>1, <3>2
  <2> QED
    BY <1>2, <2>1 DEF Called
<1> QED
  BY <1>5, <1>7, <1>8

LEMMA ThreadsStep ==
    ASSUME OrderInv, [Next]_vars
    PROVE  Placed' /\ Called'
<1>1. CASE AwaitInit
  BY <1>1, NoteStep
<1>2. CASE CallVisitor
  BY <1>2, CalledStep
<1>3. ASSUME NEW i \in DOMAIN visitor, EnterChamber(i)
      PROVE  Placed' /\ Called'
  BY <1>3, EnterStep
<1>4. CASE ~AwaitInit /\ ~CallVisitor /\ ~ \E i \in DOMAIN visitor : EnterChamber(i)
  BY <1>4, StillElse, StillStep
<1> QED
  BY <1>1, <1>2, <1>3, <1>4

\* The doctor's line is to be followed by a visitor's from the time he prints
\* it until the visitor goes in.
LEMMA AnnounceStep ==
    ASSUME OrderInv, [Next]_vars
    PROVE  /\ DoctorCalls => ~Announced /\ Announced'
           /\ (\E i \in DOMAIN visitor : EnterChamber(i)) => Announced /\ ~Announced'
           /\ ~DoctorCalls /\ (~ \E i \in DOMAIN visitor : EnterChamber(i)) =>
                  (Announced' <=> Announced)
<1>0. LocksInv /\ Turn
  BY DEF OrderInv, QueueInv
<1>1. ASSUME AwaitInit
      PROVE  Announced' <=> Announced
  <2>1. ~Pending /\ ~Pending'
    BY <1>1, NoteStep
  <2> QED
    BY <1>1, <2>1 DEF AwaitInit, Announced
<1>2. ASSUME CallVisitor
      PROVE  Announced' <=> Announced
  <2>1. Pending'
    BY <1>2, CalledStep
  <2> QED
    BY <1>2, <2>1 DEF CallVisitor, Announced
<1>3. ASSUME NEW i \in DOMAIN visitor, EnterChamber(i)
      PROVE  Announced /\ ~Announced' /\ ~DoctorCalls
  <2>1. main = "join_visitor" /\ main' = main /\ Pending /\ ~Pending'
    BY <1>3, EnterFacts, EnterStep DEF EnterChamber, local
  <2>2. ~DoctorCalls
    BY <1>0, <2>1 DEF LocksInv, DoctorCalls
  <2> QED
    BY <2>1, <2>2 DEF Announced
<1>4. CASE ~AwaitInit /\ ~CallVisitor /\ ~ \E i \in DOMAIN visitor : EnterChamber(i)
  <2>0. Pending' <=> Pending
    BY <1>4, StillElse, StillStep
  <2>1. CASE DoctorCalls
    <3>1. doc_state = 1 /\ doc_state' = 0 /\ main \in {"await", "asleep_done"} /\ main' = "await"
      BY <1>0, <2>1 DEF LocksInv, DoctorCalls
    <3> QED
      BY <1>4, <2>1, <3>1 DEF Announced, Pending
  <2>2. CASE ~DoctorCalls
    <3> SUFFICES (\/ main' \in {"await", "asleep_done"} /\ doc_state' = 0
                  \/ main' = "call")
                 <=> (\/ main \in {"await", "asleep_done"} /\ doc_state = 0
                      \/ main = "call")
      BY <2>0, <2>2, <1>4 DEF Announced
    <3>1. CASE AwaitDoctor
      <4>1. main = "await" /\ doc_state \in {0, 1} /\ doc_state' = doc_state
        BY <1>0, <3>1 DEF AwaitDoctor, LocksInv, Turn, Engaged, Serving
      <4> QED
        BY <3>1, <4>1 DEF AwaitDoctor
    <3>2. CASE EndSession \/ EngageDoctor
      BY <3>2 DEF EndSession, EngageDoctor
    <3>3. CASE DoctorDone \/ JoinDoctor \/ Arrive \/ CreateVisitor
      BY <3>3 DEF DoctorDone, Pops, JoinDoctor, Arrive, CreateVisitor
    <3>4. CASE NoService \/ JoinVisitor \/ Exit \/ DoctorLocks \/ DoctorLeaves
      BY <3>4 DEF NoService, JoinVisitor, Exit, DoctorLocks, DoctorLeaves
    <3>5. ASSUME NEW k \in Kind, Serve(k)
          PROVE  main = "service" /\ main' = "engage"
      BY <3>5 DEF Serve
    <3>6. ASSUME NEW i \in DOMAIN visitor, VisitorSteps(i) \/ SpuriousVisitor(i)
          PROVE  doc_state' = doc_state /\ (main' = main \/ (main = "asleep_init" /\ main' = "initialising"))
      BY <3>6 DEF VisitorSteps, CopyParam, SignalInit, AwaitTurn, EnterChamber, SpuriousVisitor
    <3>7. CASE SpuriousMain \/ SpuriousDoctor \/ UNCHANGED vars
      BY <3>7 DEF SpuriousMain, SpuriousDoctor, vars
    <3> QED
      BY <1>4, <2>2, <3>1, <3>2, <3>3, <3>4, <3>5, <3>6, <3>7
      DEF Next, MainSteps, DoctorSteps, Terminated
  <2> QED
    BY <1>4, <2>1, <2>2
<1> QED
  <2>1. CASE AwaitInit \/ CallVisitor
    <3>1. ~DoctorCalls
      BY <1>0, <2>1 DEF AwaitInit, CallVisitor, DoctorCalls, LocksInv
    <3>2. ~ \E i \in DOMAIN visitor : EnterChamber(i)
      BY <2>1, EnterFacts DEF AwaitInit, CallVisitor
    <3> QED
      BY <1>1, <1>2, <2>1, <3>1, <3>2
  <2>2. CASE ~AwaitInit /\ ~CallVisitor
    BY <1>3, <1>4, <2>2
  <2> QED
    BY <2>1, <2>2

\* One line more.
Ordered(t) ==
    \A j \in 2 .. Len(t) :
        /\ t[j - 1].at <= t[j].at
        /\ t[j].says = "in_chamber" => t[j - 1].says = "next_visitor" /\ t[j - 1].at = t[j].at
        /\ t[j - 1].says = "next_visitor" => t[j].says = "in_chamber"
        /\ t[j].says \in {"next_visitor", "in_chamber"} =>
               \A i \in 1 .. j : t[i].who = "D" => t[i].says # "leaves"

Follows(line, t) ==
    /\ Len(t) > 0 =>
           /\ t[Len(t)].at <= line.at
           /\ line.says = "in_chamber" =>
                  t[Len(t)].says = "next_visitor" /\ t[Len(t)].at = line.at
           /\ t[Len(t)].says = "next_visitor" => line.says = "in_chamber"
    /\ line.says \in {"next_visitor", "in_chamber"} =>
           \A i \in DOMAIN t : t[i].who = "D" => t[i].says # "leaves"

LEMMA OneLineMore ==
    ASSUME NEW t \in Seq(Printed), NEW line \in Printed, Ordered(t), Follows(line, t)
    PROVE  Ordered(Append(t, line)) /\ Append(t, line) \in Seq(Printed)
<1> DEFINE n == Len(t)
           u == Append(t, line)
<1>0. n \in Nat /\ Len(u) = n + 1 /\ u[n + 1] = line /\ u \in Seq(Printed)
      /\ DOMAIN t = 1 .. n
  OBVIOUS
<1>1. \A i \in 1 .. n : u[i] = t[i]
  OBVIOUS
<1> HIDE DEF n, u
<1>2. ASSUME NEW j \in 2 .. n + 1
      PROVE  /\ u[j - 1].at <= u[j].at
             /\ u[j].says = "in_chamber" => u[j - 1].says = "next_visitor" /\ u[j - 1].at = u[j].at
             /\ u[j - 1].says = "next_visitor" => u[j].says = "in_chamber"
             /\ u[j].says \in {"next_visitor", "in_chamber"} =>
                    \A i \in 1 .. j : u[i].who = "D" => u[i].says # "leaves"
  <2>1. CASE j = n + 1
    <3>1. n > 0 /\ j - 1 = n /\ u[j - 1] = t[n] /\ u[j] = line
      BY <1>0, <1>1, <2>1
    <3>2. ASSUME line.says \in {"next_visitor", "in_chamber"}, NEW i \in 1 .. j, u[i].who = "D"
          PROVE  u[i].says # "leaves"
      <4>1. CASE i = n + 1
        BY <1>0, <3>2, <4>1
      <4>2. CASE i # n + 1
        <5>1. i \in 1 .. n /\ i \in DOMAIN t
          BY <1>0, <2>1, <4>2
        <5> QED
          BY <1>1, <3>2, <5>1 DEF Follows
      <4> QED
        BY <4>1, <4>2
    <3> QED
      BY <3>1, <3>2 DEF Follows, n
  <2>2. CASE j # n + 1
    <3>1. j \in 2 .. n /\ j \in 1 .. n /\ j - 1 \in 1 .. n
      BY <1>0, <2>2
    <3>2. u[j] = t[j] /\ u[j - 1] = t[j - 1]
      BY <1>1, <3>1
    <3>3. \A i \in 1 .. j : u[i] = t[i]
      BY <1>0, <1>1, <3>1
    <3> QED
      BY <3>1, <3>2, <3>3 DEF Ordered, n
  <2> QED
    BY <2>1, <2>2
<1> QED
  BY <1>0, <1>2 DEF Ordered, u

\* What the lines of t have been up to the time now.
Told(t, now, over) ==
    /\ t \in Seq(Printed)
    /\ Ordered(t)
    /\ \A j \in DOMAIN t : t[j].at <= now
    /\ \A j \in DOMAIN t : t[j].who = "D" /\ t[j].says = "leaves" => over = 1

LEMMA TellOne ==
    ASSUME NEW t, NEW now, NEW over, Told(t, now, over),
           NEW line \in Printed, line.at = now, Follows(line, t),
           line.who = "D" /\ line.says = "leaves" => over = 1
    PROVE  Told(Append(t, line), now, over)
<1> DEFINE u == Append(t, line)
<1>1. t \in Seq(Printed) /\ Len(t) \in Nat /\ DOMAIN t = 1 .. Len(t)
  BY DEF Told
<1>2. Ordered(u) /\ u \in Seq(Printed)
  BY <1>1, OneLineMore DEF Told
<1>3. now \in Int
  BY DEF Printed
<1>4. ASSUME NEW j \in DOMAIN u
      PROVE  u[j].at <= now /\ (u[j].who = "D" /\ u[j].says = "leaves" => over = 1)
  <2>1. CASE j = Len(t) + 1
    <3>1. u[j] = line
      BY <1>1, <2>1
    <3> QED
      BY <1>3, <3>1
  <2>2. CASE j # Len(t) + 1
    <3>1. j \in DOMAIN t /\ u[j] = t[j]
      BY <1>1, <2>2
    <3> QED
      BY <3>1 DEF Told
  <2> QED
    BY <2>1, <2>2
<1> HIDE DEF u
<1> QED
  BY <1>2, <1>4 DEF Told, u

\* A pop takes the time to that of an event which none comes before.
LEMMA PopTime ==
    ASSUME OrderInv, NEW types, Pops(types)
    PROVE  /\ main = "pop" /\ curr_time' \in Int /\ curr_time' = NextEvent(E).time
           /\ NextEvent(E) \in Elements(E)
           /\ \A e \in Elements(E') : NotAfter(NextEvent(E), e) /\ curr_time' <= e.time
           /\ \A j \in DOMAIN transcript : transcript[j].at <= curr_time'
           /\ ~Announced
<1>1. QueueInv /\ E \in Heap /\ E \in Seq(Event) /\ E # <<>> /\ Len(E) \in Nat \ {0}
  BY DEF OrderInv, QueueInv, Heap, Pops
<1>2. /\ main = "pop" /\ curr_time' \in Int /\ NextEvent(E) \in Event
      /\ curr_time' = NextEvent(E).time
      /\ \A e \in Elements(E') : e \in Elements(E)
  BY <1>1, PopFacts DEF Pops
<1>3. NextEvent(E) \in Elements(E)
  BY <1>1 DEF NextEvent, Elements
<1>4. ASSUME NEW e \in Elements(E)
      PROVE  NotAfter(NextEvent(E), e) /\ curr_time' <= e.time
  <2>1. NotAfter(NextEvent(E), e) /\ e \in Event
    BY <1>1, RootFirst DEF Elements, NextEvent
  <2> QED
    BY <1>2, <2>1 DEF NotAfter, Before, Event
<1>5. ASSUME NEW j \in DOMAIN transcript
      PROVE  transcript[j].at <= curr_time'
  <2>1. transcript \in Seq(Printed) /\ transcript[j].at <= curr_time
    BY DEF OrderInv, Clock
  <2>2. transcript[j] \in Printed
    BY <2>1
  <2>3. transcript[j].at \in Int
    BY <2>2 DEF Printed
  <2>4. curr_time <= NextEvent(E).time
    BY <1>3, <2>1 DEF OrderInv, Clock
  <2>5. curr_time \in Int
    BY <1>1 DEF QueueInv, Flags
  <2> QED
    BY <1>2, <2>1, <2>3, <2>4, <2>5
<1>6. ~Announced
  BY <1>2 DEF Announced, Pending
<1> QED
  BY <1>2, <1>3, <1>4, <1>5, <1>6

LEMMA SilentStep ==
    ASSUME [Next]_vars, ~Arrive, ~DoctorCalls, ~DoctorLeaves,
           ~ \E i \in DOMAIN visitor : EnterChamber(i)
    PROVE  transcript' = transcript
  BY DEF Next, MainSteps, DoctorSteps, VisitorSteps, Terminated, vars, DoctorDone, EndSession,
     JoinDoctor, CreateVisitor, AwaitInit, Serve, NoService, EngageDoctor, AwaitDoctor,
     CallVisitor, JoinVisitor, Exit, DoctorLocks, CopyParam, SignalInit, AwaitTurn,
     SpuriousMain, SpuriousDoctor, SpuriousVisitor

LEMMA TimeStep ==
    ASSUME [Next]_vars, ~DoctorDone, ~Arrive
    PROVE  curr_time' = curr_time
  BY DEF Next, MainSteps, DoctorSteps, VisitorSteps, Terminated, vars, shared, EndSession,
     JoinDoctor, CreateVisitor, AwaitInit, Serve, NoService, EngageDoctor, AwaitDoctor,
     CallVisitor, JoinVisitor, Exit, DoctorLocks, DoctorCalls, DoctorLeaves, CopyParam,
     SignalInit, AwaitTurn, EnterChamber, SpuriousMain, SpuriousDoctor, SpuriousVisitor

LEMMA SessionEndStep ==
    ASSUME [Next]_vars
    PROVE  doc_session_end' \in {doc_session_end, 1}
  BY DEF Next, MainSteps, DoctorSteps, VisitorSteps, Terminated, vars, shared, DoctorDone,
     EndSession, JoinDoctor, Arrive, CreateVisitor, AwaitInit, Serve, NoService, EngageDoctor,
     AwaitDoctor, CallVisitor, JoinVisitor, Exit, DoctorLocks, DoctorCalls, DoctorLeaves,
     CopyParam, SignalInit, AwaitTurn, EnterChamber, SpuriousMain, SpuriousDoctor,
     SpuriousVisitor

LEMMA ToldNow ==
    OrderInv => Told(transcript, curr_time, doc_session_end)
<1> SUFFICES ASSUME OrderInv
             PROVE  Told(transcript, curr_time, doc_session_end)
  OBVIOUS
<1>1. Ordered(transcript)
  BY DEF OrderInv, TranscriptInOrder, Ordered
<1> QED
  BY <1>1 DEF OrderInv, Clock, Closed, Told

\* Every line that is printed fits the line before it.
LEMMA TranscriptStep ==
    ASSUME OrderInv, [Next]_vars
    PROVE  /\ Told(transcript, curr_time, doc_session_end)'
           /\ LastLine'
<1> DEFINE t == transcript
           n == Len(transcript)
<1>0. /\ QueueInv /\ LocksInv /\ Turn /\ Typed(Event) /\ LastLine /\ Closed
      /\ t \in Seq(Printed) /\ n \in Nat /\ DOMAIN t = 1 .. n
      /\ curr_time \in Int /\ doc_session_end' \in {doc_session_end, 1}
      /\ Told(t, curr_time, doc_session_end)
      /\ (n > 0 => n \in DOMAIN t /\ t[n] = Last)
      /\ (t = <<>> <=> n = 0)
  BY ToldNow, SessionEndStep DEF OrderInv, QueueInv, Flags, Last
<1>1. ASSUME Told(t, curr_time', doc_session_end), NEW line \in Printed, transcript' = Append(t, line),
             line.at = curr_time', Follows(line, t),
             line.who = "D" /\ line.says = "leaves" => doc_session_end' = 1,
             Announced' <=> line.says = "next_visitor"
      PROVE  Told(transcript, curr_time, doc_session_end)' /\ LastLine'
  <2>1. Told(t, curr_time', doc_session_end')
    BY <1>0, <1>1 DEF Told
  <2>2. Told(transcript', curr_time', doc_session_end')
    BY <1>1, <2>1, TellOne
  <2>3. transcript' # <<>> /\ transcript'[Len(transcript')] = line
    BY <1>0, <1>1
  <2> QED
    BY <1>1, <2>2, <2>3 DEF LastLine, Last
<1>2. CASE Arrive
  <2> DEFINE k == NextEvent(E).type
             id == cnt[k] + 1
             arrives == Line(k, id, "arrives", curr_time')
             leaves == Line(k, id, "leaves", curr_time')
  <2>1. Pops(Kind) /\ main' \in {"pop", "create"} /\ k \in Kind
    BY <1>2 DEF Arrive, Pops
  <2>2. /\ main = "pop" /\ curr_time' \in Int /\ ~Announced
        /\ \A j \in DOMAIN t : t[j].at <= curr_time'
    BY <2>1, PopTime
  <2>3. Told(t, curr_time', doc_session_end)
    BY <1>0, <2>2 DEF Told
  <2>4. ~Announced'
    BY <2>1 DEF Announced, Pending
  <2>5. id \in Nat
    BY <1>0, <2>1 DEF Typed
  <2>6. /\ arrives \in Printed /\ leaves \in Printed
        /\ arrives.at = curr_time' /\ leaves.at = curr_time'
        /\ arrives.says = "arrives" /\ leaves.says = "leaves"
        /\ arrives.who = k /\ leaves.who = k /\ k # "D"
    BY <2>1, <2>2, <2>5 DEF Line, Printed, Saying, Kind
  <2>7. \/ transcript' = Append(t, arrives)
        \/ transcript' = t \o <<arrives, leaves>>
    BY <1>2 DEF Arrive
  <2> HIDE DEF arrives, leaves, id
  <2>8. Follows(arrives, t)
    BY <1>0, <2>2, <2>6 DEF Follows, LastLine
  <2>9. CASE transcript' = Append(t, arrives)
    BY <1>1, <2>3, <2>4, <2>6, <2>8, <2>9
  <2>10. CASE transcript' = t \o <<arrives, leaves>>
    <3> DEFINE u == Append(t, arrives)
    <3>1. Told(u, curr_time', doc_session_end)
      BY <2>3, <2>6, <2>8, TellOne
    <3>2. u[Len(u)] = arrives /\ u \in Seq(Printed) /\ transcript' = Append(u, leaves)
      BY <1>0, <2>6, <2>10
    <3> HIDE DEF u
    <3>3. Follows(leaves, u)
      BY <2>2, <2>6, <3>2 DEF Follows
    <3>4. Told(transcript', curr_time', doc_session_end)
      BY <2>6, <3>1, <3>2, <3>3, TellOne
    <3>5. doc_session_end' = doc_session_end
      BY <1>2 DEF Arrive
    <3>6. transcript'[Len(transcript')] = leaves
      BY <2>6, <3>2
    <3> QED
      BY <2>4, <2>6, <3>4, <3>5, <3>6 DEF LastLine, Last
  <2> QED
    BY <2>7, <2>9, <2>10
<1>3. CASE DoctorCalls
  <2> DEFINE line == Line("D", 0, "next_visitor", curr_time)
  <2>1. /\ transcript' = Append(t, line) /\ curr_time' = curr_time /\ doc_state = 1
    BY <1>3 DEF DoctorCalls
  <2>2. ~Announced /\ Announced'
    BY <1>3, AnnounceStep
  <2>3. doc_session_end = 0
    BY <1>0, <2>1 DEF LocksInv, Turn, Engaged, Serving
  <2>4. /\ line \in Printed /\ line.at = curr_time' /\ line.says = "next_visitor"
        /\ line.who = "D"
    BY <1>0, <2>1 DEF Line, Printed, Saying
  <2> HIDE DEF line
  <2>5. Follows(line, t)
    BY <1>0, <2>1, <2>2, <2>3, <2>4 DEF Follows, LastLine, Closed, Told
  <2> QED
    BY <1>0, <1>1, <2>1, <2>2, <2>4, <2>5
<1>4. CASE DoctorLeaves
  <2> DEFINE line == Line("D", 0, "leaves", curr_time)
  <2>1. /\ transcript' = Append(t, line) /\ curr_time' = curr_time /\ doc_state = -1
        /\ doctor # "gone" /\ doc_session_end' = 1 /\ main' = main
    BY <1>4 DEF DoctorLeaves
  <2>2. ~Announced /\ ~Announced'
    BY <1>0, <2>1 DEF LocksInv, Announced, Pending
  <2>3. /\ line \in Printed /\ line.at = curr_time' /\ line.says = "leaves"
        /\ line.who = "D"
    BY <1>0, <2>1 DEF Line, Printed, Saying
  <2> HIDE DEF line
  <2>4. Follows(line, t)
    BY <1>0, <2>1, <2>2, <2>3 DEF Follows, LastLine, Told
  <2> QED
    BY <1>0, <1>1, <2>1, <2>2, <2>3, <2>4
<1>5. ASSUME NEW i \in DOMAIN visitor, EnterChamber(i)
      PROVE  Told(transcript, curr_time, doc_session_end)' /\ LastLine'
  <2> DEFINE k == visitor[i].kind
             mine == visitor[i].mine
             line == Line(k, mine.id, "in_chamber", curr_time + mine.e.duration)
  <2>1. /\ transcript' = Append(t, line) /\ curr_time' = curr_time
    BY <1>5 DEF EnterChamber
  <2>2. Announced /\ ~Announced'
    BY <1>5, AnnounceStep
  <2>3. main = "join_visitor" /\ k \in Kind
    BY <1>5, EnterFacts
  <2>4. doc_session_end = 0
    BY <1>0, <2>3 DEF Turn, Engaged
  <2>5. mine.id \in Nat /\ mine.e.duration \in Int
    <3>1. visitor[i] \in Body(Event)
      BY <1>0 DEF Typed
    <3> QED
      BY <3>1 DEF Body, Card, Event
  <2>6. /\ line \in Printed /\ line.at = curr_time' /\ line.says = "in_chamber"
        /\ line.who = k /\ k # "D"
    BY <1>0, <2>1, <2>3, <2>5 DEF Line, Printed, Saying, Kind
  <2> HIDE DEF line
  <2>7. Follows(line, t)
    BY <1>0, <2>1, <2>2, <2>4, <2>6 DEF Follows, LastLine, Closed, Told
  <2> QED
    BY <1>0, <1>1, <2>1, <2>2, <2>6, <2>7
<1>6. CASE /\ ~Arrive /\ ~DoctorCalls /\ ~DoctorLeaves
           /\ ~ \E i \in DOMAIN visitor : EnterChamber(i)
  <2>1. transcript' = t /\ (Announced' <=> Announced)
    BY <1>6, SilentStep, AnnounceStep
  <2>2. CASE DoctorDone
    <3>1. ~Announced /\ \A j \in DOMAIN t : t[j].at <= curr_time'
      BY <2>2, PopTime DEF DoctorDone
    <3> QED
      BY <1>0, <2>1, <3>1 DEF Told, LastLine, Last
  <2>3. CASE ~DoctorDone
    <3>1. curr_time' = curr_time
      BY <1>6, <2>3, TimeStep
    <3> QED
      BY <1>0, <2>1, <3>1 DEF Told, LastLine, Last
  <2> QED
    BY <2>2, <2>3
<1> QED
  BY <1>2, <1>3, <1>4, <1>5, <1>6

LEMMA ClockStep ==
    ASSUME OrderInv, [Next]_vars
    PROVE  Clock'
<1>0. /\ QueueInv /\ E \in Heap /\ Clock /\ NoDelay
      /\ curr_time \in Int /\ event \in Event
  BY DEF OrderInv, QueueInv, Flags, Typed
<1>1. \A j \in DOMAIN transcript' : transcript'[j].at <= curr_time'
  BY TranscriptStep DEF Told
<1> SUFFICES \/ transcript' = <<>> /\ main' = "pop"
             \/ \A e \in Elements(E') : curr_time' <= e.time
  BY <1>1 DEF Clock
<1>2. CASE DoctorDone \/ Arrive
  BY <1>2, PopTime DEF DoctorDone, Arrive
<1>3. CASE JoinVisitor
  <2> DEFINE end == [type |-> "D", time |-> curr_time + event.duration, duration |-> 0]
  <2>1. E' = AddEvent(E, end) /\ curr_time' = curr_time /\ main = "join_visitor"
    BY <1>3 DEF JoinVisitor, shared
  <2>2. end \in Event /\ end.time >= curr_time
    BY <1>0 DEF NoDelay, Event, EventKind
  <2> HIDE DEF end
  <2>3. Elements(E') = Elements(E) \cup {end}
    BY <1>0, <2>1, <2>2, AddEventHeap
  <2>4. end.time \in Int /\ \A e \in Elements(E) : curr_time <= e.time
    BY <1>0, <2>1, <2>2 DEF Clock, Event
  <2> QED
    BY <1>0, <2>1, <2>2, <2>3, <2>4
<1>4. CASE ~DoctorDone /\ ~Arrive /\ ~JoinVisitor
  <2>1. E' = E /\ curr_time' = curr_time
    BY <1>0, <1>4, QueueKept, TimeStep
  <2>2. CASE \A e \in Elements(E) : curr_time <= e.time
    BY <2>1, <2>2
  <2>3. CASE transcript = <<>> /\ main = "pop"
    <3>1. CASE Exit
      <4>1. E = <<>>
        BY <3>1 DEF Exit
      <4>2. Elements(E') = {}
        BY <2>1, <4>1 DEF Elements
      <4> QED
        BY <4>2
    <3>2. CASE ~Exit
      <4>1. ~DoctorCalls /\ ~DoctorLeaves /\ ~ \E i \in DOMAIN visitor : EnterChamber(i)
        BY <1>0, <2>3, EnterFacts DEF QueueInv, LocksInv, DoctorCalls, DoctorLeaves
      <4>2. transcript' = transcript
        BY <1>4, <4>1, SilentStep
      <4>3. main' = "pop"
        BY <1>4, <2>3, <3>2 DEF Next, MainSteps, DoctorSteps, VisitorSteps, Terminated, vars,
           EndSession, JoinDoctor, CreateVisitor, AwaitInit, Serve, NoService, EngageDoctor,
           AwaitDoctor, CallVisitor, DoctorLocks, DoctorCalls, DoctorLeaves, CopyParam,
           SignalInit, AwaitTurn, EnterChamber, SpuriousMain, SpuriousDoctor, SpuriousVisitor
      <4> QED
        BY <2>3, <4>2, <4>3
    <3> QED
      BY <3>1, <3>2
  <2> QED
    BY <1>0, <2>2, <2>3 DEF Clock
<1> QED
  BY <1>2, <1>3, <1>4

\* The lines printed stay, and only who goes in prints that he does.
LEMMA LinesKept ==
    ASSUME OrderInv, [Next]_vars
    PROVE  /\ \A j \in DOMAIN transcript :
                  j \in DOMAIN transcript' /\ transcript'[j] = transcript[j]
           /\ (~ \E i \in DOMAIN visitor : EnterChamber(i)) =>
                  \A j \in DOMAIN transcript' :
                      j \in DOMAIN transcript \/ transcript'[j].says # "in_chamber"
<1> DEFINE t == transcript
           n == Len(transcript)
<1>0. t \in Seq(Printed) /\ n \in Nat /\ DOMAIN t = 1 .. n
  BY DEF OrderInv
<1>1. ASSUME NEW line, transcript' = Append(t, line)
      PROVE  /\ \A j \in DOMAIN t : j \in DOMAIN transcript' /\ transcript'[j] = t[j]
             /\ \A j \in DOMAIN transcript' : j \in DOMAIN t \/ transcript'[j] = line
  <2>1. DOMAIN transcript' = 1 .. n + 1 /\ transcript'[n + 1] = line
        /\ \A j \in 1 .. n : transcript'[j] = t[j]
    BY <1>0, <1>1
  <2> QED
    BY <1>0, <2>1
<1>2. CASE Arrive
  <2>1. PICK a, b : /\ a.says = "arrives" /\ b.says = "leaves"
                    /\ transcript' = Append(t, a) \/ transcript' = t \o <<a, b>>
    <3> DEFINE k == NextEvent(E).type
               a == Line(k, cnt[k] + 1, "arrives", curr_time')
               b == Line(k, cnt[k] + 1, "leaves", curr_time')
    <3>1. a.says = "arrives" /\ b.says = "leaves"
      BY DEF Line
    <3>2. transcript' = Append(t, a) \/ transcript' = t \o <<a, b>>
      BY <1>2 DEF Arrive
    <3> HIDE DEF a, b
    <3> QED
      BY <3>1, <3>2
  <2>2. CASE transcript' = Append(t, a)
    BY <1>1, <2>1, <2>2
  <2>3. CASE transcript' = t \o <<a, b>>
    <3>1. /\ DOMAIN transcript' = 1 .. n + 2
          /\ transcript'[n + 1] = a /\ transcript'[n + 2] = b
          /\ \A j \in 1 .. n : transcript'[j] = t[j]
      BY <1>0, <2>3
    <3> QED
      BY <1>0, <2>1, <3>1
  <2> QED
    BY <2>1, <2>2, <2>3
<1>3. CASE DoctorCalls \/ DoctorLeaves
  <2>1. PICK says \in {"next_visitor", "leaves"} :
            transcript' = Append(t, Line("D", 0, says, curr_time))
    BY <1>3 DEF DoctorCalls, DoctorLeaves
  <2>2. PICK line : line.says = says /\ transcript' = Append(t, line)
    BY <2>1 DEF Line
  <2> QED
    BY <1>1, <2>2
<1>4. ASSUME NEW i \in DOMAIN visitor, EnterChamber(i)
      PROVE  \A j \in DOMAIN t : j \in DOMAIN transcript' /\ transcript'[j] = t[j]
  <2>1. PICK line : transcript' = Append(t, line)
    BY <1>4 DEF EnterChamber
  <2> QED
    BY <1>1, <2>1
<1>5. CASE /\ ~Arrive /\ ~DoctorCalls /\ ~DoctorLeaves
           /\ ~ \E i \in DOMAIN visitor : EnterChamber(i)
  BY <1>5, SilentStep
<1> QED
  BY <1>2, <1>3, <1>4, <1>5

LEMMA EventKept ==
    ASSUME [Next]_vars, ~Arrive, ~ \E k \in Kind : Serve(k)
    PROVE  event' = event
  BY DEF Next, MainSteps, DoctorSteps, VisitorSteps, Terminated, vars, local, DoctorDone,
     EndSession, JoinDoctor, CreateVisitor, AwaitInit, NoService, EngageDoctor, AwaitDoctor,
     CallVisitor, JoinVisitor, Exit, DoctorLocks, DoctorCalls, DoctorLeaves, CopyParam,
     SignalInit, AwaitTurn, EnterChamber, SpuriousMain, SpuriousDoctor, SpuriousVisitor

LEMMA CurrKept ==
    ASSUME [Next]_vars, ~CallVisitor
    PROVE  curr' = curr
  BY DEF Next, MainSteps, DoctorSteps, VisitorSteps, Terminated, vars, shared, DoctorDone,
     EndSession, JoinDoctor, Arrive, CreateVisitor, AwaitInit, Serve, NoService, EngageDoctor,
     AwaitDoctor, JoinVisitor, Exit, DoctorLocks, DoctorCalls, DoctorLeaves, CopyParam,
     SignalInit, AwaitTurn, EnterChamber, SpuriousMain, SpuriousDoctor, SpuriousVisitor

LEMMA VisitsStep ==
    ASSUME OrderInv, [Next]_vars
    PROVE  Visits'
<1>0. /\ Visits /\ QueueInv /\ Flags
      /\ transcript \in Seq(Printed) /\ DOMAIN transcript = 1 .. Len(transcript)
      /\ Len(transcript) \in Nat
      /\ \A k \in Kind : curr[k] \in Nat
  BY DEF OrderInv, QueueInv, Flags
<1>1. ASSUME NEW j \in DOMAIN transcript, transcript[j].says = "in_chamber"
      PROVE  /\ transcript[j].who \in Kind /\ transcript[j].id \in 1 .. curr[transcript[j].who]
             /\ ~(Pending /\ event.type = transcript[j].who
                  /\ transcript[j].id = curr[transcript[j].who])
  BY <1>0, <1>1 DEF Visits
<1>2. \A j \in DOMAIN transcript : j \in DOMAIN transcript' /\ transcript'[j] = transcript[j]
  BY LinesKept
<1>3. ASSUME NEW i \in DOMAIN visitor, EnterChamber(i)
      PROVE  Visits'
  <2> PICK m \in Nat : m = Len(transcript) + 1
    BY <1>0
  <2> DEFINE k == visitor[i].kind
             line == Line(k, visitor[i].mine.id, "in_chamber", curr_time + visitor[i].mine.e.duration)
  <2>1. k \in Kind /\ Pending /\ event.type = k /\ visitor[i].mine.id = curr[k] /\ ~Pending'
    BY <1>3, EnterFacts, EnterStep
  <2>2. transcript' = Append(transcript, line) /\ curr' = curr
    BY <1>3 DEF EnterChamber
  <2>3. line.who = k /\ line.id = curr[k] /\ line.says = "in_chamber"
    BY <2>1 DEF Line
  <2> HIDE DEF line
  <2>4. DOMAIN transcript' = 1 .. m /\ transcript'[m] = line
        /\ \A j \in DOMAIN transcript' : j \in DOMAIN transcript \/ j = m
    BY <1>0, <2>2
  <2>5. curr[k] \in Nat \ {0}
    BY <1>0, <2>1, <1>3, EnterFacts DEF OrderInv, QueueInv, Typed
  <2>6. ASSUME NEW a \in Kind, NEW q \in 1 .. curr[a]
        PROVE  \E j \in DOMAIN transcript' : VisitAt(j, a, q)'
    <3>1. CASE a = k /\ q = curr[k]
      <4>1. VisitAt(m, a, q)'
        BY <2>3, <2>4, <3>1 DEF VisitAt
      <4>2. m \in DOMAIN transcript'
        BY <1>0, <2>4
      <4> QED
        BY <4>1, <4>2
    <3>2. CASE ~(a = k /\ q = curr[k])
      <4>1. PICK j \in DOMAIN transcript : VisitAt(j, a, q)
        BY <1>0, <2>1, <2>6, <3>2 DEF Visits
      <4>2. j \in DOMAIN transcript' /\ VisitAt(j, a, q)'
        BY <1>2, <4>1 DEF VisitAt
      <4> QED
        BY <4>2
    <3> QED
      BY <3>1, <3>2
  <2>7. ASSUME NEW j \in DOMAIN transcript', transcript'[j].says = "in_chamber"
        PROVE  transcript'[j].who \in Kind /\ transcript'[j].id \in 1 .. curr[transcript'[j].who]
    <3>1. CASE j = m
      BY <2>1, <2>3, <2>4, <2>5, <3>1
    <3>2. CASE j \in DOMAIN transcript
      BY <1>1, <1>2, <2>7, <3>2
    <3> QED
      BY <2>4, <3>1, <3>2
  <2>8. ASSUME NEW f \in DOMAIN transcript', NEW j \in DOMAIN transcript', f < j,
               transcript'[f].says = "in_chamber", transcript'[j].says = "in_chamber",
               transcript'[f].who = transcript'[j].who
        PROVE  transcript'[f].id < transcript'[j].id
    <3>1. f \in DOMAIN transcript /\ transcript'[f] = transcript[f]
      BY <1>0, <1>2, <2>4, <2>8
    <3>2. CASE j = m
      <4>1. transcript[f].who = k /\ transcript[f].says = "in_chamber"
        BY <2>3, <2>4, <2>8, <3>1, <3>2
      <4>2. transcript[f].id \in 1 .. curr[k] /\ transcript[f].id # curr[k]
        BY <1>1, <2>1, <3>1, <4>1
      <4> QED
        BY <2>3, <2>4, <2>5, <3>1, <3>2, <4>2
    <3>3. CASE j \in DOMAIN transcript
      BY <1>0, <1>2, <2>8, <3>1, <3>3 DEF Visits
    <3> QED
      BY <2>4, <3>2, <3>3
  <2> QED
    BY <2>1, <2>2, <2>6, <2>7, <2>8 DEF Visits
<1>4. CASE CallVisitor
  <2> DEFINE k == event.type
  <2>1. /\ ~Pending /\ Pending' /\ event' = event /\ transcript' = transcript
        /\ k \in Kind /\ curr[k] \in Nat
        /\ curr'[k] = curr[k] + 1 /\ \A a \in Kind \ {k} : curr'[a] = curr[a]
    BY <1>4, CalledStep DEF CallVisitor, local
  <2> HIDE DEF k
  <2>2. ASSUME NEW a \in Kind, NEW q \in 1 .. curr'[a], ~(a = k /\ q = curr'[k])
        PROVE  \E j \in DOMAIN transcript : VisitAt(j, a, q)
    <3>1. q \in 1 .. curr[a]
      BY <1>0, <2>1, <2>2
    <3> QED
      BY <1>0, <2>1, <3>1 DEF Visits
  <2>3. ASSUME NEW j \in DOMAIN transcript, transcript[j].says = "in_chamber"
        PROVE  LET w == transcript[j].who
               IN  w \in Kind /\ transcript[j].id \in 1 .. curr'[w]
                   /\ ~(k = w /\ transcript[j].id = curr'[w])
    <3>1. transcript[j].who \in Kind /\ transcript[j].id \in 1 .. curr[transcript[j].who]
      BY <1>1, <2>3
    <3> QED
      BY <1>0, <2>1, <3>1
  <2>4. \A j, a, q : VisitAt(j, a, q)' <=> VisitAt(j, a, q)
    BY <2>1 DEF VisitAt
  <2>5. k' = k
    BY <2>1 DEF k
  <2>6. \A a \in Kind : \A q \in 1 .. curr'[a] :
            \/ \E j \in DOMAIN transcript' : VisitAt(j, a, q)'
            \/ Pending' /\ event'.type = a /\ q = curr'[a]
    BY <2>1, <2>2, <2>4 DEF k
  <2>7. \A j \in DOMAIN transcript' :
           transcript'[j].says = "in_chamber" =>
               LET w == transcript'[j].who
               IN  /\ w \in Kind
                   /\ transcript'[j].id \in 1 .. curr'[w]
                   /\ ~(Pending' /\ event'.type = w /\ transcript'[j].id = curr'[w])
    BY <2>1, <2>3 DEF k
  <2>8. \A i, j \in DOMAIN transcript' :
           /\ i < j
           /\ transcript'[i].says = "in_chamber" /\ transcript'[j].says = "in_chamber"
           /\ transcript'[i].who = transcript'[j].who
           => transcript'[i].id < transcript'[j].id
    BY <1>0, <2>1 DEF Visits
  <2> QED
    BY <2>6, <2>7, <2>8 DEF Visits
<1>5. CASE ~CallVisitor /\ ~ \E i \in DOMAIN visitor : EnterChamber(i)
  <2>1. curr' = curr
    BY <1>5, CurrKept
  <2>2. (Pending' <=> Pending) /\ (Pending => event' = event)
    <3>1. Pending' <=> Pending
      BY <1>5, NoteStep, StillElse, StillStep
    <3>2. Pending => event' = event
      <4>1. Arrive => ~Pending
        BY DEF Arrive, Pops, Pending
      <4>2. ASSUME NEW k \in Kind, Serve(k)
            PROVE  ~Pending
        BY <4>2 DEF Serve, Pending
      <4> QED
        BY <4>1, <4>2, EventKept
    <3> QED
      BY <3>1, <3>2
  <2>3. \A j \in DOMAIN transcript' : j \in DOMAIN transcript \/ transcript'[j].says # "in_chamber"
    BY <1>5, LinesKept
  <2>4. ASSUME NEW a \in Kind, NEW q \in 1 .. curr[a]
        PROVE  \/ \E j \in DOMAIN transcript' : VisitAt(j, a, q)'
               \/ Pending' /\ event'.type = a /\ q = curr[a]
    <3>1. CASE Pending /\ event.type = a /\ q = curr[a]
      BY <2>2, <3>1
    <3>2. ASSUME NEW j \in DOMAIN transcript, VisitAt(j, a, q)
          PROVE  j \in DOMAIN transcript' /\ VisitAt(j, a, q)'
      BY <1>2, <3>2 DEF VisitAt
    <3> QED
      BY <1>0, <3>1, <3>2 DEF Visits
  <2>5. ASSUME NEW j \in DOMAIN transcript', transcript'[j].says = "in_chamber"
        PROVE  j \in DOMAIN transcript /\ transcript'[j] = transcript[j]
    BY <1>2, <2>3, <2>5
  <2>6. ASSUME NEW j \in DOMAIN transcript', transcript'[j].says = "in_chamber"
        PROVE  LET k == transcript'[j].who
               IN  /\ k \in Kind
                   /\ transcript'[j].id \in 1 .. curr[k]
                   /\ ~(Pending' /\ event'.type = k /\ transcript'[j].id = curr[k])
    BY <1>1, <2>2, <2>5, <2>6
  <2>7. ASSUME NEW f \in DOMAIN transcript', NEW j \in DOMAIN transcript', f < j,
               transcript'[f].says = "in_chamber", transcript'[j].says = "in_chamber",
               transcript'[f].who = transcript'[j].who
        PROVE  transcript'[f].id < transcript'[j].id
    BY <1>0, <2>5, <2>7 DEF Visits
  <2> QED
    BY <2>1, <2>4, <2>6, <2>7 DEF Visits
<1> QED
  BY <1>3, <1>4, <1>5

LEMMA AboveFacts ==
    ASSUME NEW k \in Kind
    PROVE  Above(k) \subseteq Kind \ {"D", k}
  BY DEF Above, Kind

\* Nobody who goes before k has come by the time of an event of kind k, or
\* of the end of a visit, that is at the head of the queue.
LEMMA PopLater ==
    ASSUME OrderInv, NEW types, Pops(types), NEW k \in Kind,
           NextEvent(E).type \in {"D", k}
    PROVE  Later(k, curr_time)'
<1>1. SUFFICES ASSUME NEW e \in Elements(E'), e.type \in Above(k)
               PROVE  e.time > curr_time'
  BY DEF Later
<1>2. /\ NotAfter(NextEvent(E), e) /\ curr_time' <= e.time
      /\ curr_time' \in Int /\ curr_time' = NextEvent(E).time
  BY PopTime
<1>3. e \in Event
  <2>1. e \in Elements(E) /\ E \in Seq(Event)
    BY PopFacts DEF OrderInv, QueueInv, Heap
  <2> QED
    BY <2>1 DEF Elements
<1>4. e.time # NextEvent(E).time
  BY <1>1, <1>2, <1>3 DEF NotAfter, Before, Above, Kind
<1> QED
  BY <1>2, <1>3, <1>4 DEF Event

\* The steps that keep the queue, the time and who waits.
LEMMA LaterKept ==
    ASSUME OrderInv, [Next]_vars, ~DoctorDone, ~Arrive
    PROVE  \A k \in Kind : \A t : Later(k, t) => Later(k, t)'
<1>1. CASE JoinVisitor
  <2> DEFINE end == [type |-> "D", time |-> curr_time + event.duration, duration |-> 0]
  <2>1. E' = AddEvent(E, end) /\ E \in Heap
    BY <1>1 DEF JoinVisitor, OrderInv, QueueInv
  <2>2. end \in Event /\ end.type = "D"
    BY DEF OrderInv, QueueInv, Flags, Typed, Event, EventKind
  <2> HIDE DEF end
  <2>3. Elements(E') = Elements(E) \cup {end}
    BY <2>1, <2>2, AddEventHeap
  <2> QED
    BY <2>2, <2>3, AboveFacts DEF Later
<1>2. CASE ~JoinVisitor
  <2>1. E' = E
    BY <1>2, QueueKept DEF OrderInv
  <2> QED
    BY <2>1 DEF Later
<1> QED
  BY <1>1, <1>2

LEMMA ServiceStep ==
    ASSUME OrderInv, [Next]_vars
    PROVE  Service'
<1>0. /\ Service /\ QueueInv /\ Turn /\ Flags /\ Waiting /\ LocksInv
      /\ \A k \in Kind : wait[k] \in Nat
      /\ doc_session_end' \in {doc_session_end, 1}
      /\ doc_session_end \in {0, 1} /\ event \in Event
      /\ LettingIn => event.type \in Kind
  BY SessionEndStep DEF OrderInv, QueueInv, Flags, Typed, TokenInv, Counted
<1> USE DEF MayServe, LettingIn, Engaged, Serving
<1>1. CASE DoctorDone
  <2>1. Pops({"D"}) /\ NextEvent(E).type = "D" /\ main' \in {"leave", "service"}
    BY <1>1 DEF DoctorDone, Pops
  <2>2. \A k \in Kind : Later(k, curr_time)'
    BY <2>1, PopLater
  <2> QED
    BY <2>1, <2>2 DEF Service
<1>2. CASE Arrive
  <2>0. NextEvent(E).type \in Kind
    BY <1>2 DEF Arrive, Pops
  <2> PICK k \in Kind : k = NextEvent(E).type
    BY <2>0
  <2>1. Pops(Kind) /\ main = "pop"
        /\ UNCHANGED <<doc_free, doc_session_end>>
        /\ \/ main' = "pop" /\ wait' = wait
           \/ main' = "create" /\ wait' = [wait EXCEPT ![k] = @ + 1]
    BY <1>2 DEF Arrive, Pops
  <2>2. Later(k, curr_time)'
    BY <2>1, PopLater
  <2>3. MayServe => \A j \in Kind : wait[j] = 0
    BY <1>0, <2>1 DEF Service
  <2>4. CASE main' = "pop" /\ wait' = wait
    BY <2>1, <2>3, <2>4 DEF Service
  <2>5. CASE main' = "create" /\ wait' = [wait EXCEPT ![k] = @ + 1]
    <3>1. \A j \in Kind \ {k} : wait'[j] = wait[j]
      BY <1>0, <2>5 DEF Flags
    <3>2. MayServe' => \A j \in Kind : wait'[j] > 0 => j = k
      BY <2>1, <2>3, <3>1
    <3>3. MayServe' => \A j \in Kind : wait'[j] > 0 => Later(j, curr_time)'
      BY <2>2, <3>2
    <3> QED
      BY <2>5, <3>3 DEF Service
  <2> QED
    BY <2>1, <2>4, <2>5
<1>3. CASE ~DoctorDone /\ ~Arrive
  <2>0. /\ curr_time' = curr_time
        /\ \A k \in Kind : \A t : Later(k, t) => Later(k, t)'
    BY <1>3, TimeStep, LaterKept
  <2>1. \A k \in Kind : Later(k, curr_time) => Later(k, curr_time)'
    BY <2>0 DEF Later
  <2>2. ASSUME NEW k \in Kind, Serve(k)
        PROVE  Service'
    <3>1. /\ main = "service" /\ main' = "engage" /\ MayServe /\ wait[k] > 0
          /\ \A a \in Above(k) : wait[a] = 0
          /\ wait' = [wait EXCEPT ![k] = @ - 1]
      BY <2>2 DEF Serve
    <3>2. event'.type = k
      BY <1>0, <2>2, ServeFacts
    <3>3. Later(k, curr_time)'
      BY <1>0, <2>1, <3>1 DEF Service
    <3>4. \A a \in Above(k) : wait'[a] = 0
      BY <1>0, <3>1, AboveFacts DEF Flags
    <3>5. Later(event.type, curr_time)' /\ \A a \in Above(event'.type) : wait'[a] = 0
      BY <3>2, <3>3, <3>4 DEF Later
    <3> QED
      BY <3>1, <3>5 DEF Service
  <2>3. CASE JoinDoctor
    BY <1>0, <2>3 DEF JoinDoctor, Service, shared
  <2>4. CASE NoService
    BY <1>0, <2>4 DEF NoService, Service, shared
  <2>5. CASE JoinVisitor
    BY <1>0, <2>5 DEF JoinVisitor, Service, Turn, shared
  <2>6. CASE EndSession \/ Exit
    BY <2>6 DEF EndSession, Exit, Service
  <2>7. CASE /\ UNCHANGED <<wait, doc_free, event>>
             /\ main' = "pop" => main = "pop"
             /\ LettingIn' \/ main' = "service" => LettingIn \/ main = "service"
             /\ Engaged' => Engaged
             /\ main' = "join_doctor" => main = "join_doctor"
    <3>1. MayServe' => MayServe
      BY <1>0, <2>7
    <3>2. Engaged' => Later(event.type, curr_time)'
      <4>1. Engaged => event.type \in Kind
        BY <1>0 DEF OrderInv, Placed, Turn
      <4>2. Engaged => Later(event.type, curr_time)
        BY <1>0 DEF Service
      <4> QED
        BY <2>1, <2>7, <4>1, <4>2 DEF Later
    <3>3. Engaged' => \A a \in Above(event'.type) : wait'[a] = 0
      BY <1>0, <2>7 DEF Service
    <3>4. (LettingIn' \/ main' = "service") /\ MayServe' =>
              \A k \in Kind : wait'[k] > 0 => Later(k, curr_time)'
      BY <1>0, <2>1, <2>7, <3>1 DEF Service
    <3>5. main' = "pop" /\ MayServe' => \A k \in Kind : wait'[k] = 0
      BY <1>0, <2>7, <3>1 DEF Service
    <3>6. main' = "join_doctor" => doc_session_end' = 1
      BY <1>0, <2>7 DEF Service
    <3> QED
      BY <3>2, <3>3, <3>4, <3>5, <3>6 DEF Service
  <2> HIDE DEF MayServe
  <2>8. CASE CreateVisitor \/ AwaitInit \/ EngageDoctor \/ AwaitDoctor \/ CallVisitor
    BY <2>7, <2>8 DEF CreateVisitor, AwaitInit, EngageDoctor, AwaitDoctor, CallVisitor, shared, local
  <2>9. CASE DoctorSteps
    BY <2>7, <2>9 DEF DoctorSteps, DoctorLocks, DoctorCalls, DoctorLeaves, shared, local
  <2>10. ASSUME NEW i \in DOMAIN visitor, VisitorSteps(i) \/ SpuriousVisitor(i)
         PROVE  Service'
    BY <2>7, <2>10 DEF VisitorSteps, CopyParam, SignalInit, AwaitTurn, EnterChamber,
                       SpuriousVisitor, shared, local
  <2>11. CASE SpuriousMain \/ SpuriousDoctor \/ UNCHANGED vars
    BY <2>7, <2>11 DEF SpuriousMain, SpuriousDoctor, vars, shared, local
  <2> QED
    BY <1>3, <2>2, <2>3, <2>4, <2>5, <2>6, <2>8, <2>9, <2>10, <2>11
    DEF Next, MainSteps, Terminated
<1> QED
  BY <1>1, <1>2, <1>3

LEMMA PastStep ==
    ASSUME OrderInv, [Next]_vars
    PROVE  Past'
<1>0. /\ Past /\ Visits /\ QueueInv /\ Typed(Event)
      /\ transcript \in Seq(Printed) /\ DOMAIN transcript = 1 .. Len(transcript)
      /\ Len(transcript) \in Nat
      /\ Q \in [Kind -> Seq(Event)]
  BY DEF OrderInv, QueueInv, Typed
<1>1. \A j \in DOMAIN transcript : j \in DOMAIN transcript' /\ transcript'[j] = transcript[j]
  BY LinesKept
\* A line printed before this step.
<1>2. ASSUME NEW j \in DOMAIN transcript, transcript[j].says = "in_chamber",
             NEW k \in Kind, k = transcript[j].who, NEW t, t = transcript[j].at
      PROVE  /\ Later(k, t)'
             /\ LettingIn' /\ event'.type \in Above(k) => event'.time > t
             /\ \A a \in Above(k) : \A n \in DOMAIN Q'[a] :
                    Q'[a][n].time > t \/ \E i \in 1 .. j - 1 : VisitAt(i, a, n)'
  <2>0. /\ Later(k, t)
        /\ LettingIn /\ event.type \in Above(k) => event.time > t
        /\ \A a \in Above(k) : \A n \in DOMAIN Q[a] :
               Q[a][n].time > t \/ \E i \in 1 .. j - 1 : VisitAt(i, a, n)
    BY <1>0, <1>2 DEF Past
  <2>1. Later(k, t)'
    <3>1. CASE DoctorDone \/ Arrive
      <4>1. \A e \in Elements(E') : e \in Elements(E)
        BY <1>0, <3>1, PopFacts DEF DoctorDone, Arrive
      <4> QED
        BY <2>0, <4>1 DEF Later
    <3>2. CASE ~DoctorDone /\ ~Arrive
      BY <2>0, <3>2, LaterKept
    <3> QED
      BY <3>1, <3>2
  <2>2. ASSUME LettingIn', event'.type \in Above(k)
        PROVE  event'.time > t
    <3>1. CASE Arrive
      <4>1. NextEvent(E) \in Elements(E) /\ event' \in {event, NextEvent(E)} /\ main = "pop"
        BY <3>1, PopTime DEF Arrive
      <4>2. event' = NextEvent(E)
        BY <2>2, <3>1 DEF Arrive, LettingIn
      <4> QED
        BY <2>0, <2>2, <4>1, <4>2 DEF Later
    <3>2. ASSUME NEW b \in Kind, Serve(b)
          PROVE  ~LettingIn'
      BY <3>2 DEF Serve, LettingIn
    <3>3. CASE ~Arrive /\ ~ \E b \in Kind : Serve(b)
      <4>1. event' = event
        BY <3>3, EventKept
      <4>2. LettingIn
        BY <2>2, <3>3 DEF LettingIn, Next, MainSteps, DoctorSteps, VisitorSteps, Terminated, vars,
           DoctorDone, EndSession, JoinDoctor, CreateVisitor, AwaitInit, NoService, EngageDoctor,
           AwaitDoctor, CallVisitor, JoinVisitor, Exit, DoctorLocks, DoctorCalls, DoctorLeaves,
           CopyParam, SignalInit, AwaitTurn, EnterChamber, SpuriousMain, SpuriousDoctor,
           SpuriousVisitor
      <4> QED
        BY <2>0, <2>2, <4>1, <4>2
    <3> QED
      BY <2>2, <3>1, <3>2, <3>3
  <2>3. ASSUME NEW a \in Above(k), NEW n \in DOMAIN Q'[a]
        PROVE  Q'[a][n].time > t \/ \E i \in 1 .. j - 1 : VisitAt(i, a, n)'
    <3>0. a \in Kind
      BY AboveFacts
    <3>1. CASE n \in DOMAIN Q[a] /\ Q'[a][n] = Q[a][n]
      <4>1. ASSUME NEW i \in 1 .. j - 1, VisitAt(i, a, n)
            PROVE  VisitAt(i, a, n)'
        <5>1. i \in DOMAIN transcript
          BY <1>0
        <5> QED
          BY <1>1, <4>1, <5>1 DEF VisitAt
      <4> QED
        BY <2>0, <3>1, <4>1
    <3>2. CASE ~(n \in DOMAIN Q[a] /\ Q'[a][n] = Q[a][n])
      <4>1. AwaitInit
        BY <2>3, <3>2 DEF Next, MainSteps, DoctorSteps, VisitorSteps, Terminated, vars, local,
           DoctorDone, EndSession, JoinDoctor, Arrive, CreateVisitor, Serve, NoService,
           EngageDoctor, AwaitDoctor, CallVisitor, JoinVisitor, Exit, DoctorLocks, DoctorCalls,
           DoctorLeaves, CopyParam, SignalInit, AwaitTurn, EnterChamber, SpuriousMain,
           SpuriousDoctor, SpuriousVisitor
      <4>2. /\ Q' = Q \/ Q' = [Q EXCEPT ![event.type] = Append(@, event)]
            /\ LettingIn
        BY <4>1 DEF AwaitInit, LettingIn
      <4>3. Q' # Q
        BY <2>3, <3>2
      <4>4. event.type = a /\ Q'[a] = Append(Q[a], event)
        BY <1>0, <2>3, <3>0, <3>2, <4>2, <4>3
      <4>5. Q[a] \in Seq(Event)
        BY <1>0, <3>0
      <4>6. Q'[a][n] = event
        BY <2>3, <3>2, <4>4, <4>5
      <4> QED
        BY <2>0, <2>3, <4>2, <4>4, <4>6
    <3> QED
      BY <3>1, <3>2
  <2> QED
    BY <2>1, <2>2, <2>3
\* The line printed in this step, if it is a visitor's who goes in.
<1>3. ASSUME NEW i \in DOMAIN visitor, EnterChamber(i)
      PROVE  Past'
  <2> PICK m \in Nat : m = Len(transcript) + 1
    BY <1>0
  <2> PICK k \in Kind : k = visitor[i].kind
    BY <1>3, EnterFacts
  <2> PICK t : t = curr_time
    OBVIOUS
  <2> DEFINE line == Line(k, visitor[i].mine.id, "in_chamber", t + visitor[i].mine.e.duration)
  <2>1. main = "join_visitor" /\ main' = main /\ event.type = k /\ ~LettingIn' /\ Q' = Q
    BY <1>3, EnterFacts DEF EnterChamber, LettingIn, local
  <2>2. transcript' = Append(transcript, line) /\ line.who = k /\ line.at = t
    BY <1>3 DEF EnterChamber, Line
  <2> HIDE DEF line
  <2>3. DOMAIN transcript' = 1 .. m /\ transcript'[m] = line
        /\ \A j \in DOMAIN transcript' : j \in DOMAIN transcript \/ j = m
    BY <1>0, <2>2
  <2>4. Later(k, t) /\ \A a \in Above(k) : wait[a] = 0
    BY <2>1 DEF OrderInv, Service, Engaged
  <2>5. Later(k, t)'
    <3>1. ~DoctorDone /\ ~Arrive
      BY <2>1 DEF DoctorDone, Arrive, Pops
    <3> QED
      BY <2>4, <3>1, LaterKept
  <2>6. ASSUME NEW a \in Above(k), NEW n \in DOMAIN Q[a]
        PROVE  \E f \in 1 .. m - 1 : VisitAt(f, a, n)'
    <3>0. a \in Kind /\ a # k
      BY AboveFacts
    <3>1. curr[a] = Len(Q[a])
      <4>1. /\ curr[a] \in Nat /\ wait[a] = 0 /\ Len(Q[a]) = Len(tids[a])
            /\ Q[a] \in Seq(Event) /\ ~Serving /\ ~LettingIn
        BY <1>0, <2>1, <2>4, <3>0 DEF QueueInv, Flags, TokenInv, Counted, Serving, LettingIn
      <4>2. wait[a] + curr[a] + 0 = Len(tids[a]) + 0
        BY <1>0, <3>0, <4>1 DEF QueueInv, Waiting, Num
      <4>3. Len(Q[a]) \in Nat
        BY <4>1
      <4> QED
        BY <4>1, <4>2, <4>3
    <3>2. n \in 1 .. curr[a]
      <4>1. Q[a] \in Seq(Event)
        BY <1>0, <3>0
      <4> QED
        BY <3>1, <4>1
    <3>3. PICK f \in DOMAIN transcript : VisitAt(f, a, n)
      BY <1>0, <2>1, <3>0, <3>2 DEF Visits
    <3>4. f \in 1 .. m - 1 /\ VisitAt(f, a, n)'
      BY <1>0, <1>1, <3>3 DEF VisitAt
    <3> QED
      BY <3>4
  <2>7. ASSUME NEW j \in DOMAIN transcript', transcript'[j].says = "in_chamber"
        PROVE  LET w == transcript'[j].who
                   at == transcript'[j].at
               IN  /\ \A e \in Elements(E') : e.type \in Above(w) => e.time > at
                   /\ LettingIn' /\ event'.type \in Above(w) => event'.time > at
                   /\ \A a \in Above(w) : \A n \in DOMAIN Q'[a] :
                          Q'[a][n].time > at \/ \E f \in 1 .. j - 1 : VisitAt(f, a, n)'
    <3>1. CASE j = m
      <4>1. transcript'[j].who = k /\ transcript'[j].at = t
        BY <2>2, <2>3, <3>1
      <4> QED
        BY <2>1, <2>5, <2>6, <3>1, <4>1 DEF Later
    <3>2. CASE j \in DOMAIN transcript
      <4>1. transcript'[j] = transcript[j]
        BY <1>1, <3>2
      <4>2. PICK w \in Kind : w = transcript[j].who
        BY <1>0, <2>7, <3>2, <4>1 DEF Visits
      <4>3. PICK at : at = transcript[j].at
        OBVIOUS
      <4> QED
        BY <1>2, <2>7, <3>2, <4>1, <4>2, <4>3 DEF Later
    <3> QED
      BY <2>3, <3>1, <3>2
  <2> QED
    BY <2>7 DEF Past, Later
<1>4. CASE ~ \E i \in DOMAIN visitor : EnterChamber(i)
  <2>1. ASSUME NEW j \in DOMAIN transcript', transcript'[j].says = "in_chamber"
        PROVE  LET w == transcript'[j].who
                   at == transcript'[j].at
               IN  /\ \A e \in Elements(E') : e.type \in Above(w) => e.time > at
                   /\ LettingIn' /\ event'.type \in Above(w) => event'.time > at
                   /\ \A a \in Above(w) : \A n \in DOMAIN Q'[a] :
                          Q'[a][n].time > at \/ \E f \in 1 .. j - 1 : VisitAt(f, a, n)'
    <3>1. j \in DOMAIN transcript /\ transcript'[j] = transcript[j]
      BY <1>1, <1>4, <2>1, LinesKept
    <3>2. PICK w \in Kind : w = transcript[j].who
      BY <1>0, <2>1, <3>1 DEF Visits
    <3>3. PICK at : at = transcript[j].at
      OBVIOUS
    <3> QED
      BY <1>2, <2>1, <3>1, <3>2, <3>3 DEF Later
  <2> QED
    BY <2>1 DEF Past, Later
<1> QED
  BY <1>3, <1>4

LEMMA OrderInvInit == Init => OrderInv
<1> SUFFICES ASSUME Init
             PROVE  OrderInv
  OBVIOUS
<1>1. QueueInv
  BY QueueInvInit
<1>2. PICK f \in Files : E = AddEvent(InitEQ(f), NoEvent)
  BY DEF Init
<1>3. NoDelay
  <2>1. f \in Seq(Event) /\ \A i \in 1 .. Len(f) : f[i].duration >= 0
    BY FilesAssumption
  <2>2. InitEQ(f) \in Heap /\ Elements(InitEQ(f)) = Elements(f)
    BY <2>1, InitEQHeap, SameElements
  <2>3. NoEvent \in Event /\ NoEvent.duration = 0
    BY DEF NoEvent, Event, EventKind
  <2>4. Elements(E) = Elements(f) \cup {NoEvent}
    BY <1>2, <2>2, <2>3, AddEventHeap
  <2>5. \A e \in Elements(f) : e.duration >= 0
    BY <2>1 DEF Elements
  <2>6. \A e \in Elements(E) : e.duration >= 0
    BY <2>3, <2>4, <2>5
  <2> QED
    BY <2>3, <2>6 DEF Init, NoDelay
<1>4. Placed /\ Called
  BY DEF Init, Placed, Called
<1>5. transcript = <<>> /\ main = "pop" /\ curr = [k \in Kind |-> 0]
      /\ wait = [k \in Kind |-> 0] /\ doc_free = 0
  BY DEF Init
<1>6. ~Announced
  BY <1>5 DEF Announced, Pending
<1>7. Clock /\ LastLine /\ Closed
  BY <1>5, <1>6 DEF Clock, LastLine, Closed
<1>8. transcript \in Seq(Printed) /\ TranscriptInOrder /\ Past
  BY <1>5 DEF TranscriptInOrder, Past
<1>9. Visits
  BY <1>5 DEF Visits
<1>10. Service
  BY <1>5 DEF Service, MayServe, Engaged, Serving, LettingIn
<1> QED
  BY <1>1, <1>3, <1>4, <1>7, <1>8, <1>9, <1>10 DEF OrderInv

LEMMA OrderInvStep == OrderInv /\ [Next]_vars => OrderInv'
<1> SUFFICES ASSUME OrderInv, [Next]_vars
             PROVE  OrderInv'
  OBVIOUS
<1>1. QueueInv'
  BY QueueInvStep DEF OrderInv
<1>2. transcript' \in Seq(Printed) /\ Closed'
  BY TranscriptStep DEF Told, Closed
<1>3. TranscriptInOrder'
  <2>1. Ordered(transcript')
    BY TranscriptStep DEF Told
  <2> QED
    BY <2>1 DEF Ordered, TranscriptInOrder
<1> QED
  BY <1>1, <1>2, <1>3, NoDelayStep, ThreadsStep, ClockStep, TranscriptStep, VisitsStep,
     ServiceStep, PastStep
  DEF OrderInv

LEMMA OrderInvServes == OrderInv => ServedInOrder
<1> SUFFICES ASSUME OrderInv
             PROVE  HigherFirst
  BY DEF OrderInv, ServedInOrder
<1>0. /\ Past /\ Visits /\ Called /\ QueueInv /\ Typed(Event)
      /\ transcript \in Seq(Printed) /\ DOMAIN transcript = 1 .. Len(transcript)
  BY DEF OrderInv, QueueInv
<1> SUFFICES ASSUME NEW i \in DOMAIN transcript, NEW j \in DOMAIN transcript, i < j,
                    transcript[i].says = "in_chamber", transcript[j].says = "in_chamber",
                    <<transcript[j].who, transcript[i].who>>
                        \in {<<"R", "P">>, <<"R", "S">>, <<"P", "S">>}
             PROVE  Q[transcript[j].who][transcript[j].id].time > transcript[i].at
  BY <1>0 DEF HigherFirst, Visits
<1> DEFINE a == transcript[j].who
           n == transcript[j].id
<1>1. a \in Above(transcript[i].who) /\ a \in Kind
  BY DEF Above, Kind
<1>2. n \in DOMAIN Q[a]
  <2>1. n \in 1 .. curr[a] /\ curr[a] <= Len(tids[a]) /\ Len(Q[a]) = Len(tids[a])
    BY <1>0, <1>1 DEF Visits, Called, QueueInv, TokenInv, Counted
  <2>2. curr[a] \in Nat /\ Q[a] \in Seq(Event)
    BY <1>0, <1>1 DEF QueueInv, Flags, Typed
  <2> HIDE DEF a, n
  <2> QED
    BY <2>1, <2>2
<1>3. ASSUME NEW f \in 1 .. i - 1, VisitAt(f, a, n)
      PROVE  FALSE
  <2>1. f \in DOMAIN transcript /\ f < j /\ n \in Nat
    <3>1. n \in 1 .. curr[a]
      BY <1>0, <1>1 DEF Visits
    <3> QED
      BY <1>0, <3>1
  <2>2. transcript[f].id < transcript[j].id
    BY <1>0, <1>3, <2>1 DEF Visits, VisitAt
  <2> QED
    BY <1>3, <2>1, <2>2 DEF VisitAt
<1> QED
  BY <1>0, <1>1, <1>2, <1>3 DEF Past

\* Reporters before patients before sales representatives, each kind in the
\* order of arrival, whichever thread runs when: a visitor whom one of a lower
\* kind went before came later; and the lines printed are in order of time,
\* the doctor's before each visitor's.
THEOREM ServiceOrdered == Spec => []ServedInOrder
<1> QED
  BY OrderInvInit, OrderInvStep, OrderInvServes, PTL DEF Spec

-----------------------------------------------------------------------------
(* The refinement of Consultation                                          *)

\* Whoever comes is on a schedule, and comes before the session is over.
Known ==
    /\ \A e \in Elements(E) : e.type \in Kind => e \in Schedule
    /\ LettingIn => event \in Schedule /\ event.time = curr_time /\ doc_session_end = 0

\* Time goes on: nothing in the queue is past, once somebody has come or the
\* doctor has opened.
Onward ==
    /\ \/ main = "pop" /\ doc_free = 0 /\ \A k \in Kind : Q[k] = <<>>
       \/ \A e \in Elements(E) : curr_time <= e.time
    /\ \A k \in Kind : \A n \in DOMAIN Q[k] : Q[k][n].time <= curr_time

\* The queue holds one end of a visit at most.
OneEnd ==
    /\ \A i, j \in DOMAIN E : E[i].type = "D" /\ E[j].type = "D" => i = j
    /\ Out => \A i \in DOMAIN E : E[i].type # "D"

\* The visitor who is served is the next one of his kind.
NextOne ==
    /\ Serving => event = Q[event.type][curr[event.type] + 1]
    /\ main = "join_visitor" => event = Q[event.type][curr[event.type]]

\* Main keeps the doctor's time: of t, when the visits so far end, and now
\* the later is when the next visit begins.
Timely(t) ==
    /\ ~Out => \A e \in Elements(E) : e.type = "D" => e.time = t
    /\ MayServe => t <= curr_time
    /\ main = "service" /\ MayServe =>
           \/ t = curr_time
           \/ \A k \in Kind : \A n \in DOMAIN Q[k] : n > curr[k] => Q[k][n].time = curr_time
    /\ LettingIn /\ MayServe => \A k \in Kind : curr[k] = Len(tids[k])
    /\ Serving \/ Pending =>
           /\ t <= curr_time /\ event.time <= curr_time
           /\ t = curr_time \/ event.time = curr_time
    /\ main = "join_visitor" /\ ~Pending => t = curr_time + event.duration

\* The doctor is never free with everybody attended to and nobody waiting
\* but at the moment he leaves.
StillOpen ==
    /\ main = "leave" => QuotasAttended /\ wait["R"] = 0 /\ doc_session_end = 0
    /\ (main = "pop" \/ LettingIn) /\ MayServe => ~QuotasAttended
    /\ main = "service" /\ MayServe /\ QuotasAttended => wait["R"] > 0

\* The visits so far end at t; the doctor opens at 0.
LastEnd(t) ==
    /\ t \in Int /\ 0 <= t
    /\ t = 0 \/ \E j \in Visited : transcript[j].until = t
    /\ \A j \in Visited : transcript[j].until <= t

HouseInv ==
    /\ OrderInv
    /\ Known /\ Onward /\ OneEnd /\ NextOne /\ StillOpen
    /\ \E t : LastEnd(t) /\ Timely(t)

LEMMA MaxIs ==
    ASSUME NEW S \in SUBSET Int, NEW m \in S, \A x \in S : x <= m
    PROVE  House!Max(S) = m
<1> DEFINE c == CHOOSE x \in S : \A y \in S : x >= y
<1>1. \E x \in S : \A y \in S : x >= y
  OBVIOUS
<1>2. c \in S /\ \A y \in S : c >= y
  BY <1>1
<1>3. c >= m /\ c <= m /\ c \in Int /\ m \in Int
  BY <1>2
<1>4. c = m
  BY <1>3
<1> QED
  BY <1>4 DEF House!Max

LEMMA FreeIs ==
    ASSUME transcript \in Seq(Printed), NEW t, LastEnd(t)
    PROVE  House!FreeFrom = t
<1> DEFINE S == {0} \cup {v.until : v \in Paid}
<1>0. \A j \in Visited : Visit(transcript[j]).until = transcript[j].until
  BY DEF Visit
<1>1. \A x : x \in S <=> x = 0 \/ \E j \in Visited : transcript[j].until = x
  BY <1>0 DEF Paid
<1>2. \A j \in Visited : transcript[j].until \in Int
  <2>1. \A j \in DOMAIN transcript : transcript[j] \in Printed
    OBVIOUS
  <2> QED
    BY <2>1 DEF Printed, Visited
<1>3. S \in SUBSET Int /\ t \in S /\ \A x \in S : x <= t
  <2> HIDE DEF S
  <2> QED
    BY <1>1, <1>2 DEF LastEnd
<1> HIDE DEF S
<1>4. House!Max(S) = t
  BY <1>3, MaxIs
<1> QED
  BY <1>4 DEF S, House!FreeFrom

\* Those who have gone in are the ones called, but for the last one.
LEMMA SeenIs ==
    ASSUME OrderInv, NEW k \in Kind
    PROVE  House!Seen(k) = IF Pending /\ event.type = k THEN 1 .. curr[k] - 1 ELSE 1 .. curr[k]
<1>1. House!Seen(k) = {n \in Nat : \E j \in DOMAIN transcript : VisitAt(j, k, n)}
  <2>1. \A j \in DOMAIN transcript : transcript[j] \in Printed
    BY DEF OrderInv
  <2>2. \A j \in DOMAIN transcript : transcript[j].id \in Nat
    BY <2>1 DEF Printed
  <2>3. \A n : n \in House!Seen(k) <=> \E v \in Paid : v.kind = k /\ v.id = n
    BY DEF House!Seen
  <2>4. \A j \in Visited : /\ Visit(transcript[j]).kind = transcript[j].who
                           /\ Visit(transcript[j]).id = transcript[j].id
    BY DEF Visit
  <2>5. \A n : n \in House!Seen(k) <=> \E j \in Visited : transcript[j].who = k /\ transcript[j].id = n
    BY <2>3, <2>4 DEF Paid
  <2> QED
    BY <2>2, <2>5 DEF Visited, VisitAt
<1>2. curr[k] \in Nat /\ Visits
  BY DEF OrderInv, QueueInv, Flags
<1>3. \A n \in Nat : (\E j \in DOMAIN transcript : VisitAt(j, k, n)) <=>
          (n \in 1 .. curr[k] /\ ~(Pending /\ event.type = k /\ n = curr[k]))
  BY <1>2 DEF Visits, VisitAt
<1> QED
  BY <1>1, <1>2, <1>3

LEMMA PlacesKept ==
    ASSUME [Next]_vars, ~AwaitInit
    PROVE  Q' = Q /\ tids' = tids
  BY DEF Next, MainSteps, DoctorSteps, VisitorSteps, Terminated, vars, local, DoctorDone,
     EndSession, JoinDoctor, Arrive, CreateVisitor, Serve, NoService, EngageDoctor, AwaitDoctor,
     CallVisitor, JoinVisitor, Exit, DoctorLocks, DoctorCalls, DoctorLeaves, CopyParam,
     SignalInit, AwaitTurn, EnterChamber, SpuriousMain, SpuriousDoctor, SpuriousVisitor

\* Main's way from place to place, and the doctor's freedom.
LEMMA MainKept ==
    ASSUME [Next]_vars
    PROVE  /\ LettingIn' => LettingIn \/ Arrive
           /\ Serving' => Serving \/ \E k \in Kind : Serve(k)
           /\ main' = "join_visitor" => main = "join_visitor" \/ CallVisitor
           /\ main' = "service" => main = "service" \/ AwaitInit \/ DoctorDone
           /\ main' = "leave" => main = "leave" \/ DoctorDone
           /\ main' = "pop" => main = "pop" \/ JoinDoctor \/ NoService \/ JoinVisitor
           /\ doc_free' = doc_free \/ DoctorDone \/ EndSession \/ \E k \in Kind : Serve(k)
           /\ wait' = wait \/ Arrive \/ \E k \in Kind : Serve(k)
<1> USE DEF Next, MainSteps, DoctorSteps, VisitorSteps, Terminated, vars, shared, DoctorDone,
     EndSession, JoinDoctor, Arrive, CreateVisitor, AwaitInit, NoService, EngageDoctor,
     AwaitDoctor, CallVisitor, JoinVisitor, Exit, DoctorLocks, DoctorCalls, DoctorLeaves,
     CopyParam, SignalInit, AwaitTurn, EnterChamber, SpuriousMain, SpuriousDoctor,
     SpuriousVisitor
<1>1. CASE \E k \in Kind : Serve(k)
  <2>1. main' = "engage"
    BY <1>1 DEF Serve
  <2> QED
    BY <1>1, <2>1 DEF LettingIn, Serving
<1>2. CASE ~ \E k \in Kind : Serve(k)
  <2>1. LettingIn' => LettingIn \/ Arrive
    BY <1>2 DEF LettingIn
  <2>2. Serving' => Serving
    BY <1>2 DEF Serving, Pops
  <2>3. main' = "join_visitor" => main = "join_visitor" \/ CallVisitor
    BY <1>2
  <2>4. main' = "service" => main = "service" \/ AwaitInit \/ DoctorDone
    BY <1>2
  <2>5. main' = "leave" => main = "leave" \/ DoctorDone
    BY <1>2
  <2>6. main' = "pop" => main = "pop" \/ JoinDoctor \/ NoService \/ JoinVisitor
    BY <1>2 DEF Pops
  <2>7. doc_free' = doc_free \/ DoctorDone \/ EndSession
    BY <1>2
  <2>8. wait' = wait \/ Arrive
    BY <1>2
  <2> QED
    BY <2>1, <2>2, <2>3, <2>4, <2>5, <2>6, <2>7, <2>8
<1> QED
  BY <1>1, <1>2

\* The session ends once.
LEMMA EndsOnce ==
    ASSUME OrderInv, [Next]_vars, ~EndSession
    PROVE  doc_session_end' = doc_session_end
<1>1. doc_state = -1 => doc_session_end = 1
  BY DEF OrderInv, QueueInv, Turn
<1> QED
  BY <1>1 DEF Next, MainSteps, DoctorSteps, VisitorSteps, Terminated, vars, shared, DoctorDone,
     JoinDoctor, Arrive, CreateVisitor, AwaitInit, Serve, NoService, EngageDoctor, AwaitDoctor,
     CallVisitor, JoinVisitor, Exit, DoctorLocks, DoctorCalls, DoctorLeaves, CopyParam,
     SignalInit, AwaitTurn, EnterChamber, SpuriousMain, SpuriousDoctor, SpuriousVisitor

LEMMA KnownStep ==
    ASSUME OrderInv, Known, [Next]_vars
    PROVE  Known'
<1>0. QueueInv /\ E \in Heap /\ doc_session_end \in {0, 1}
  BY DEF OrderInv, QueueInv, Typed
<1>1. ASSUME NEW e \in Elements(E'), e.type \in Kind
      PROVE  e \in Schedule
  <2>1. CASE DoctorDone \/ Arrive
    BY <1>0, <1>1, <2>1, PopFacts DEF DoctorDone, Arrive, Known
  <2>2. CASE JoinVisitor
    <3> DEFINE end == [type |-> "D", time |-> curr_time + event.duration, duration |-> 0]
    <3>1. E' = AddEvent(E, end) /\ end.type = "D"
      BY <2>2 DEF JoinVisitor
    <3>2. end \in Event
      BY <1>0 DEF QueueInv, Flags, Typed, Event, EventKind
    <3> HIDE DEF end
    <3>3. Elements(E') = Elements(E) \cup {end}
      BY <1>0, <3>1, <3>2, AddEventHeap
    <3> QED
      BY <1>1, <3>1, <3>3 DEF Known, Kind
  <2>3. CASE ~DoctorDone /\ ~Arrive /\ ~JoinVisitor
    BY <1>0, <1>1, <2>3, QueueKept DEF Known
  <2> QED
    BY <2>1, <2>2, <2>3
<1>2. ASSUME LettingIn'
      PROVE  event' \in Schedule /\ event'.time = curr_time' /\ doc_session_end' = 0
  <2>1. CASE Arrive
    <3>1. Pops(Kind) /\ main' = "create"
      BY <1>2, <2>1 DEF Arrive, LettingIn
    <3>2. event' = NextEvent(E) /\ doc_session_end = 0 /\ doc_session_end' = 0
      BY <1>0, <2>1, <3>1 DEF Arrive
    <3>3. NextEvent(E) \in Elements(E) /\ curr_time' = NextEvent(E).time
      BY <3>1, PopTime
    <3>4. NextEvent(E).type \in Kind
      BY <3>1 DEF Pops
    <3> QED
      BY <3>2, <3>3, <3>4 DEF Known
  <2>2. CASE ~Arrive
    <3>1. LettingIn
      BY <1>2, <2>2, MainKept
    <3>2. ~EndSession /\ ~DoctorDone /\ ~ \E k \in Kind : Serve(k)
      BY <3>1 DEF LettingIn, EndSession, DoctorDone, Pops, Serve
    <3> QED
      BY <2>2, <3>1, <3>2, EndsOnce, TimeStep, EventKept DEF Known
  <2> QED
    BY <2>1, <2>2
<1> QED
  BY <1>1, <1>2 DEF Known

LEMMA PopOnward ==
    ASSUME OrderInv, Onward, NEW types, Pops(types)
    PROVE  /\ (doc_free = 0 /\ \A k \in Kind : Q[k] = <<>>) \/ curr_time <= curr_time'
           /\ \A e \in Elements(E') : curr_time' <= e.time
  BY PopTime DEF Onward

LEMMA OnwardStep ==
    ASSUME OrderInv, Known, Onward, [Next]_vars
    PROVE  Onward'
<1>0. /\ QueueInv /\ E \in Heap /\ curr_time \in Int /\ Q \in [Kind -> Seq(Event)]
      /\ event \in Event /\ NoDelay
  BY DEF OrderInv, QueueInv, Typed, Flags
<1>4. ASSUME NEW k \in Kind, NEW n \in DOMAIN Q[k]
       PROVE  Q[k][n].time \in Int
  <2>1. Q[k][n] \in Event
    BY <1>0
  <2> QED
    BY <2>1 DEF Event
<1>1. CASE DoctorDone \/ Arrive
  <2>1. PICK types : Pops(types)
    BY <1>1 DEF DoctorDone, Arrive
  <2>2. Q' = Q
    BY <1>1, PlacesKept DEF DoctorDone, Arrive, Pops, AwaitInit
  <2>3. curr_time' \in Int
    BY <2>1, PopTime
  <2>4. \A k \in Kind : \A n \in DOMAIN Q[k] : Q[k][n].time <= curr_time'
    <3>1. CASE \A k \in Kind : Q[k] = <<>>
      BY <3>1
    <3>2. CASE curr_time <= curr_time'
      BY <1>0, <1>4, <2>3, <3>2 DEF Onward
    <3> QED
      BY <2>1, <3>1, <3>2, PopOnward
  <2> QED
    BY <2>1, <2>2, <2>4, PopOnward DEF Onward
<1>2. CASE JoinVisitor
  <2> DEFINE end == [type |-> "D", time |-> curr_time + event.duration, duration |-> 0]
  <2>1. E' = AddEvent(E, end) /\ end.time = curr_time + event.duration /\ curr_time' = curr_time
        /\ Q' = Q /\ main = "join_visitor"
    BY <1>2 DEF JoinVisitor, shared, local
  <2>2. end \in Event
    BY <1>0 DEF QueueInv, Flags, Typed, Event, EventKind
  <2>3. curr_time <= end.time
    BY <1>0, <2>1 DEF NoDelay, Event
  <2> HIDE DEF end
  <2>4. Elements(E') = Elements(E) \cup {end}
    BY <1>0, <2>1, <2>2, AddEventHeap
  <2> QED
    BY <2>1, <2>3, <2>4 DEF Onward
<1>3. CASE ~DoctorDone /\ ~Arrive /\ ~JoinVisitor
  <2>1. E' = E /\ curr_time' = curr_time
    BY <1>0, <1>3, QueueKept, TimeStep
  <2>2. \/ main' = "pop" /\ doc_free' = 0 /\ \A k \in Kind : Q'[k] = <<>>
        \/ \A e \in Elements(E) : curr_time <= e.time
    <3>1. CASE main = "pop" /\ doc_free = 0 /\ \A k \in Kind : Q[k] = <<>>
      <4>1. CASE Exit
        BY <4>1 DEF Exit, Elements
      <4>2. CASE ~Exit
        <5>1. main' = "pop" /\ doc_free' = 0 /\ Q' = Q
          BY <1>3, <3>1, <4>2 DEF Next, MainSteps, DoctorSteps, VisitorSteps, Terminated, vars,
             shared, local, EndSession, JoinDoctor, CreateVisitor, AwaitInit, Serve, NoService,
             EngageDoctor, AwaitDoctor, CallVisitor, DoctorLocks, DoctorCalls, DoctorLeaves,
             CopyParam, SignalInit, AwaitTurn, EnterChamber, Steps, SpuriousMain,
             SpuriousDoctor, SpuriousVisitor
        <5> QED
          BY <3>1, <5>1
      <4> QED
        BY <4>1, <4>2
    <3> QED
      BY <3>1 DEF Onward
  <2>3. \A k \in Kind : \A n \in DOMAIN Q'[k] : Q'[k][n].time <= curr_time
    <3>1. CASE Q' = Q
      BY <3>1 DEF Onward
    <3>2. CASE Q' # Q
      <4> DEFINE k == event.type
      <4>1. AwaitInit
        BY <3>2, PlacesKept
      <4>2. k \in Kind /\ event.time = curr_time /\ Q' = [Q EXCEPT ![k] = Append(@, event)]
        BY <1>0, <3>2, <4>1 DEF AwaitInit, QueueInv, TokenInv, Counted, LettingIn, Known
      <4> HIDE DEF k
      <4>3. ASSUME NEW j \in Kind, NEW n \in DOMAIN Q'[j]
            PROVE  Q'[j][n].time <= curr_time
        <5>1. CASE j = k /\ n = Len(Q[k]) + 1
          <6>1. Q'[j][n] = event
            BY <1>0, <4>2, <5>1
          <6> QED
            BY <1>0, <4>2, <6>1
        <5>2. CASE ~(j = k /\ n = Len(Q[k]) + 1)
          <6>1. n \in DOMAIN Q[j] /\ Q'[j][n] = Q[j][n]
            BY <1>0, <4>2, <4>3, <5>2
          <6> QED
            BY <6>1 DEF Onward
        <5> QED
          BY <5>1, <5>2
      <4> QED
        BY <4>3
    <3> QED
      BY <3>1, <3>2
  <2> QED
    BY <2>1, <2>2, <2>3 DEF Onward
<1> QED
  BY <1>1, <1>2, <1>3

\* How many ends there are does not depend on the order of the queue.
LEMMA EndsMoved ==
    ASSUME NEW q \in Seq(Event), NEW r \in Rearranged(q),
           \A i, j \in 1 .. Len(q) : q[i].type = "D" /\ q[j].type = "D" => i = j
    PROVE  \A i, j \in 1 .. Len(r) : r[i].type = "D" /\ r[j].type = "D" => i = j
<1>1. PICK p \in Orders(Len(q)) : InOrder(r, q, p)
  BY DEF Rearranged
<1>2. Len(r) = Len(q) /\ Len(q) \in Nat
  BY DEF Rearranged
<1>3. /\ \A i \in 1 .. Len(q) : p[i] \in 1 .. Len(q) /\ r[i] = q[p[i]]
      /\ \A i, j \in 1 .. Len(q) : p[i] = p[j] => i = j
  BY <1>1 DEF Orders, InOrder
<1> SUFFICES ASSUME NEW i \in 1 .. Len(q), NEW j \in 1 .. Len(q),
                    r[i].type = "D", r[j].type = "D"
             PROVE  p[i] = p[j]
  BY <1>2, <1>3
<1>4. q[p[i]].type = "D" /\ q[p[j]].type = "D" /\ p[i] \in 1 .. Len(q) /\ p[j] \in 1 .. Len(q)
  BY <1>3
<1> QED
  BY <1>4

LEMMA OneEndStep ==
    ASSUME OrderInv, OneEnd, [Next]_vars
    PROVE  OneEnd'
<1>0. /\ QueueInv /\ E \in Heap /\ E \in Seq(Event) /\ Len(E) \in Nat /\ DOMAIN E = 1 .. Len(E)
      /\ E' \in Heap /\ E' \in Seq(Event) /\ DOMAIN E' = 1 .. Len(E') /\ Turn
  BY QueueStep DEF OrderInv, QueueInv, Heap
<1>1. CASE DoctorDone \/ Arrive
  <2>1. PICK types : Pops(types) /\ types = IF DoctorDone THEN {"D"} ELSE Kind
    BY <1>1 DEF DoctorDone, Arrive
  <2>2. E # <<>> /\ E' \in Rearranged(Tail(E)) /\ E[1].type \in types
    BY <1>0, <2>1, DelEventHeap DEF Pops, NextEvent
  <2>3. Tail(E) \in Seq(Event) /\ Len(Tail(E)) = Len(E) - 1 /\ 1 \in 1 .. Len(E)
        /\ \A i \in 1 .. Len(Tail(E)) : Tail(E)[i] = E[i + 1] /\ i + 1 \in 1 .. Len(E)
    BY <1>0, <2>2
  <2>4. \A i, j \in 1 .. Len(Tail(E)) : Tail(E)[i].type = "D" /\ Tail(E)[j].type = "D" => i = j
    BY <1>0, <2>3 DEF OneEnd
  <2>5. \A i, j \in DOMAIN E' : E'[i].type = "D" /\ E'[j].type = "D" => i = j
    BY <1>0, <2>2, <2>3, <2>4, EndsMoved
  <2>6. ASSUME Out', NEW i \in DOMAIN E'
        PROVE  E'[i].type # "D"
    <3>1. E'[i] \in Elements(Tail(E))
      <4>1. E'[i] \in Elements(E')
        BY DEF Elements
      <4> QED
        BY <2>2, <2>3, <4>1, SameElements
    <3>2. PICK n \in 1 .. Len(Tail(E)) : E'[i] = E[n + 1] /\ n + 1 \in 1 .. Len(E)
      BY <2>3, <3>1 DEF Elements
    <3>3. CASE DoctorDone
      BY <1>0, <2>1, <2>2, <2>3, <3>2, <3>3 DEF OneEnd
    <3>4. CASE ~DoctorDone
      <4>1. Out
        BY <1>0, <1>1, <2>6, <3>4, OutKept DEF Arrive, JoinVisitor, Pops
      <4> QED
        BY <1>0, <3>2, <4>1 DEF OneEnd
    <3> QED
      BY <3>3, <3>4
  <2> QED
    BY <2>5, <2>6 DEF OneEnd
<1>2. CASE JoinVisitor
  <2> DEFINE end == [type |-> "D", time |-> curr_time + event.duration, duration |-> 0]
             q == Append(E, end)
  <2>1. E' = AddEvent(E, end) /\ main = "join_visitor" /\ main' = "pop"
        /\ UNCHANGED <<doc_free, doc_session_end>>
    BY <1>2 DEF JoinVisitor, shared
  <2>2. end \in Event
    BY <1>0 DEF QueueInv, Flags, Typed, Event, EventKind
  <2> HIDE DEF end
  <2>3. E' \in Rearranged(q)
    BY <1>0, <2>1, <2>2, AddEventHeap
  <2>4. q \in Seq(Event) /\ Len(q) = Len(E) + 1 /\ \A i \in 1 .. Len(E) : q[i] = E[i]
    BY <1>0, <2>2
  <2>5. Out
    BY <2>1 DEF Out, Engaged
  <2>6. \A i \in 1 .. Len(E) : E[i].type # "D"
    BY <1>0, <2>5 DEF OneEnd
  <2>7. \A i \in 1 .. Len(q) : q[i].type = "D" => i = Len(E) + 1
    BY <1>0, <2>4, <2>6
  <2>8. \A i, j \in 1 .. Len(q) : q[i].type = "D" /\ q[j].type = "D" => i = j
    BY <2>7
  <2> HIDE DEF q
  <2>9. \A i, j \in DOMAIN E' : E'[i].type = "D" /\ E'[j].type = "D" => i = j
    BY <1>0, <2>3, <2>4, <2>8, EndsMoved
  <2>10. ~Out'
    BY <1>0, <2>1 DEF Out, Engaged, Serving, Turn
  <2> QED
    BY <2>9, <2>10 DEF OneEnd
<1>3. CASE ~DoctorDone /\ ~Arrive /\ ~JoinVisitor
  BY <1>0, <1>3, QueueKept, OutKept DEF OneEnd
<1> QED
  BY <1>1, <1>2, <1>3

LEMMA NextOneStep ==
    ASSUME OrderInv, NextOne, [Next]_vars
    PROVE  NextOne'
<1>0. QueueInv /\ Flags /\ Turn
  BY DEF OrderInv, QueueInv
<1>1. ASSUME NEW k \in Kind, Serve(k)
      PROVE  NextOne'
  <2>1. event' = Q[k][curr[k] + 1] /\ event'.type = k /\ UNCHANGED <<Q, curr>> /\ main' = "engage"
    BY <1>0, <1>1, ServeFacts DEF Serve
  <2> QED
    BY <2>1 DEF NextOne
<1>2. CASE CallVisitor
  <2> DEFINE k == event.type
  <2>1. /\ main = "call" /\ main' = "join_visitor" /\ UNCHANGED <<event, Q>>
        /\ curr' = [curr EXCEPT ![k] = @ + 1]
    BY <1>2 DEF CallVisitor, local
  <2>2. k \in Kind /\ curr'[k] = curr[k] + 1
    BY <1>0, <2>1 DEF Turn, Serving, Flags
  <2>3. event = Q[k][curr[k] + 1]
    BY <2>1 DEF NextOne, Serving
  <2> QED
    BY <2>1, <2>2, <2>3 DEF NextOne, Serving
<1>3. CASE ~CallVisitor /\ ~ \E k \in Kind : Serve(k)
  <2>1. (Serving' => Serving) /\ (main' = "join_visitor" => main = "join_visitor")
    BY <1>3, MainKept
  <2>2. CASE Serving' \/ main' = "join_visitor"
    <3>1. ~Arrive /\ ~AwaitInit
      BY <2>1, <2>2 DEF Serving, Arrive, Pops, AwaitInit
    <3>2. UNCHANGED <<event, curr, Q>>
      BY <1>3, <3>1, EventKept, CurrKept, PlacesKept
    <3> QED
      BY <2>1, <3>2 DEF NextOne
  <2>3. CASE ~(Serving' \/ main' = "join_visitor")
    BY <2>3 DEF NextOne
  <2> QED
    BY <2>2, <2>3
<1> QED
  BY <1>1, <1>2, <1>3

\* An end in the queue shows that the session is on and nobody is served.
LEMMA EndFound ==
    ASSUME OrderInv, OneEnd, DoctorDone
    PROVE  ~Out
<1>1. E \in Seq(Event) /\ E # <<>> /\ E[1].type = "D"
  BY DEF OrderInv, QueueInv, Heap, DoctorDone, Pops, NextEvent
<1>2. 1 \in DOMAIN E
  BY <1>1
<1> QED
  BY <1>1, <1>2 DEF OneEnd

LEMMA StillOpenStep ==
    ASSUME OrderInv, OneEnd, StillOpen, [Next]_vars
    PROVE  StillOpen'
<1>0. /\ QueueInv /\ Flags /\ Turn /\ LocksInv /\ Service
      /\ doc_session_end \in {0, 1} /\ wait["R"] \in Nat
  BY DEF OrderInv, QueueInv, Typed, Flags, Kind
<1>1. CASE DoctorDone
  <2>1. doc_session_end = 0
    BY <1>0, <1>1, EndFound DEF Out
  <2>2. /\ main' = IF QuotasAttended /\ wait["R"] = 0 THEN "leave" ELSE "service"
        /\ UNCHANGED <<curr, wait, doc_session_end>>
    BY <1>1 DEF DoctorDone
  <2> QED
    BY <1>0, <2>1, <2>2 DEF StillOpen, QuotasAttended, LettingIn
<1>2. CASE EndSession \/ \E k \in Kind : Serve(k)
  <2>1. main' \in {"join_doctor", "engage"}
    BY <1>2 DEF EndSession, Serve
  <2> QED
    BY <2>1 DEF StillOpen, LettingIn
<1>3. CASE CallVisitor
  <2>1. main' = "join_visitor"
    BY <1>3 DEF CallVisitor
  <2> QED
    BY <2>1 DEF StillOpen, LettingIn
<1>4. CASE ~DoctorDone /\ ~EndSession /\ ~CallVisitor /\ ~ \E k \in Kind : Serve(k)
  <2>1. UNCHANGED <<curr, doc_free, doc_session_end>>
    BY <1>4, CurrKept, MainKept, EndsOnce
  <2>2. (QuotasAttended' <=> QuotasAttended) /\ (MayServe' <=> MayServe)
    BY <2>1 DEF QuotasAttended, MayServe
  <2>3. ASSUME main' = "leave"
        PROVE  QuotasAttended' /\ wait'["R"] = 0 /\ doc_session_end' = 0
    <3>1. main = "leave"
      BY <1>4, <2>3, MainKept
    <3>2. wait' = wait
      BY <1>4, <3>1, MainKept DEF Arrive, Pops
    <3> QED
      BY <2>1, <2>2, <3>1, <3>2 DEF StillOpen
  <2>4. ASSUME main' = "pop" \/ LettingIn', MayServe'
        PROVE  ~QuotasAttended'
    <3>1. CASE Arrive
      BY <2>2, <2>4, <3>1 DEF StillOpen, Arrive, Pops
    <3>2. CASE NoService
      BY <1>0, <2>2, <2>4, <3>2 DEF StillOpen, NoService, Kind
    <3>3. CASE JoinVisitor \/ JoinDoctor
      BY <1>0, <2>2, <2>4, <3>3 DEF JoinVisitor, JoinDoctor, MayServe, Turn, Engaged, Service
    <3>4. CASE ~Arrive /\ ~NoService /\ ~JoinVisitor /\ ~JoinDoctor
      <4>1. main = "pop" \/ LettingIn
        BY <2>4, <3>4, MainKept
      <4> QED
        BY <2>2, <2>4, <4>1 DEF StillOpen
    <3> QED
      BY <3>1, <3>2, <3>3, <3>4
  <2>5. ASSUME main' = "service", MayServe', QuotasAttended'
        PROVE  wait'["R"] > 0
    <3>1. main = "service" \/ AwaitInit
      BY <1>4, <2>5, MainKept
    <3>2. main = "service"
      BY <2>2, <2>5, <3>1 DEF StillOpen, AwaitInit, LettingIn
    <3>3. wait' = wait
      BY <1>4, <3>2, MainKept DEF Arrive, Pops
    <3> QED
      BY <2>2, <2>5, <3>2, <3>3 DEF StillOpen
  <2> QED
    BY <2>3, <2>4, <2>5 DEF StillOpen
<1> QED
  BY <1>1, <1>2, <1>3, <1>4

\* What a visitor who goes in prints.
LEMMA LineIs ==
    ASSUME OrderInv, NextOne, NEW i \in DOMAIN visitor, EnterChamber(i)
    PROVE  LET k == event.type
           IN  /\ k \in Kind /\ main = "join_visitor" /\ Pending /\ ~Pending'
               /\ event = Q[k][curr[k]]
               /\ transcript' = Append(transcript,
                      [at |-> curr_time, who |-> k, id |-> curr[k], says |-> "in_chamber",
                       until |-> curr_time + event.duration])
               /\ UNCHANGED <<E, event, curr_time, Q, tids, curr, wait, main, doc_free,
                              doc_session_end>>
<1> DEFINE k == event.type
<1>1. /\ k \in Kind /\ visitor[i].kind = k /\ main = "join_visitor" /\ Pending /\ ~Pending'
      /\ curr[k] \in DOMAIN tids[k] /\ tids[k][curr[k]] = i
  BY EnterFacts, EnterStep
<1>2. visitor[i].mine = [e |-> Q[k][curr[k]], id |-> curr[k]]
  BY <1>1 DEF OrderInv, QueueInv, TokenInv, Tokens
<1>3. event = Q[k][curr[k]]
  BY <1>1 DEF NextOne
<1>4. visitor[i].mine.e = event /\ visitor[i].mine.id = curr[k]
  BY <1>2, <1>3
<1>5. UNCHANGED <<E, event, curr_time, Q, tids, curr, wait, main, doc_free, doc_session_end>>
  BY DEF EnterChamber, local
<1>6. transcript' = Append(transcript, Line(k, curr[k], "in_chamber", curr_time + event.duration))
  BY <1>1, <1>4 DEF EnterChamber
<1> QED
  BY <1>1, <1>3, <1>5, <1>6 DEF Line

LEMMA LastEndKept ==
    ASSUME OrderInv, [Next]_vars, ~ \E i \in DOMAIN visitor : EnterChamber(i), NEW t, LastEnd(t)
    PROVE  LastEnd(t)'
<1>1. \A j : j \in Visited' <=> j \in Visited
  BY LinesKept DEF Visited
<1>2. \A j \in Visited : transcript'[j] = transcript[j]
  BY LinesKept DEF Visited
<1> QED
  BY <1>1, <1>2 DEF LastEnd

LEMMA LastEndNew ==
    ASSUME OrderInv, [Next]_vars, NextOne, NEW t, LastEnd(t), Timely(t),
           NEW i \in DOMAIN visitor, EnterChamber(i)
    PROVE  LastEnd(curr_time + event.duration)'
<1> DEFINE u == curr_time + event.duration
           n == Len(transcript)
           line == [at |-> curr_time, who |-> event.type, id |-> curr[event.type],
                    says |-> "in_chamber", until |-> u]
<1>0. /\ transcript \in Seq(Printed) /\ n \in Nat
      /\ curr_time \in Int /\ event.duration \in Int /\ event.duration >= 0
  BY DEF OrderInv, QueueInv, Flags, Typed, NoDelay, Event
<1>1. t <= curr_time /\ transcript' = Append(transcript, line) /\ UNCHANGED <<event, curr_time>>
  BY LineIs DEF Timely
<1>2. line.says = "in_chamber" /\ line.until = u
  OBVIOUS
<1> HIDE DEF line
<1>3. /\ DOMAIN transcript' = 1 .. n + 1 /\ transcript'[n + 1] = line
      /\ \A j \in DOMAIN transcript : j \in DOMAIN transcript' /\ transcript'[j] = transcript[j]
      /\ \A j \in DOMAIN transcript' : j \in DOMAIN transcript \/ j = n + 1
  BY <1>0, <1>1
<1>4. n + 1 \in Visited' /\ \A j \in Visited' : j \in Visited \/ j = n + 1
  BY <1>0, <1>2, <1>3 DEF Visited
<1>5. u \in Int /\ 0 <= u /\ t <= u
  BY <1>0, <1>1 DEF LastEnd
<1>6. ASSUME NEW j \in Visited'
      PROVE  transcript'[j].until <= u
  <2>1. CASE j \in Visited
    <3>1. transcript'[j] = transcript[j] /\ transcript[j] \in Printed
      BY <1>0, <1>3, <2>1 DEF Visited
    <3>2. transcript[j].until \in Int /\ transcript[j].until <= t /\ t \in Int
      BY <2>1, <3>1 DEF Printed, LastEnd
    <3> QED
      BY <1>5, <3>1, <3>2
  <2>2. CASE j = n + 1
    BY <1>2, <1>3, <1>5, <2>2
  <2> QED
    BY <1>4, <2>1, <2>2
<1>7. transcript'[n + 1].until = u
  BY <1>2, <1>3
<1>8. u' = u
  BY <1>1
<1> HIDE DEF u
<1> QED
  BY <1>4, <1>5, <1>6, <1>7, <1>8 DEF LastEnd, u

\* The steps that take out or put in no event, let nobody in and serve nobody.
LEMMA TimelyQuiet ==
    ASSUME OrderInv, Known, Onward, NEW t, LastEnd(t), Timely(t), [Next]_vars,
           ~DoctorDone, ~Arrive, ~JoinVisitor, ~AwaitInit,
           ~ \E k \in Kind : Serve(k), ~ \E i \in DOMAIN visitor : EnterChamber(i)
    PROVE  Timely(t)'
<1>0. QueueInv /\ Turn
  BY DEF OrderInv, QueueInv
<1>1. E' = E /\ (Out' <=> Out) /\ UNCHANGED <<curr_time, event, Q, tids>>
  BY <1>0, QueueKept, OutKept, TimeStep, EventKept, PlacesKept
<1>2. MayServe' => MayServe
  <2>1. CASE EndSession
    BY <2>1 DEF EndSession, MayServe
  <2>2. CASE ~EndSession
    BY <2>2, MainKept, EndsOnce DEF MayServe
  <2> QED
    BY <2>1, <2>2
<1>3. CASE CallVisitor
  <2>1. Pending' /\ main = "call" /\ main' = "join_visitor"
    BY <1>3, CalledStep DEF CallVisitor
  <2> QED
    BY <1>1, <1>2, <2>1 DEF Timely, LettingIn, Serving
<1>4. CASE ~CallVisitor
  <2>1. curr' = curr
    BY <1>4, CurrKept
  <2>2. Pending' <=> Pending
    BY <1>4, StillElse, StillStep
  <2>3. /\ Serving' => Serving
        /\ LettingIn' => LettingIn
        /\ main' = "service" => main = "service"
        /\ main' = "join_visitor" => main = "join_visitor"
    BY <1>4, MainKept
  <2>4. ~Out' => \A e \in Elements(E') : e.type = "D" => e.time = t
    BY <1>1 DEF Timely
  <2>5. MayServe' => t <= curr_time'
    BY <1>1, <1>2 DEF Timely
  <2>6. main' = "service" /\ MayServe' =>
           \/ t = curr_time'
           \/ \A k \in Kind : \A n \in DOMAIN Q'[k] : n > curr'[k] => Q'[k][n].time = curr_time'
    BY <1>1, <1>2, <2>1, <2>3 DEF Timely
  <2>7. LettingIn' /\ MayServe' => \A k \in Kind : curr'[k] = Len(tids'[k])
    BY <1>1, <1>2, <2>1, <2>3 DEF Timely
  <2>8. Serving' \/ Pending' =>
           /\ t <= curr_time' /\ event'.time <= curr_time'
           /\ t = curr_time' \/ event'.time = curr_time'
    BY <1>1, <2>2, <2>3 DEF Timely
  <2>9. main' = "join_visitor" /\ ~Pending' => t = curr_time' + event'.duration
    BY <1>1, <2>2, <2>3 DEF Timely
  <2> QED
    BY <2>4, <2>5, <2>6, <2>7, <2>8, <2>9 DEF Timely
<1> QED
  BY <1>3, <1>4

LEMMA TimelyStep ==
    ASSUME OrderInv, Known, Onward, OneEnd, NextOne, NEW t, LastEnd(t), Timely(t), [Next]_vars
    PROVE  \E u : LastEnd(u)' /\ Timely(u)'
<1>0. /\ QueueInv /\ Turn /\ Service /\ Waiting /\ E \in Heap
      /\ curr_time \in Int /\ t \in Int /\ doc_free \in {0, 1} /\ doc_session_end \in {0, 1}
      /\ Q \in [Kind -> Seq(Event)] /\ tids \in [Kind -> Seq(Nat)]
      /\ \A k \in Kind : curr[k] \in Nat /\ Len(tids[k]) \in Nat /\ Len(Q[k]) = Len(tids[k])
  <2>1. Typed(Event) /\ Flags /\ Counted
    BY DEF OrderInv, QueueInv, TokenInv
  <2>2. \A k \in Kind : curr[k] \in Nat /\ Len(tids[k]) \in Nat /\ Len(Q[k]) = Len(tids[k])
    BY <2>1 DEF Flags, Typed, Counted
  <2> QED
    BY <2>1, <2>2 DEF OrderInv, QueueInv, Flags, Typed, LastEnd
<1>1. ASSUME NEW i \in DOMAIN visitor, EnterChamber(i)
      PROVE  \E u : LastEnd(u)' /\ Timely(u)'
  <2> DEFINE u == curr_time + event.duration
  <2>1. /\ main = "join_visitor" /\ ~Pending'
        /\ UNCHANGED <<event, curr_time, main, doc_free, doc_session_end>>
    BY <1>1, LineIs
  <2>2. Out' /\ ~MayServe'
    BY <1>0, <2>1 DEF Out, Engaged, MayServe, Turn
  <2>3. LastEnd(u)'
    BY <1>1, LastEndNew
  <2>4. PICK s : s = u
    OBVIOUS
  <2>5. s = u'
    BY <2>1, <2>4
  <2>6. Timely(s)'
    BY <2>1, <2>2, <2>5 DEF Timely, Serving
  <2>7. LastEnd(s)'
    BY <2>3, <2>5 DEF LastEnd
  <2> QED
    BY <2>6, <2>7
<1> SUFFICES ASSUME ~ \E i \in DOMAIN visitor : EnterChamber(i)
             PROVE  Timely(t)'
  BY <1>1, LastEndKept
<1>2. CASE DoctorDone
  <2>1. ~Out /\ Out' /\ main' \in {"leave", "service"} /\ Pops({"D"})
    BY <1>2, EndFound DEF DoctorDone, Out
  <2>2. NextEvent(E) \in Elements(E) /\ NextEvent(E).type = "D" /\ curr_time' = NextEvent(E).time
    BY <2>1, PopTime DEF Pops
  <2>3. t = curr_time'
    BY <2>1, <2>2 DEF Timely
  <2> QED
    BY <1>0, <2>1, <2>3 DEF Timely, LettingIn, Serving, Pending
<1>3. CASE Arrive
  <2>1. /\ Pops(Kind) /\ main = "pop" /\ main' \in {"pop", "create"}
        /\ UNCHANGED <<doc_free, doc_session_end, curr, tids>>
    BY <1>3 DEF Arrive, Pops
  <2>2. /\ \A e \in Elements(E') : e \in Elements(E)
        /\ Out' <=> Out
    BY <1>0, <1>3, <2>1, PopFacts, OutKept DEF DoctorDone, JoinVisitor, Pops, Kind
  <2>3. MayServe => t <= curr_time'
    <3>1. MayServe => curr_time <= curr_time' /\ curr_time' \in Int
      BY <2>1, PopOnward, PopTime DEF MayServe
    <3> QED
      BY <1>0, <3>1 DEF Timely
  <2>4. MayServe => \A k \in Kind : curr[k] = Len(tids[k])
    <3>1. MayServe => \A k \in Kind : wait[k] = 0
      BY <1>0, <2>1 DEF Service
    <3>2. ~Serving /\ ~LettingIn
      BY <2>1 DEF Serving, LettingIn
    <3>3. \A k \in Kind : wait[k] + curr[k] + 0 = Len(tids[k]) + 0
      BY <1>0, <3>2 DEF Waiting, Num
    <3> QED
      BY <1>0, <3>1, <3>3
  <2>5. MayServe' <=> MayServe
    BY <2>1 DEF MayServe
  <2> HIDE DEF MayServe
  <2>6. ~Out' => \A e \in Elements(E') : e.type = "D" => e.time = t
    BY <2>2 DEF Timely
  <2>7. ~Serving' /\ ~Pending' /\ main' # "join_visitor" /\ main' # "service"
    BY <2>1 DEF Serving, Pending
  <2> QED
    BY <2>1, <2>3, <2>4, <2>5, <2>6, <2>7 DEF Timely
<1>4. CASE JoinVisitor
  <2> DEFINE end == [type |-> "D", time |-> curr_time + event.duration, duration |-> 0]
  <2>1. /\ main = "join_visitor" /\ ~Pending /\ main' = "pop" /\ E' = AddEvent(E, end)
        /\ UNCHANGED <<doc_free, doc_session_end>>
    BY <1>4 DEF JoinVisitor, Pending, shared
  <2>2. end \in Event /\ end.time = curr_time + event.duration
    BY <1>0 DEF QueueInv, Flags, Typed, Event, EventKind
  <2> HIDE DEF end
  <2>3. Elements(E') = Elements(E) \cup {end}
    BY <1>0, <2>1, <2>2, AddEventHeap
  <2>4. \A e \in Elements(E) : e.type # "D"
    BY <2>1 DEF OneEnd, Out, Engaged, Elements
  <2>5. end.time = t
    BY <2>1, <2>2 DEF Timely
  <2>6. \A e \in Elements(E') : e.type = "D" => e.time = t
    BY <2>3, <2>4, <2>5
  <2>7. ~MayServe'
    BY <1>0, <2>1 DEF MayServe, Turn, Engaged
  <2>8. ~Serving' /\ ~Pending' /\ ~LettingIn'
    BY <2>1 DEF Serving, Pending, LettingIn
  <2> QED
    BY <2>1, <2>6, <2>7, <2>8 DEF Timely
<1>5. CASE AwaitInit
  <2> DEFINE k == event.type
  <2>1. /\ main = "initialising" /\ LettingIn
        /\ UNCHANGED <<E, event, curr, curr_time, doc_free, doc_session_end>>
        /\ \/ main' = "asleep_init" /\ UNCHANGED <<Q, tids>>
           \/ main' = "service" /\ Q' = [Q EXCEPT ![k] = Append(@, event)]
    BY <1>5 DEF AwaitInit, LettingIn
  <2>2. (Out' <=> Out) /\ (MayServe' <=> MayServe)
    BY <2>1 DEF Out, Engaged, Serving, MayServe
  <2>3. ~Serving' /\ ~Pending' /\ main' # "join_visitor"
    BY <2>1 DEF Serving, Pending
  <2>4. MayServe => \A j \in Kind : curr[j] = Len(tids[j])
    BY <2>1 DEF Timely
  <2>5. k \in Kind /\ event.time = curr_time
    BY <1>0, <2>1 DEF QueueInv, TokenInv, Counted, Known
  <2> HIDE DEF k
  <2>6. ASSUME main' = "service", MayServe, NEW j \in Kind, NEW n \in DOMAIN Q'[j], n > curr[j]
        PROVE  Q'[j][n].time = curr_time
    <3>1. Q' = [Q EXCEPT ![k] = Append(@, event)]
      BY <2>1, <2>6
    <3>2. curr[j] = Len(Q[j])
      BY <1>0, <2>4, <2>6
    <3>3. j = k /\ Q'[j] = Append(Q[k], event)
      BY <1>0, <2>5, <2>6, <3>1, <3>2
    <3>4. n = Len(Q[k]) + 1
      BY <1>0, <2>6, <3>2, <3>3
    <3>5. Q'[j][n] = event
      BY <1>0, <3>3, <3>4
    <3> QED
      BY <2>5, <3>5
  <2>7. ~Out' => \A e \in Elements(E') : e.type = "D" => e.time = t
    BY <2>1, <2>2 DEF Timely
  <2>8. MayServe' => t <= curr_time'
    BY <2>1, <2>2 DEF Timely
  <2>9. main' = "service" /\ MayServe' =>
            \A j \in Kind : \A n \in DOMAIN Q'[j] : n > curr'[j] => Q'[j][n].time = curr_time'
    BY <2>1, <2>2, <2>6
  <2>10. LettingIn' /\ MayServe' => \A j \in Kind : curr'[j] = Len(tids'[j])
    BY <2>1, <2>2, <2>4 DEF LettingIn
  <2> QED
    BY <2>3, <2>7, <2>8, <2>9, <2>10 DEF Timely
<1>6. ASSUME NEW k \in Kind, Serve(k)
      PROVE  Timely(t)'
  <2>1. /\ main = "service" /\ MayServe /\ main' = "engage" /\ doc_free' = 0
        /\ event' = Q[k][curr[k] + 1] /\ curr_time' = curr_time
    BY <1>6 DEF Serve
  <2>2. curr[k] + 1 \in DOMAIN Q[k] /\ curr[k] + 1 > curr[k]
    <3>1. curr[k] + 1 <= Len(tids[k])
      BY <1>0, <1>6, ServeFacts
    <3> QED
      BY <1>0, <3>1
  <2>3. event'.time <= curr_time
    BY <2>1, <2>2 DEF Onward
  <2>4. t <= curr_time /\ (t = curr_time \/ event'.time = curr_time)
    BY <2>1, <2>2 DEF Timely
  <2>5. Out' /\ ~MayServe' /\ ~LettingIn'
    BY <2>1 DEF Out, Engaged, Serving, MayServe, LettingIn
  <2> QED
    BY <2>1, <2>3, <2>4, <2>5 DEF Timely
<1>7. CASE ~DoctorDone /\ ~Arrive /\ ~JoinVisitor /\ ~AwaitInit /\ ~ \E k \in Kind : Serve(k)
  BY <1>7, TimelyQuiet
<1> QED
  BY <1>2, <1>3, <1>4, <1>5, <1>6, <1>7

LEMMA HouseInvStep == HouseInv /\ [Next]_vars => HouseInv'
<1> SUFFICES ASSUME HouseInv, [Next]_vars
             PROVE  HouseInv'
  OBVIOUS
<1>1. \E u : LastEnd(u)' /\ Timely(u)'
  BY TimelyStep DEF HouseInv
<1>2. OrderInv'
  BY OrderInvStep DEF HouseInv
<1> QED
  BY <1>1, <1>2, KnownStep, OnwardStep, OneEndStep, NextOneStep, StillOpenStep DEF HouseInv

LEMMA HouseInvInit == Init => HouseInv
<1> SUFFICES ASSUME Init
             PROVE  HouseInv
  OBVIOUS
<1>1. PICK f \in Files : E = AddEvent(InitEQ(f), NoEvent)
  BY DEF Init
<1> DEFINE q == InitEQ(f)
           r == Append(q, NoEvent)
<1>2. f \in Seq(Event) /\ \A i \in 1 .. Len(f) : f[i].type \in Kind
  BY FilesAssumption
<1>3. q \in Heap /\ q \in Seq(Event) /\ Elements(q) = Elements(f) /\ Len(q) \in Nat
  BY <1>2, InitEQHeap, SameElements DEF Heap
<1>4. NoEvent \in Event /\ NoEvent.type = "D" /\ NoEvent.time = 0
  BY DEF NoEvent, Event, EventKind
<1> HIDE DEF q
<1>5. /\ E \in Rearranged(r) /\ E \in Seq(Event) /\ DOMAIN E = 1 .. Len(E)
      /\ Elements(E) = Elements(q) \cup {NoEvent}
  <2>1. E = AddEvent(q, NoEvent)
    BY <1>1 DEF q
  <2>2. E \in Heap /\ E \in Rearranged(r) /\ Elements(E) = Elements(q) \cup {NoEvent}
    BY <1>3, <1>4, <2>1, AddEventHeap
  <2> QED
    BY <2>2 DEF Heap
<1>6. /\ Q = [k \in Kind |-> <<>>] /\ main = "pop" /\ doc_free = 0 /\ doc_session_end = 0
      /\ transcript = <<>>
  BY DEF Init
<1>7. ~Out /\ ~LettingIn /\ ~Serving /\ ~MayServe /\ ~Pending
  BY <1>6 DEF Out, Engaged, Serving, LettingIn, MayServe, Pending
<1>8. \A e \in Elements(f) : e \in Schedule /\ e.type # "D"
  <2>1. \A i \in 1 .. Len(f) : f[i] \in Schedule /\ f[i].type # "D"
    BY <1>2 DEF Schedule, Kind
  <2> QED
    BY <1>2, <2>1 DEF Elements
<1>9. Known
  BY <1>3, <1>4, <1>5, <1>7, <1>8 DEF Known, Kind
<1>10. Onward
  BY <1>6 DEF Onward
<1>11. OneEnd
  <2>1. /\ r \in Seq(Event) /\ Len(r) = Len(q) + 1
        /\ \A i \in 1 .. Len(q) : r[i] = q[i] /\ q[i] \in Elements(q)
    BY <1>3, <1>4 DEF Elements
  <2>2. \A i \in 1 .. Len(r) : r[i].type = "D" => i = Len(q) + 1
    BY <1>3, <1>8, <2>1
  <2>3. \A i, j \in 1 .. Len(r) : r[i].type = "D" /\ r[j].type = "D" => i = j
    BY <2>2
  <2> HIDE DEF r
  <2> QED
    BY <1>5, <1>7, <2>1, <2>3, EndsMoved DEF OneEnd
<1>12. NextOne /\ StillOpen
  BY <1>6, <1>7 DEF NextOne, StillOpen
<1>13. LastEnd(0)
  BY <1>6 DEF LastEnd, Visited
<1>14. Timely(0)
  BY <1>3, <1>4, <1>5, <1>6, <1>7, <1>8 DEF Timely
<1> QED
  BY <1>9, <1>10, <1>11, <1>12, <1>13, <1>14, OrderInvInit DEF HouseInv

LEMMA HouseInit == Init => House!Init
<1> SUFFICES ASSUME Init
             PROVE  House!Init
  OBVIOUS
<1>1. transcript = <<>> /\ Q = [k \in Kind |-> <<>>] /\ doc_session_end = 0
  BY DEF Init
<1>2. Paid = {}
  BY <1>1 DEF Paid, Visited
<1> QED
  BY <1>1, <1>2 DEF House!Init, House!Kind, Kind

LEMMA SameInterval ==
    ASSUME NEW m \in Nat, NEW n \in Nat, 1 .. m = 1 .. n
    PROVE  m = n
<1>1. \A i \in Int : i \in 1 .. m <=> i \in 1 .. n
  OBVIOUS
<1>2. m \in 1 .. n \/ m = 0
  BY <1>1
<1>3. n \in 1 .. m \/ n = 0
  BY <1>1
<1> QED
  BY <1>1, <1>2, <1>3

\* When nobody is on the way in.
LEMMA AttendedIs ==
    ASSUME OrderInv, ~Pending
    PROVE  House!Attended <=> QuotasAttended
<1>1. \A k \in Limited : k \in Kind /\ curr[k] \in Nat /\ Quota[k] \in Nat
  BY QuotaAssumption DEF OrderInv, QueueInv, Flags, Limited, Kind
<1>2. \A k \in Limited : House!Seen(k) = 1 .. curr[k]
  BY <1>1, SeenIs
<1>3. \A k \in Limited : 1 .. curr[k] = 1 .. Quota[k] <=> curr[k] = Quota[k]
  BY <1>1, SameInterval
<1>4. House!Limited = Limited
  BY DEF House!Limited, Limited
<1> QED
  BY <1>2, <1>3, <1>4 DEF House!Attended, QuotasAttended

\* A visitor is noted down.
LEMMA AdmitStep ==
    ASSUME HouseInv, AwaitInit, Q' # Q, Paid' = Paid
    PROVE  House!Next
<1> DEFINE k == event.type
<1>0. OrderInv /\ QueueInv /\ Known /\ Onward /\ StillOpen
  BY DEF HouseInv, OrderInv
<1>1. PICK t : LastEnd(t) /\ Timely(t)
  BY DEF HouseInv
<1>2. House!FreeFrom = t
  BY <1>0, <1>1, FreeIs DEF OrderInv
<1>3. /\ main = "initialising" /\ LettingIn /\ ~Engaged
      /\ Q' = [Q EXCEPT ![k] = Append(@, event)] /\ doc_session_end' = doc_session_end
  BY DEF AwaitInit, LettingIn, Engaged, Serving
<1>4. /\ event \in Schedule /\ event.time = curr_time /\ doc_session_end = 0
      /\ k \in Kind /\ doc_free \in {0, 1} /\ curr_time \in Int
  BY <1>0, <1>3 DEF Known, QueueInv, TokenInv, Counted, Flags
<1>5. k \in Limited => Len(Q[k]) < Quota[k]
  <2>1. k \in Limited => Len(tids[k]) + Num(LettingIn /\ event.type = k) <= Quota[k]
    BY <1>0, <1>4 DEF QueueInv, Waiting
  <2>2. Num(LettingIn /\ event.type = k) = 1
    BY <1>3 DEF Num
  <2>3. Len(tids[k]) \in Nat /\ Len(Q[k]) = Len(tids[k])
    BY <1>0, <1>4 DEF QueueInv, Typed, TokenInv, Counted
  <2>4. k \in Limited => Quota[k] \in Nat
    BY QuotaAssumption
  <2> HIDE DEF k
  <2> QED
    BY <2>1, <2>2, <2>3, <2>4
<1>6. \A j \in Kind : \A i \in DOMAIN Q[j] : Q[j][i].time <= event.time
  BY <1>0, <1>4 DEF Onward
<1>7. House!Attended => event.time <= t
  <2> SUFFICES ASSUME QuotasAttended
               PROVE  event.time <= t
    BY <1>0, AttendedIs, NoteStep
  <2>1. ~MayServe
    BY <1>0, <1>3 DEF StillOpen
  <2>2. ~Out
    BY <1>3, <1>4, <2>1 DEF Out, MayServe
  <2>3. PICK e \in Elements(E) : e.type = "D"
    BY <1>0, <2>2 DEF QueueInv, Ends
  <2>4. e.time = t /\ curr_time <= e.time
    BY <1>0, <1>1, <1>3, <2>2, <2>3 DEF Timely, Onward
  <2> QED
    BY <1>4, <2>4
<1> HIDE DEF k
<1>8. House!Admit(k, event)
  BY <1>2, <1>3, <1>4, <1>5, <1>6, <1>7
  DEF House!Admit, House!Kind, House!Limited, Kind, Limited
<1> QED
  BY <1>4, <1>8 DEF House!Next, House!Kind, Kind

LEMMA PaidKept ==
    ASSUME OrderInv, [Next]_vars, ~ \E i \in DOMAIN visitor : EnterChamber(i)
    PROVE  Paid' = Paid
<1>1. \A j : j \in Visited' <=> j \in Visited
  BY LinesKept DEF Visited
<1>2. \A j \in Visited : transcript'[j] = transcript[j]
  BY LinesKept DEF Visited
<1> QED
  BY <1>1, <1>2 DEF Paid, Visit

LEMMA PaidNew ==
    ASSUME NEW line, transcript \in Seq(Printed), transcript' = Append(transcript, line),
           line.says = "in_chamber"
    PROVE  Paid' = Paid \cup {Visit(line)}
<1> DEFINE n == Len(transcript)
<1>1. /\ n \in Nat /\ DOMAIN transcript = 1 .. n
      /\ DOMAIN transcript' = 1 .. n + 1 /\ transcript'[n + 1] = line
      /\ \A j \in 1 .. n : transcript'[j] = transcript[j]
  OBVIOUS
<1>2. /\ \A j : j \in Visited' <=> j \in Visited \/ j = n + 1
      /\ \A j \in Visited : transcript'[j] = transcript[j]
  BY <1>1 DEF Visited
<1>3. \A v : v \in Paid' <=> \E j \in Visited' : v = Visit(transcript'[j])
  BY DEF Paid, Visit
<1>4. \A v : v \in Paid <=> \E j \in Visited : v = Visit(transcript[j])
  BY DEF Paid
<1> HIDE DEF n
<1>5. transcript'[n + 1] = line
  BY <1>1
<1>6. ASSUME NEW v
      PROVE  v \in Paid' <=> v \in Paid \/ v = Visit(line)
  <2>1. ASSUME NEW j \in Visited, v = Visit(transcript[j])
        PROVE  v \in Paid'
    BY <1>2, <1>3, <2>1
  <2>2. v = Visit(line) => v \in Paid'
    BY <1>2, <1>3, <1>5
  <2>3. ASSUME NEW j \in Visited', v = Visit(transcript'[j])
        PROVE  v \in Paid \/ v = Visit(line)
    <3>1. CASE j \in Visited
      BY <1>2, <1>4, <2>3, <3>1
    <3>2. CASE j = n + 1
      BY <1>5, <2>3, <3>2
    <3> QED
      BY <1>2, <3>1, <3>2
  <2> QED
    BY <1>3, <1>4, <2>1, <2>2, <2>3
<1> QED
  BY <1>6

\* Who waits, while a visitor of kind k is on his way in or nobody is.
LEMMA WaitingIs ==
    ASSUME OrderInv, NEW k \in Kind
    PROVE  /\ ~(Pending /\ event.type = k) =>
                  House!Waiting(k) = curr[k] + 1 .. Len(Q[k])
           /\ Pending /\ event.type = k =>
                  House!Waiting(k) = curr[k] .. Len(Q[k]) /\ curr[k] \in 1 .. Len(Q[k])
<1>1. /\ curr[k] \in Nat /\ Q[k] \in Seq(Event) /\ DOMAIN Q[k] = 1 .. Len(Q[k])
      /\ Len(Q[k]) \in Nat /\ Len(Q[k]) = Len(tids[k]) /\ tids[k] \in Seq(Nat)
  BY DEF OrderInv, QueueInv, Flags, Typed, TokenInv, Counted
<1>2. House!Seen(k) = IF Pending /\ event.type = k THEN 1 .. curr[k] - 1 ELSE 1 .. curr[k]
  BY SeenIs
<1>3. Pending /\ event.type = k => curr[k] \in 1 .. Len(Q[k])
  <2>1. Pending => event.type \in Kind /\ curr[event.type] \in DOMAIN tids[event.type]
    BY DEF OrderInv, Placed, Pending
  <2> QED
    BY <1>1, <2>1
<1> QED
  BY <1>1, <1>2, <1>3 DEF House!Waiting

LEMMA AttendStep ==
    ASSUME HouseInv, NEW i \in DOMAIN visitor, EnterChamber(i)
    PROVE  House!Next
<1> DEFINE k == event.type
           id == curr[k]
           until == curr_time + event.duration
           line == [at |-> curr_time, who |-> k, id |-> id, says |-> "in_chamber", until |-> until]
<1>0. OrderInv /\ QueueInv /\ NextOne /\ Turn /\ Service
  BY DEF HouseInv, OrderInv, QueueInv
<1>1. PICK t : LastEnd(t) /\ Timely(t)
  BY DEF HouseInv
<1>2. House!FreeFrom = t /\ t \in Int
  BY <1>0, <1>1, FreeIs DEF OrderInv, LastEnd
<1>3. /\ k \in Kind /\ main = "join_visitor" /\ Pending
      /\ event = Q[k][id] /\ transcript' = Append(transcript, line)
      /\ UNCHANGED <<Q, doc_session_end>>
  BY <1>0, LineIs
<1>4. Paid' = Paid \cup {[kind |-> k, id |-> id, from |-> curr_time, until |-> until]}
  <2>1. line.says = "in_chamber" /\ transcript \in Seq(Printed)
    BY <1>0 DEF OrderInv
  <2>2. Visit(line) = [kind |-> k, id |-> id, from |-> curr_time, until |-> until]
    BY DEF Visit
  <2> HIDE DEF line, k, id, until
  <2> QED
    BY <1>3, <2>1, <2>2, PaidNew
<1>5. House!Max({t, event.time}) = curr_time
  <2>1. t <= curr_time /\ event.time <= curr_time /\ (t = curr_time \/ event.time = curr_time)
    BY <1>1, <1>3 DEF Timely
  <2>2. event.time \in Int /\ curr_time \in Int
    BY <1>0 DEF QueueInv, Typed, Flags, Event
  <2> QED
    BY <1>2, <2>1, <2>2, MaxIs
<1>6. doc_session_end = 0
  BY <1>0, <1>3 DEF Turn, Engaged
<1>7. House!Waiting(k) = id .. Len(Q[k]) /\ id \in 1 .. Len(Q[k])
  BY <1>0, <1>3, WaitingIs
<1>8. \A a \in Above(k) : House!Waiting(a) = {}
  <2> SUFFICES ASSUME NEW a \in Above(k)
               PROVE  House!Waiting(a) = {}
    OBVIOUS
  <2>1. a \in Kind /\ a # k
    BY <1>3, AboveFacts
  <2>2. wait[a] = 0
    BY <1>0, <1>3 DEF Service, Engaged
  <2>3. wait[a] + curr[a] + Num(Serving /\ event.type = a)
            = Len(tids[a]) + Num(LettingIn /\ event.type = a)
    BY <1>0, <2>1 DEF QueueInv, Waiting
  <2>4. Num(Serving /\ event.type = a) = 0 /\ Num(LettingIn /\ event.type = a) = 0
    BY <2>1 DEF Num, LettingIn, Serving
  <2>5. curr[a] \in Nat /\ Len(tids[a]) \in Nat /\ Len(Q[a]) = Len(tids[a])
    BY <1>0, <2>1 DEF QueueInv, Typed, Flags, TokenInv, Counted
  <2>6. House!Waiting(a) = curr[a] + 1 .. Len(Q[a])
    BY <1>0, <2>1, WaitingIs
  <2>7. curr[a] = Len(Q[a])
    BY <2>2, <2>3, <2>4, <2>5
  <2> QED
    BY <2>5, <2>6, <2>7
<1>9. /\ k = "P" => House!Waiting("R") = {}
      /\ k = "S" => House!Waiting("R") = {} /\ House!Waiting("P") = {}
  BY <1>8 DEF Above
<1>10. id \in House!Waiting(k) /\ \A other \in House!Waiting(k) : id <= other
  BY <1>7
<1> HIDE DEF k, id
<1>11. House!Attend(k, id)
  BY <1>2, <1>3, <1>4, <1>5, <1>6, <1>9, <1>10 DEF House!Attend
<1> QED
  BY <1>3, <1>10, <1>11 DEF House!Next, House!Kind, Kind

LEMMA LeaveStep ==
    ASSUME HouseInv, EndSession, Paid' = Paid
    PROVE  House!Next
<1>0. OrderInv /\ QueueInv /\ StillOpen
  BY DEF HouseInv, OrderInv
<1>1. main = "leave" /\ doc_session_end' = 1 /\ Q' = Q
  BY DEF EndSession, local
<1>2. QuotasAttended /\ wait["R"] = 0 /\ doc_session_end = 0 /\ ~Pending
  BY <1>0, <1>1 DEF StillOpen, Pending
<1>3. ASSUME NEW k \in Kind
      PROVE  House!Waiting(k) = {}
  <2>1. wait[k] + curr[k] + Num(Serving /\ event.type = k)
            = Len(tids[k]) + Num(LettingIn /\ event.type = k)
    BY <1>0 DEF QueueInv, Waiting
  <2>2. Num(Serving /\ event.type = k) = 0 /\ Num(LettingIn /\ event.type = k) = 0
    BY <1>1 DEF Num, LettingIn, Serving
  <2>3. /\ curr[k] \in Nat /\ wait[k] \in Nat /\ Len(tids[k]) \in Nat
        /\ Len(Q[k]) = Len(tids[k])
    BY <1>0 DEF QueueInv, Typed, Flags, TokenInv, Counted
  <2>4. k \in Limited => Len(tids[k]) + Num(LettingIn /\ event.type = k) <= Quota[k]
    BY <1>0 DEF QueueInv, Waiting
  <2>5. curr[k] = Len(Q[k])
    <3>1. CASE k = "R"
      BY <1>2, <2>1, <2>2, <2>3, <3>1
    <3>2. CASE k # "R"
      <4>1. k \in Limited
        BY <3>2 DEF Kind, Limited
      <4>2. curr[k] = Quota[k]
        BY <1>2, <4>1 DEF QuotasAttended
      <4> QED
        BY <2>1, <2>2, <2>3, <2>4, <4>1, <4>2
    <3> QED
      BY <3>1, <3>2
  <2>6. House!Waiting(k) = curr[k] + 1 .. Len(Q[k])
    BY <1>0, <1>2, WaitingIs
  <2> QED
    BY <2>3, <2>5, <2>6
<1>4. House!Attended
  BY <1>0, <1>2, AttendedIs
<1>5. House!Leave
  BY <1>1, <1>2, <1>3, <1>4 DEF House!Leave, House!Kind, Kind
<1> QED
  BY <1>5 DEF House!Next

\* A visitor who is noted down is admitted, one who goes in is attended to,
\* the end of the session is the doctor's leaving; no other step shows.
LEMMA HouseStep == HouseInv /\ [Next]_vars => [House!Next]_(House!vars)
<1> SUFFICES ASSUME HouseInv, [Next]_vars
             PROVE  [House!Next]_(House!vars)
  OBVIOUS
<1>0. OrderInv
  BY DEF HouseInv
<1>1. CASE \E i \in DOMAIN visitor : EnterChamber(i)
  BY <1>1, AttendStep
<1>2. CASE ~ \E i \in DOMAIN visitor : EnterChamber(i)
  <2>1. Paid' = Paid
    BY <1>0, <1>2, PaidKept
  <2>2. CASE AwaitInit /\ Q' # Q
    BY <2>1, <2>2, AdmitStep
  <2>3. CASE EndSession
    BY <2>1, <2>3, LeaveStep
  <2>4. CASE ~(AwaitInit /\ Q' # Q) /\ ~EndSession
    <3>1. Q' = Q /\ doc_session_end' = doc_session_end
      BY <1>0, <2>4, PlacesKept, EndsOnce
    <3> QED
      BY <2>1, <3>1 DEF House!vars
  <2> QED
    BY <2>2, <2>3, <2>4
<1> QED
  BY <1>1, <1>2

\* The threads, locks, signals and the heap together are a doctor who attends
\* to one visitor after another: reporters first, then patients, then sales
\* representatives, each kind in order of arrival, each as soon as he is there
\* and the doctor is free, for as long as he asks; and the doctor leaves once
\* the quotas are attended to and nobody waits.
THEOREM SessionRefines == Spec => KeepsHouse
<1>1. HouseInv /\ [Next]_vars => [House!Next]_(House!vars)
  BY HouseStep
<1> QED
  BY HouseInvInit, HouseInit, HouseInvStep, <1>1, PTL DEF Spec, KeepsHouse, House!Spec
=============================================================================
