------------------------- MODULE CommandSwapProofs -------------------------
(***************************************************************************)
(* For pipes of any size and any number of commands: the two windows agree *)
(* on who asks for commands and on the pipe between them, and they carry   *)
(* the commands out once each, in the order in which they were typed.      *)
(***************************************************************************)
EXTENDS CommandSwap, SequenceTheorems, TLAPS

\* The pipe a child uses next: one that has typed swaprole will turn.
Uses(c) == IF mode[c] = "to_E" THEN 1 - state[c] ELSE state[c]

Reading(c) == mode[c] \in {"E", "to_E", "run"}

Plain(q) == \A i \in 1 .. Len(q) : q[i] = "program"

EndsWith(q, cmd) ==
    /\ q # <<>>
    /\ q[Len(q)] = cmd
    /\ \A i \in 1 .. Len(q) - 1 : q[i] = "program"

\* a asks for commands and b reads them.
Settled(a, b) ==
    /\ mode[a] = "C" /\ Reading(b) /\ Uses(b) = state[a]
    /\ Plain(pipe[state[a]]) /\ pipe[1 - state[a]] = <<>>

\* a has typed swaprole, which b has still to read.
Swapping(a, b) ==
    /\ mode[a] \in {"E", "to_E"} /\ Reading(b) /\ Uses(a) = 1 - Uses(b)
    /\ EndsWith(pipe[Uses(b)], "swaprole") /\ pipe[Uses(a)] = <<>>

Exiting(a, b) ==
    /\ mode[a] = "ended" /\ Reading(b)
    /\ EndsWith(pipe[Uses(b)], "exit") /\ pipe[1 - Uses(b)] = <<>>

Over ==
    /\ \A c \in Child : mode[c] = "ended"
    /\ pipe[0] = <<>> /\ pipe[1] = <<>>

Agreed ==
    \/ Over
    \/ \E a, b \in Child : a # b /\ (Settled(a, b) \/ Swapping(a, b) \/ Exiting(a, b))

IInv == TypeOK /\ Agreed

-----------------------------------------------------------------------------
\* What a pipe holds when a command is written and when one is taken.
LEMMA Written ==
    ASSUME NEW q \in Seq(Command), Plain(q), NEW cmd \in Command
    PROVE  /\ Append(q, cmd) \in Seq(Command)
           /\ cmd = "program" => Plain(Append(q, cmd))
           /\ EndsWith(Append(q, cmd), cmd)
<1> DEFINE r == Append(q, cmd)
<1>1. r \in Seq(Command) /\ Len(r) = Len(q) + 1 /\ Len(q) \in Nat
    OBVIOUS
<1>2. r[Len(q) + 1] = cmd /\ \A i \in 1 .. Len(q) : r[i] = q[i]
    OBVIOUS
<1>3. \A i \in 1 .. Len(q) : r[i] = "program"
    BY <1>2 DEF Plain
<1>4. r # <<>>
    BY <1>1
<1> HIDE DEF r
<1>5. EndsWith(r, cmd)
    BY <1>1, <1>2, <1>3, <1>4 DEF EndsWith
<1>6. cmd = "program" => Plain(r)
    BY <1>1, <1>2, <1>3 DEF Plain
<1>7. QED
    BY <1>1, <1>5, <1>6 DEF r

LEMMA Shifted ==
    ASSUME NEW q \in Seq(Command), q # <<>>
    PROVE  /\ Tail(q) \in Seq(Command) /\ Len(Tail(q)) = Len(q) - 1
           /\ Len(q) \in Nat \ {0} /\ Head(q) = q[1]
           /\ \A i \in 1 .. Len(q) - 1 : Tail(q)[i] = q[i + 1]
BY HeadTailProperties

LEMMA TakenPlain ==
    ASSUME NEW q \in Seq(Command), Plain(q), q # <<>>
    PROVE  Head(q) = "program" /\ Tail(q) \in Seq(Command) /\ Plain(Tail(q))
<1>1. \A i \in 1 .. Len(q) : q[i] = "program"
    BY DEF Plain
<1>2. \A i \in 1 .. Len(Tail(q)) : Tail(q)[i] = "program"
    BY <1>1, Shifted
<1>3. QED
    BY <1>1, <1>2, Shifted DEF Plain

LEMMA TakenLast ==
    ASSUME NEW q \in Seq(Command), NEW last \in Command \ {"program"}, EndsWith(q, last)
    PROVE  /\ Tail(q) \in Seq(Command)
           /\ Head(q) = "program" => EndsWith(Tail(q), last)
           /\ Head(q) # "program" => Head(q) = last /\ Tail(q) = <<>>
<1> DEFINE n == Len(q)
           r == Tail(q)
<1>1. q # <<>> /\ q[n] = last /\ \A i \in 1 .. n - 1 : q[i] = "program"
    BY DEF EndsWith
<1>2. /\ r \in Seq(Command) /\ Len(r) = n - 1 /\ n \in Nat \ {0} /\ Head(q) = q[1]
      /\ \A i \in 1 .. n - 1 : r[i] = q[i + 1]
    BY <1>1, Shifted
<1> HIDE DEF n, r
<1>3. CASE n = 1
    <2>1. r = <<>>
        BY <1>2, <1>3, EmptySeq
    <2>2. Head(q) = last /\ last # "program"
        BY <1>1, <1>2, <1>3
    <2>3. QED
        BY <2>1, <2>2, <1>2 DEF r
<1>4. CASE n > 1
    <2>1. Head(q) = "program"
        BY <1>1, <1>2, <1>4
    <2>2. r # <<>> /\ r[Len(r)] = last
        BY <1>1, <1>2, <1>4
    <2>3. \A i \in 1 .. Len(r) - 1 : r[i] = "program"
        BY <1>1, <1>2, <1>4
    <2>4. QED
        BY <1>2, <2>1, <2>2, <2>3 DEF EndsWith, r
<1>5. QED
    BY <1>2, <1>3, <1>4

LEMMA InitInv == Init => IInv
<1> SUFFICES ASSUME Init PROVE IInv
    OBVIOUS
<1>1. TypeOK
    BY BoundAssumption DEF Init, TypeOK, Child
<1>2. Settled("first", "second")
    BY DEF Init, Settled, Reading, Uses, Plain, Child
<1>3. QED
    BY <1>1, <1>2 DEF IInv, Agreed, Child

LEMMA TypeStep == ASSUME TypeOK, [Next]_vars PROVE TypeOK'
<1> USE DEF TypeOK, Goto
<1>1. CASE UNCHANGED vars
    BY <1>1 DEF vars
<1>2. CASE SupervisorWaits
    BY <1>2 DEF SupervisorWaits
<1>3. ASSUME NEW c \in Child, Type(c) PROVE TypeOK'
    <2>1. PICK cmd \in Command :
              /\ Len(pipe[state[c]]) < Capacity
              /\ mode[c] = "C"
              /\ mode' = [mode EXCEPT ![c] = CASE cmd = "swaprole" -> "to_E"
                                               [] cmd = "exit" -> "ended"
                                               [] OTHER -> "C"]
              /\ pipe' = [pipe EXCEPT ![state[c]] = Append(@, cmd)]
              /\ UNCHANGED <<state, performed, reaped>>
        BY <1>3 DEF Type
    <2>2. \A i \in {0, 1} : pipe'[i] \in Seq(Command) /\ Len(pipe'[i]) <= Capacity
        BY <2>1, BoundAssumption
    <2>3. QED
        BY <2>1, <2>2
<1>4. ASSUME NEW c \in Child, TurnExecutor(c) PROVE TypeOK'
    BY <1>4 DEF TurnExecutor
<1>5. ASSUME NEW c \in Child, Take(c) PROVE TypeOK'
    <2>1. \A i \in {0, 1} : pipe'[i] \in Seq(Command) /\ Len(pipe'[i]) <= Capacity
        BY <1>5, BoundAssumption DEF Take
    <2>2. QED
        BY <1>5, <2>1 DEF Take
<1>6. ASSUME NEW c \in Child, ProgramEnds(c) PROVE TypeOK'
    BY <1>6 DEF ProgramEnds
<1>7. QED
    BY <1>1, <1>2, <1>3, <1>4, <1>5, <1>6 DEF Next, Works

-----------------------------------------------------------------------------
LEMMA Other == ASSUME NEW a \in Child, NEW b \in Child, a # b, NEW c \in Child
               PROVE  c = a \/ c = b
BY DEF Child

LEMMA UsesOne == ASSUME TypeOK, NEW c \in Child PROVE Uses(c) \in {0, 1} /\ 1 - Uses(c) \in {0, 1}
BY DEF TypeOK, Uses

\* The step of a window that types a command (CSE.c:92-138).
LEMMA TypeAgreed == ASSUME IInv, NEW c \in Child, Type(c) PROVE Agreed'
<1>1. mode[c] = "C"
    BY DEF Type, Goto
<1>2. PICK a \in Child, b \in Child : a # b /\ (Settled(a, b) \/ Swapping(a, b) \/ Exiting(a, b))
    BY <1>1 DEF IInv, Agreed, Over
<1>3. c = a /\ Settled(a, b)
    BY <1>1, <1>2, Other DEF Settled, Swapping, Exiting, Reading
<1>4. PICK cmd \in Command :
          /\ mode' = [mode EXCEPT ![c] = CASE cmd = "swaprole" -> "to_E"
                                           [] cmd = "exit" -> "ended"
                                           [] OTHER -> "C"]
          /\ pipe' = [pipe EXCEPT ![state[c]] = Append(@, cmd)]
          /\ state' = state
    BY DEF Type, Goto
<1> DEFINE s == state[a]
           q == Append(pipe[s], cmd)
<1>5. s \in {0, 1} /\ 1 - s \in {0, 1} /\ s # 1 - s /\ pipe[s] \in Seq(Command)
    BY DEF IInv, TypeOK
<1>6. pipe'[s] = q /\ pipe'[1 - s] = <<>>
    BY <1>3, <1>4, <1>5 DEF Settled, IInv, TypeOK
<1>7. (cmd = "program" => Plain(q)) /\ EndsWith(q, cmd)
    BY <1>3, <1>5, Written DEF Settled
<1>8. mode'[b] = mode[b] /\ Reading(b)' /\ Uses(b)' = s
    BY <1>2, <1>3, <1>4 DEF Settled, Reading, Uses, IInv, TypeOK
<1> HIDE DEF q
<1>9. CASE cmd = "program"
    <2>1. mode'[a] = "C" /\ state'[a] = s
        BY <1>3, <1>4, <1>9 DEF IInv, TypeOK
    <2>2. Settled(a, b)'
        BY <2>1, <1>6, <1>7, <1>8, <1>9 DEF Settled
    <2>3. QED
        BY <2>2, <1>2 DEF Agreed
<1>10. CASE cmd = "swaprole"
    <2>1. mode'[a] = "to_E" /\ Uses(a)' = 1 - s
        BY <1>3, <1>4, <1>10 DEF IInv, TypeOK, Uses
    <2>2. Swapping(a, b)'
        BY <2>1, <1>6, <1>7, <1>8, <1>10 DEF Swapping
    <2>3. QED
        BY <2>2, <1>2 DEF Agreed
<1>11. CASE cmd = "exit"
    <2>1. mode'[a] = "ended"
        BY <1>3, <1>4, <1>11 DEF IInv, TypeOK
    <2>2. Exiting(a, b)'
        BY <2>1, <1>6, <1>7, <1>8, <1>11 DEF Exiting
    <2>3. QED
        BY <2>2, <1>2 DEF Agreed
<1>12. QED
    BY <1>9, <1>10, <1>11 DEF Command

\* Turning, and the end of a program, change no child's pipe or role.
Quiet ==
    /\ pipe' = pipe
    /\ \A c \in Child :
          /\ Uses(c)' = Uses(c)
          /\ \/ mode'[c] = mode[c] /\ state'[c] = state[c]
             \/ mode[c] \in {"to_E", "run"} /\ mode'[c] = "E"

LEMMA QuietAgreed == IInv /\ Quiet => Agreed'
<1> SUFFICES ASSUME IInv, Quiet PROVE Agreed'
    OBVIOUS
<1> USE DEF Quiet
<1>1. CASE Over
    <2>1. \A c \in Child : mode'[c] = "ended"
        BY <1>1 DEF Over
    <2>2. QED
        BY <2>1, <1>1 DEF Over, Agreed
<1>2. ASSUME NEW a \in Child, NEW b \in Child, a # b,
             Settled(a, b) \/ Swapping(a, b) \/ Exiting(a, b)
      PROVE  Agreed'
    <2>1. Reading(b)' /\ Uses(b)' = Uses(b) /\ Uses(a)' = Uses(a)
        BY <1>2 DEF Settled, Swapping, Exiting, Reading
    <2>2. CASE Settled(a, b)
        BY <1>2, <2>1, <2>2 DEF Settled, Agreed
    <2>3. CASE Swapping(a, b)
        <3>1. Swapping(a, b)'
            BY <2>1, <2>3 DEF Swapping
        <3>2. QED
            BY <1>2, <3>1 DEF Agreed
    <2>4. CASE Exiting(a, b)
        <3>1. Exiting(a, b)'
            BY <2>1, <2>4 DEF Exiting
        <3>2. QED
            BY <1>2, <3>1 DEF Agreed
    <2>5. QED
        BY <1>2, <2>2, <2>3, <2>4
<1>3. QED
    BY <1>1, <1>2 DEF IInv, Agreed

\* The step of a window that takes a command (CSE.c:142-222): it can only be
\* the reader, since the pipe the other one reads is empty.
LEMMA TakeAgreed == ASSUME IInv, NEW c \in Child, Take(c) PROVE Agreed'
<1>1. mode[c] = "E" /\ pipe[state[c]] # <<>> /\ Uses(c) = state[c]
    BY DEF Take, Goto, Uses
<1>2. PICK a \in Child, b \in Child : a # b /\ (Settled(a, b) \/ Swapping(a, b) \/ Exiting(a, b))
    BY <1>1 DEF IInv, Agreed, Over
<1>3. c = b
    BY <1>1, <1>2, Other DEF Settled, Swapping, Exiting
<1> DEFINE s == state[b]
           cmd == Head(pipe[s])
<1>4. /\ s \in {0, 1} /\ 1 - s \in {0, 1} /\ s # 1 - s /\ 1 - (1 - s) = s
      /\ pipe[s] \in Seq(Command) /\ pipe[s] # <<>>
    BY <1>1, <1>3 DEF IInv, TypeOK
<1>5. /\ mode' = [mode EXCEPT ![b] = CASE cmd = "swaprole" -> "C"
                                       [] cmd = "exit" -> "ended"
                                       [] OTHER -> "run"]
      /\ state' = [state EXCEPT ![b] = IF cmd = "swaprole" THEN 1 - @ ELSE @]
      /\ pipe' = [pipe EXCEPT ![s] = Tail(@)]
    BY <1>3 DEF Take, Goto
<1>6. mode'[a] = mode[a] /\ state'[a] = state[a] /\ Uses(a)' = Uses(a)
    BY <1>2, <1>5 DEF IInv, TypeOK, Uses
<1>7. pipe'[s] = Tail(pipe[s]) /\ pipe'[1 - s] = pipe[1 - s]
    BY <1>4, <1>5 DEF IInv, TypeOK
<1>8. /\ mode'[b] = CASE cmd = "swaprole" -> "C" [] cmd = "exit" -> "ended" [] OTHER -> "run"
      /\ state'[b] = IF cmd = "swaprole" THEN 1 - s ELSE s
    BY <1>5 DEF IInv, TypeOK
<1> HIDE DEF cmd
<1>9. ASSUME cmd = "program" PROVE Reading(b)' /\ Uses(b)' = s /\ state'[b] = s
    BY <1>8, <1>9 DEF Reading, Uses
<1>10. CASE Settled(a, b)
    <2>1. state[a] = s /\ pipe[1 - s] = <<>> /\ mode[a] = "C"
        BY <1>1, <1>3, <1>10 DEF Settled
    <2>2. cmd = "program" /\ Plain(Tail(pipe[s]))
        BY <1>4, <1>10, <2>1, TakenPlain DEF Settled, cmd
    <2>3. Settled(a, b)'
        BY <1>6, <1>7, <1>9, <2>1, <2>2 DEF Settled
    <2>4. QED
        BY <1>2, <2>3 DEF Agreed
<1>11. CASE Swapping(a, b)
    <2>1. Uses(a) = 1 - s /\ pipe[1 - s] = <<>> /\ mode[a] \in {"E", "to_E"}
        BY <1>1, <1>3, <1>11 DEF Swapping
    <2>2. EndsWith(pipe[s], "swaprole") /\ "swaprole" \in Command \ {"program"}
        BY <1>1, <1>3, <1>11 DEF Swapping, Command
    <2>3. /\ cmd = "program" => EndsWith(Tail(pipe[s]), "swaprole")
          /\ cmd # "program" => cmd = "swaprole" /\ Tail(pipe[s]) = <<>>
        BY <1>4, <2>2, TakenLast DEF cmd
    <2>4. CASE cmd = "program"
        <3>1. Swapping(a, b)'
            BY <1>4, <1>6, <1>7, <1>9, <2>1, <2>3, <2>4 DEF Swapping
        <3>2. QED
            BY <1>2, <3>1 DEF Agreed
    <2>5. CASE cmd # "program"
        <3>1. mode'[b] = "C" /\ state'[b] = 1 - s
            BY <1>8, <2>3, <2>5
        <3>2. pipe'[1 - s] = <<>> /\ pipe'[s] = <<>>
            BY <1>7, <2>1, <2>3, <2>5
        <3>3. Plain(pipe'[1 - s])
            BY <3>2 DEF Plain
        <3>4. Reading(a)' /\ Uses(a)' = 1 - s
            BY <1>6, <2>1 DEF Reading
        <3>5. Settled(b, a)'
            BY <1>4, <3>1, <3>2, <3>3, <3>4 DEF Settled
        <3>6. QED
            BY <1>2, <3>5 DEF Agreed
    <2>6. QED
        BY <2>4, <2>5
<1>12. CASE Exiting(a, b)
    <2>1. pipe[1 - s] = <<>> /\ mode[a] = "ended"
        BY <1>1, <1>3, <1>12 DEF Exiting
    <2>2. EndsWith(pipe[s], "exit") /\ "exit" \in Command \ {"program"}
        BY <1>1, <1>3, <1>12 DEF Exiting, Command
    <2>3. /\ cmd = "program" => EndsWith(Tail(pipe[s]), "exit")
          /\ cmd # "program" => cmd = "exit" /\ Tail(pipe[s]) = <<>>
        BY <1>4, <2>2, TakenLast DEF cmd
    <2>4. CASE cmd = "program"
        <3>1. Exiting(a, b)'
            BY <1>6, <1>7, <1>9, <2>1, <2>3, <2>4 DEF Exiting
        <3>2. QED
            BY <1>2, <3>1 DEF Agreed
    <2>5. CASE cmd # "program"
        <3>1. mode'[b] = "ended" /\ mode'[a] = "ended"
            BY <1>6, <1>8, <2>1, <2>3, <2>5
        <3>2. pipe'[1 - s] = <<>> /\ pipe'[s] = <<>>
            BY <1>7, <2>1, <2>3, <2>5
        <3>3. \A d \in Child : mode'[d] = "ended"
            BY <1>2, <3>1, Other
        <3>4. QED
            BY <1>4, <3>2, <3>3 DEF Over, Agreed
    <2>6. QED
        BY <2>4, <2>5
<1>13. QED
    BY <1>2, <1>10, <1>11, <1>12

LEMMA StepInv == IInv /\ [Next]_vars => IInv'
<1> SUFFICES ASSUME IInv, [Next]_vars PROVE IInv'
    OBVIOUS
<1>1. TypeOK'
    BY TypeStep DEF IInv
<1>2. CASE UNCHANGED vars
    <2>1. Quiet
        BY <1>2 DEF vars, Uses, Quiet
    <2>2. QED
        BY <1>1, <2>1, QuietAgreed DEF IInv
<1>3. CASE SupervisorWaits
    <2>1. Quiet
        BY <1>3 DEF SupervisorWaits, Uses, Quiet
    <2>2. QED
        BY <1>1, <2>1, QuietAgreed DEF IInv
<1>4. ASSUME NEW c \in Child, Type(c) PROVE Agreed'
    BY <1>4, TypeAgreed
<1>5. ASSUME NEW c \in Child, Take(c) PROVE Agreed'
    BY <1>5, TakeAgreed
<1>6. ASSUME NEW c \in Child, TurnExecutor(c) PROVE Agreed'
    <2>1. Quiet
        BY <1>6 DEF TurnExecutor, Goto, Uses, IInv, TypeOK, Quiet
    <2>2. QED
        BY <2>1, QuietAgreed
<1>7. ASSUME NEW c \in Child, ProgramEnds(c) PROVE Agreed'
    <2>1. Quiet
        BY <1>7 DEF ProgramEnds, Goto, Uses, IInv, TypeOK, Quiet
    <2>2. QED
        BY <2>1, QuietAgreed
<1>8. QED
    BY <1>1, <1>2, <1>3, <1>4, <1>5, <1>6, <1>7 DEF IInv, Next, Works

\* The windows agree in every reachable state, for any size of the pipes
\* (CSE.c:86-226).
THEOREM Invariance == Spec => []IInv
<1>1. Init => IInv
    BY InitInv
<1>2. IInv /\ [Next]_vars => IInv'
    BY StepInv
<1>3. QED
    BY <1>1, <1>2, PTL DEF Spec

\* Never do both windows ask for commands (CSE.c:121-138, 174-220): who asks
\* has a reader on the same pipe, or has just typed the command that makes the
\* other the asker.
THEOREM OneAsks == Spec => []OneCommander
<1>1. IInv => OneCommander
    <2>1. ASSUME NEW a \in Child, NEW b \in Child, a # b,
                 Settled(a, b) \/ Swapping(a, b) \/ Exiting(a, b)
          PROVE  mode[b] # "C"
        BY <2>1 DEF Settled, Swapping, Exiting, Reading
    <2>2. Over => mode["first"] # "C"
        BY DEF Over, Child
    <2>3. QED
        BY <2>1, <2>2 DEF IInv, Agreed, OneCommander, Child
<1>2. QED
    BY <1>1, Invariance, PTL

-----------------------------------------------------------------------------
(* The log.  What is in the pipes is what has been typed and not yet been  *)
(* carried out, and one of the two pipes is always empty: the other holds  *)
(* it in the order typed.                                                  *)

Waiting == pipe[0] \o pipe[1]

LogInv ==
    /\ performed \in Seq(Command) /\ typed = performed \o Waiting
    /\ Over \/ \A i \in 1 .. Len(performed) : performed[i] # "exit"

\* With one pipe empty, what waits is what the other one holds.
LEMMA Alone ==
    ASSUME TypeOK, NEW s \in {0, 1}, pipe[1 - s] = <<>>
    PROVE  Waiting = pipe[s] /\ Waiting \in Seq(Command)
<1>1. pipe[0] \in Seq(Command) /\ pipe[1] \in Seq(Command)
    BY DEF TypeOK
<1>2. (s = 0 /\ pipe[1] = <<>>) \/ (s = 1 /\ pipe[0] = <<>>)
    OBVIOUS
<1>3. QED
    BY <1>1, <1>2, ConcatEmptySeq DEF Waiting

LEMMA LogInit == Init => Log!Init /\ LogInv
<1> SUFFICES ASSUME Init PROVE Log!Init /\ LogInv
    OBVIOUS
<1>1. Waiting = <<>>
    BY DEF Init, Waiting
<1>2. QED
    BY <1>1 DEF Init, LogInv, Log!Init

\* Only who has a reader types, and no exit is among the commands then: what
\* is typed follows all that waits (CSE.c:99-106, 123-138).
LEMMA TypeLogged == ASSUME IInv, LogInv, NEW c \in Child, Type(c) PROVE LogInv' /\ Log!Enter
<1>1. mode[c] = "C"
    BY DEF Type, Goto
<1>2. PICK a \in Child, b \in Child : a # b /\ (Settled(a, b) \/ Swapping(a, b) \/ Exiting(a, b))
    BY <1>1 DEF IInv, Agreed, Over
<1>3. c = a /\ Settled(a, b)
    BY <1>1, <1>2, Other DEF Settled, Swapping, Exiting, Reading
<1>4. PICK cmd \in Command :
          /\ pipe' = [pipe EXCEPT ![state[c]] = Append(@, cmd)]
          /\ typed' = Append(typed, cmd)
          /\ UNCHANGED performed
    BY DEF Type
<1> DEFINE s == state[a]
           q == pipe[s]
<1>5. s \in {0, 1} /\ s # 1 - s /\ 1 - s \in {0, 1} /\ q \in Seq(Command)
    BY DEF IInv, TypeOK
<1>6. pipe'[s] = Append(q, cmd) /\ pipe'[1 - s] = <<>>
    BY <1>3, <1>4, <1>5 DEF Settled, IInv, TypeOK
<1>7. Waiting = q
    BY <1>3, <1>5, Alone DEF Settled, IInv
<1> DEFINE r == Append(q, cmd)
<1>8. r \in Seq(Command)
    BY <1>5
<1>9. performed \in Seq(Command) /\ typed = performed \o q
    BY <1>7 DEF LogInv
<1> HIDE DEF q, r
<1>10. Waiting' = r
    <2>1. (s = 0 /\ pipe'[0] = r /\ pipe'[1] = <<>>) \/ (s = 1 /\ pipe'[1] = r /\ pipe'[0] = <<>>)
        BY <1>5, <1>6 DEF r
    <2>2. pipe'[0] \o pipe'[1] = r
        BY <1>8, <2>1, ConcatEmptySeq
    <2>3. QED
        BY <2>2 DEF Waiting
<1>11. typed' = performed \o r
    <2>1. <<cmd>> \in Seq(Command) /\ r = q \o <<cmd>>
        BY <1>5, AppendIsConcat DEF r
    <2>2. performed \o q \in Seq(Command)
        BY <1>5, <1>9, ConcatProperties
    <2>3. typed' = (performed \o q) \o <<cmd>>
        BY <1>4, <1>9, <2>2, AppendIsConcat
    <2>4. QED
        BY <1>5, <1>9, <2>1, <2>3, ConcatAssociative
<1>12. \A i \in 1 .. Len(performed) : performed[i] # "exit"
    BY <1>1, <1>3 DEF LogInv, Over
<1>13. LogInv'
    BY <1>4, <1>9, <1>10, <1>12, <1>11 DEF LogInv
<1>14. \A i \in 1 .. Len(typed) : typed[i] # "exit"
    <2>1. \A i \in 1 .. Len(q) : q[i] # "exit"
        BY <1>3 DEF Settled, Plain, q
    <2>2. QED
        BY <1>5, <1>9, <1>12, <2>1, ConcatProperties
<1>15. typed = <<>> \/ typed[Len(typed)] # "exit"
    <2>1. typed \in Seq(Command)
        BY <1>5, <1>9
    <2>2. typed # <<>> => Len(typed) \in 1 .. Len(typed)
        BY <2>1
    <2>3. QED
        BY <1>14, <2>2
<1>16. QED
    BY <1>4, <1>13, <1>15 DEF Log!Enter

\* Moving the first of q to the end of p changes nothing in p \o q.
LEMMA Front ==
    ASSUME NEW p \in Seq(Command), NEW q \in Seq(Command), q # <<>>
    PROVE  /\ Append(p, Head(q)) \in Seq(Command)
           /\ Append(p, Head(q)) \o Tail(q) = p \o q
           /\ Append(p, Head(q)) = SubSeq(p \o q, 1, Len(p) + 1)
           /\ p # p \o q
<1> DEFINE h == Head(q)
           t == Tail(q)
           m == Append(p, h)
           w == p \o q
<1>1. /\ h \in Command /\ t \in Seq(Command) /\ h = q[1]
      /\ Len(t) = Len(q) - 1 /\ Len(q) \in Nat \ {0}
      /\ \A i \in 1 .. Len(q) - 1 : t[i] = q[i + 1]
    BY Shifted
<1>2. /\ m \in Seq(Command) /\ Len(m) = Len(p) + 1 /\ Len(p) \in Nat
      /\ m[Len(p) + 1] = h /\ \A i \in 1 .. Len(p) : m[i] = p[i]
    BY <1>1, AppendProperties
<1>3. /\ w \in Seq(Command) /\ Len(w) = Len(p) + Len(q)
      /\ \A i \in 1 .. Len(w) : w[i] = IF i <= Len(p) THEN p[i] ELSE q[i - Len(p)]
    BY ConcatProperties
<1> HIDE DEF h, t, m, w
<1>4. p # w
    BY <1>1, <1>2, <1>3
<1>5. m = SubSeq(w, 1, Len(p) + 1)
    <2> DEFINE u == SubSeq(w, 1, Len(p) + 1)
    <2>1. /\ u \in Seq(Command) /\ Len(u) = Len(p) + 1
          /\ \A i \in 1 .. Len(p) + 1 : u[i] = w[i]
        BY <1>1, <1>2, <1>3, SubSeqProperties
    <2> HIDE DEF u
    <2>2. ASSUME NEW i \in 1 .. Len(p) + 1 PROVE u[i] = m[i]
        <3>1. u[i] = w[i] /\ w[i] = IF i <= Len(p) THEN p[i] ELSE q[i - Len(p)]
            BY <1>1, <1>2, <1>3, <2>1
        <3>2. CASE i <= Len(p)
            BY <1>2, <3>1, <3>2
        <3>3. CASE i = Len(p) + 1
            <4>1. i - Len(p) = 1 /\ ~(i <= Len(p))
                BY <1>2, <3>3
            <4>2. QED
                BY <1>1, <1>2, <3>1, <3>3, <4>1
        <3>4. QED
            BY <1>2, <3>2, <3>3
    <2>3. m = u
        BY <1>2, <2>1, <2>2, SeqEqual
    <2>4. QED
        BY <2>3 DEF u
<1>6. m \o t = w
    <2> DEFINE u == m \o t
    <2>1. m \in Seq(Command) /\ t \in Seq(Command)
        BY <1>1, <1>2
    <2>2. /\ u \in Seq(Command) /\ Len(u) = Len(m) + Len(t)
          /\ \A i \in 1 .. Len(u) : u[i] = IF i <= Len(m) THEN m[i] ELSE t[i - Len(m)]
        BY ONLY <2>1, ConcatProperties
    <2> HIDE DEF u
    <2>3. ASSUME NEW i \in 1 .. Len(w) PROVE u[i] = w[i]
        <3>1. Len(u) = Len(w)
            BY <1>1, <1>2, <1>3, <2>2
        <3>2. u[i] = IF i <= Len(m) THEN m[i] ELSE t[i - Len(m)]
            BY <2>2, <3>1
        <3>3. w[i] = IF i <= Len(p) THEN p[i] ELSE q[i - Len(p)]
            BY <1>3
        <3>4. CASE i <= Len(p)
            BY <1>2, <3>2, <3>3, <3>4
        <3>5. CASE i = Len(p) + 1
            <4>1. i - Len(p) = 1 /\ ~(i <= Len(p)) /\ i <= Len(m)
                BY <1>2, <3>5
            <4>2. QED
                BY <1>1, <1>2, <3>2, <3>3, <3>5, <4>1
        <3>6. CASE i > Len(p) + 1
            <4>1. /\ i - Len(m) \in 1 .. Len(q) - 1 /\ (i - Len(m)) + 1 = i - Len(p)
                  /\ ~(i <= Len(p)) /\ ~(i <= Len(m))
                BY <1>1, <1>2, <1>3, <3>6
            <4>2. QED
                BY <1>1, <3>2, <3>3, <4>1
        <3>7. QED
            BY <1>2, <3>4, <3>5, <3>6
    <2>4. u = w
        <3>1. Len(u) = Len(w)
            BY <1>1, <1>2, <1>3, <2>2
        <3>2. QED
            BY <1>3, <2>2, <2>3, <3>1, SeqEqual
    <2>5. QED
        BY <2>4 DEF u
<1>7. QED
    BY <1>2, <1>4, <1>5, <1>6 DEF h, t, m, w

\* What the reader takes is the next that was typed, whichever pipe it is in;
\* and when it is exit, both windows have ended (CSE.c:156-183).
LEMMA TakeLogged == ASSUME IInv, LogInv, NEW c \in Child, Take(c) PROVE LogInv' /\ Log!Perform
<1>1. mode[c] = "E" /\ pipe[state[c]] # <<>> /\ Uses(c) = state[c]
    BY DEF Take, Goto, Uses
<1>2. PICK a \in Child, b \in Child : a # b /\ (Settled(a, b) \/ Swapping(a, b) \/ Exiting(a, b))
    BY <1>1 DEF IInv, Agreed, Over
<1>3. c = b
    BY <1>1, <1>2, Other DEF Settled, Swapping, Exiting
<1> DEFINE s == state[b]
           q == pipe[s]
           h == Head(q)
<1>4. s \in {0, 1} /\ s # 1 - s /\ 1 - s \in {0, 1} /\ q \in Seq(Command) /\ q # <<>>
    BY <1>1, <1>3 DEF IInv, TypeOK
<1>5. pipe[1 - s] = <<>>
    BY <1>1, <1>2, <1>3, <1>4 DEF Settled, Swapping, Exiting
<1>6. pipe' = [pipe EXCEPT ![s] = Tail(@)] /\ performed' = Append(performed, h) /\ typed' = typed
    BY <1>3 DEF Take
<1>7. Waiting = q
    BY <1>4, <1>5, Alone DEF IInv
<1>8. Waiting' = Tail(q)
    <2> DEFINE r == Tail(q)
    <2>1. r \in Seq(Command)
        BY <1>4
    <2>2. pipe'[s] = r /\ pipe'[1 - s] = <<>>
        BY <1>4, <1>5, <1>6 DEF IInv, TypeOK
    <2> HIDE DEF r
    <2>3. (s = 0 /\ pipe'[0] = r /\ pipe'[1] = <<>>) \/ (s = 1 /\ pipe'[1] = r /\ pipe'[0] = <<>>)
        BY <1>4, <2>2
    <2>4. pipe'[0] \o pipe'[1] = r
        BY <2>1, <2>3, ConcatEmptySeq
    <2>5. QED
        BY <2>4 DEF Waiting, r
<1>9. performed \in Seq(Command) /\ typed = performed \o q
    BY <1>7 DEF LogInv
<1>10. /\ performed' \in Seq(Command) /\ typed' = performed' \o Waiting'
       /\ performed # typed /\ performed' = SubSeq(typed, 1, Len(performed) + 1)
    BY <1>4, <1>6, <1>8, <1>9, Front
<1>11. \A i \in 1 .. Len(performed) : performed[i] # "exit"
    BY <1>1 DEF LogInv, Over
<1>12. h = "exit" => Over'
    <2>1. ASSUME h = "exit" PROVE Exiting(a, b) /\ Tail(q) = <<>>
        <3>1. ~Settled(a, b)
            BY <1>1, <1>3, <1>4, <2>1, TakenPlain DEF Settled
        <3>2. "swaprole" \in Command \ {"program"} /\ "exit" \in Command \ {"program"}
            BY DEF Command
        <3>3. ~Swapping(a, b)
            BY <1>1, <1>3, <1>4, <2>1, <3>2, TakenLast DEF Swapping
        <3>4. Exiting(a, b) /\ EndsWith(q, "exit")
            BY <1>1, <1>2, <1>3, <3>1, <3>3 DEF Exiting
        <3>5. QED
            BY <1>4, <2>1, <3>2, <3>4, TakenLast
    <2>2. ASSUME h = "exit" PROVE mode'[b] = "ended"
        BY <1>3, <2>2 DEF Take, Goto, IInv, TypeOK
    <2>3. mode'[a] = mode[a]
        BY <1>2, <1>3 DEF Take, Goto, IInv, TypeOK
    <2>4. ASSUME h = "exit" PROVE \A d \in Child : mode'[d] = "ended"
        BY <1>2, <2>1, <2>2, <2>3, <2>4, Other DEF Exiting
    <2>5. ASSUME h = "exit" PROVE pipe'[0] = <<>> /\ pipe'[1] = <<>>
        BY <1>4, <1>5, <1>6, <2>1, <2>5 DEF IInv, TypeOK
    <2>6. QED
        BY <2>4, <2>5 DEF Over
<1>13. Over' \/ \A i \in 1 .. Len(performed') : performed'[i] # "exit"
    <2>1. CASE h = "exit"
        BY <1>12, <2>1
    <2>2. CASE h # "exit"
        <3> HIDE DEF h
        <3>1. h \in Command
            BY <1>4 DEF h
        <3>2. \A i \in 1 .. Len(performed') : performed'[i] # "exit"
            BY <1>6, <1>9, <1>11, <2>2, <3>1, AppendProperties
        <3>3. QED
            BY <3>2
    <2>3. QED
        BY <2>1, <2>2
<1>14. QED
    BY <1>6, <1>10, <1>13 DEF LogInv, Log!Perform

LEMMA QuietLogged ==
    ASSUME LogInv, Quiet, UNCHANGED <<typed, performed>>,
           \A c \in Child : mode[c] = "ended" => mode'[c] = "ended"
    PROVE  LogInv'
<1>1. Over => Over'
    BY DEF Over, Quiet
<1>2. QED
    BY <1>1 DEF LogInv, Waiting, Quiet

\* Each step of the two windows and the supervisor is a step of the log, or
\* changes nothing in it.
LEMMA LogStep == ASSUME IInv, LogInv, [Next]_vars
                 PROVE  LogInv' /\ [Log!Enter \/ Log!Perform]_<<typed, performed>>
<1>1. CASE UNCHANGED vars
    <2>1. Quiet /\ \A c \in Child : mode[c] = "ended" => mode'[c] = "ended"
        BY <1>1 DEF vars, Uses, Quiet
    <2>2. QED
        BY <1>1, <2>1, QuietLogged DEF vars
<1>2. CASE SupervisorWaits
    <2>1. Quiet /\ \A c \in Child : mode[c] = "ended" => mode'[c] = "ended"
        BY <1>2 DEF SupervisorWaits, Uses, Quiet
    <2>2. QED
        BY <1>2, <2>1, QuietLogged DEF SupervisorWaits
<1>3. ASSUME NEW c \in Child, Type(c) PROVE LogInv' /\ Log!Enter
    BY <1>3, TypeLogged
<1>4. ASSUME NEW c \in Child, Take(c) PROVE LogInv' /\ Log!Perform
    BY <1>4, TakeLogged
<1>5. ASSUME NEW c \in Child, TurnExecutor(c) PROVE LogInv' /\ UNCHANGED <<typed, performed>>
    <2>1. Quiet /\ \A d \in Child : mode[d] = "ended" => mode'[d] = "ended"
        BY <1>5 DEF TurnExecutor, Goto, Uses, IInv, TypeOK, Quiet
    <2>2. QED
        BY <1>5, <2>1, QuietLogged DEF TurnExecutor
<1>6. ASSUME NEW c \in Child, ProgramEnds(c) PROVE LogInv' /\ UNCHANGED <<typed, performed>>
    <2>1. Quiet /\ \A d \in Child : mode[d] = "ended" => mode'[d] = "ended"
        BY <1>6 DEF ProgramEnds, Goto, Uses, IInv, TypeOK, Quiet
    <2>2. QED
        BY <1>6, <2>1, QuietLogged DEF ProgramEnds
<1>7. QED
    BY <1>1, <1>2, <1>3, <1>4, <1>5, <1>6 DEF Next, Works, vars, SupervisorWaits

\* For pipes of any size and any number of swaps: the commands are carried out
\* in the order typed, each of them once and none that follows an exit,
\* although they change pipes at every swap (CSE.c:99-106, 150-157).
THEOREM KeepsLog == Spec => Log!Safety
<1>1. Init => Log!Init /\ IInv /\ LogInv
    BY InitInv, LogInit
<1>2. IInv /\ LogInv /\ [Next]_vars
      => IInv' /\ LogInv' /\ [Log!Enter \/ Log!Perform]_<<typed, performed>>
    BY StepInv, LogStep
<1>3. QED
    BY <1>1, <1>2, PTL DEF Spec, Log!Safety
=============================================================================
