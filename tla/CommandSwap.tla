---------------------------- MODULE CommandSwap ----------------------------
(***************************************************************************)
(* Supervisor and two windows (Assignment 3, CSE.c).  The window in C mode *)
(* writes the user's commands to a pipe, the one in E mode reads them from *)
(* it and runs them; swaprole exchanges the modes, and with them the pipe: *)
(* both take p1 first and p2 after an odd number of swaps.  A pipe is what *)
(* has been written and not yet taken by the reader's scanf.               *)
(***************************************************************************)
EXTENDS Naturals, Sequences

CONSTANTS
    Capacity,     \* of a pipe
    MaxCommands   \* bound: the commands that are typed

ASSUME BoundAssumption == Capacity \in Nat \ {0} /\ MaxCommands \in Nat

Child == {"first", "second"}

Command == {"swaprole", "exit", "program"}

\* Operators whose name ends in _Mutant are no part of the model: each is the
\* operator it is named after with a plausible bug, to show that a property
\* can fail.

VARIABLES
    mode,         \* "C", "E", "to_E" after typing swaprole, "run", "ended"
    state,        \* which pipe each child uses
    pipe,
    typed, performed,   \* the commands so far
    reaped        \* the children the supervisor has waited for

vars == <<mode, state, pipe, typed, performed, reaped>>

TypeOK ==
    /\ mode \in [Child -> {"C", "E", "to_E", "run", "ended"}]
    /\ state \in [Child -> {0, 1}]
    /\ pipe \in [{0, 1} -> Seq(Command)] /\ \A i \in {0, 1} : Len(pipe[i]) <= Capacity
    /\ reaped \subseteq {c \in Child : mode[c] = "ended"}

Init ==
    /\ mode = [c \in Child |-> IF c = "first" THEN "C" ELSE "E"]
    /\ state = [c \in Child |-> 0]
    /\ pipe = [i \in {0, 1} |-> <<>>]
    /\ typed = <<>>
    /\ performed = <<>>
    /\ reaped = {}

Goto(c, here, next) == mode[c] = here /\ mode' = [mode EXCEPT ![c] = next]

\* The user types a command in a C window, which writes it to its pipe.
Type_Mutant(c) ==
    \E cmd \in Command :
        /\ Len(typed) < MaxCommands
        /\ Len(pipe[state[c]]) < Capacity
        /\ Goto(c, "C", IF cmd = "exit" THEN "ended" ELSE "C")
        /\ pipe' = [pipe EXCEPT ![state[c]] = Append(@, cmd)]
        /\ typed' = Append(typed, cmd)
        /\ UNCHANGED <<state, performed, reaped>>

Type(c) ==
    \E cmd \in Command :
        /\ Len(typed) < MaxCommands
        /\ Len(pipe[state[c]]) < Capacity
        /\ Goto(c, "C", CASE cmd = "swaprole" -> "to_E"
                          [] cmd = "exit" -> "ended"
                          [] OTHER -> "C")
        /\ pipe' = [pipe EXCEPT ![state[c]] = Append(@, cmd)]
        /\ typed' = Append(typed, cmd)
        /\ UNCHANGED <<state, performed, reaped>>

\* It stays with the pipe it has written to.
TurnExecutor_Mutant(c) ==
    /\ Goto(c, "to_E", "E")
    /\ UNCHANGED <<state, pipe, typed, performed, reaped>>

TurnExecutor(c) ==
    /\ Goto(c, "to_E", "E")
    /\ state' = [state EXCEPT ![c] = 1 - @]
    /\ UNCHANGED <<pipe, typed, performed, reaped>>

\* An E window takes the next command.
Take_Mutant(c) ==
    LET i == state[c]
        cmd == Head(pipe[i])
    IN  /\ pipe[i] # <<>>
        /\ Goto(c, "E", IF cmd = "swaprole" THEN "C" ELSE "run")
        /\ state' = [state EXCEPT ![c] = IF cmd = "swaprole" THEN 1 - @ ELSE @]
        /\ pipe' = [pipe EXCEPT ![i] = Tail(@)]
        /\ performed' = Append(performed, cmd)
        /\ UNCHANGED <<typed, reaped>>

Take(c) ==
    LET i == state[c]
        cmd == Head(pipe[i])
    IN  /\ pipe[i] # <<>>
        /\ Goto(c, "E", CASE cmd = "swaprole" -> "C"
                          [] cmd = "exit" -> "ended"
                          [] OTHER -> "run")
        /\ state' = [state EXCEPT ![c] = IF cmd = "swaprole" THEN 1 - @ ELSE @]
        /\ pipe' = [pipe EXCEPT ![i] = Tail(@)]
        /\ performed' = Append(performed, cmd)
        /\ UNCHANGED <<typed, reaped>>

\* The program ends, or could not be executed.
ProgramEnds(c) ==
    /\ Goto(c, "run", "E")
    /\ UNCHANGED <<state, pipe, typed, performed, reaped>>

SupervisorWaits ==
    /\ \E c \in Child \ reaped : mode[c] = "ended" /\ reaped' = reaped \cup {c}
    /\ UNCHANGED <<mode, state, pipe, typed, performed>>

Works(c) == TurnExecutor(c) \/ Take(c) \/ ProgramEnds(c)

Next == SupervisorWaits \/ \E c \in Child : Type(c) \/ Works(c)

\* The user need not type; programs end.
Fairness == WF_vars(SupervisorWaits) /\ \A c \in Child : WF_vars(Works(c))

Spec == Init /\ [][Next]_vars /\ Fairness

-----------------------------------------------------------------------------
(* Properties.                                                             *)

\* The two windows never both ask for commands, while one of them has seen a
\* swaprole and the other has not (CSE.c:121-138, 174-220); and no pipe holds
\* more than it can.
OneCommander == TypeOK /\ ~(\A c \in Child : mode[c] = "C")

\* Over any number of swaps the commands are carried out in the order typed,
\* each of them once and in the end all of them: no window reads what it has
\* written itself, and none of what was written before a swap is lost or
\* overtaken (CSE.c:99-106, 150-157).
Log == INSTANCE CommandLog

ImplementsLog == Log!Spec

\* After exit both windows end and the supervisor with them, whatever is still
\* in the pipe (CSE.c:65-84, 125, 178).
ExitEndsAll ==
    (typed # <<>> /\ typed[Len(typed)] = "exit") ~> (reaped = Child)
=============================================================================
