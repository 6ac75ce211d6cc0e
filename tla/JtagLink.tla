------------------------------ MODULE JtagLink ------------------------------
(* What a debugger relies on when it drives the simulated processor through *)
(* the remote bitbang socket: its commands take effect in the order it sent *)
(* them, the processor sees every value put on the JTAG pins before the     *)
(* next command takes effect, and each answer is the level of TDO after all *)
(* the commands before it.  A connection may end at any time.               *)
EXTENDS Sequences

CONSTANTS PinCmds, OtherCmds

VARIABLES queue,    \* commands sent that have not taken effect
          answers,  \* answers the debugger has not read
          attached, \* a connection is being served
          wires,    \* the pins
          seen,     \* the pins as of the processor's last evaluation
          out       \* TDO as of that evaluation

vars == <<queue, answers, attached, wires, seen, out>>

Init == /\ queue = <<>> /\ answers = <<>> /\ ~attached
        /\ wires \in PinCmds /\ seen \in PinCmds /\ out \in {0, 1}

Send == /\ \E c \in PinCmds \cup {"R"} \cup OtherCmds : queue' = Append(queue, c)
        /\ UNCHANGED <<answers, attached, wires, seen, out>>

\* The oldest command takes effect once the processor has seen the effect of
\* the one before.
HeadTakesEffect ==
    /\ attached /\ queue # <<>> /\ seen = wires
    /\ wires' = IF Head(queue) \in PinCmds THEN Head(queue) ELSE wires
    /\ UNCHANGED <<seen, out>>

Answered == IF Head(queue) = "R" THEN Append(answers, out) ELSE answers

Effect == /\ HeadTakesEffect
          /\ queue' = Tail(queue) /\ answers' = Answered /\ UNCHANGED attached

\* The simulated processor advances.
Evaluate == /\ seen' = wires /\ out' \in {0, 1}
            /\ UNCHANGED <<queue, answers, attached, wires>>

\* A connection is accepted: the server drives the pins from here on.
Attach == /\ ~attached /\ attached' = TRUE /\ wires' \in PinCmds
          /\ UNCHANGED <<queue, answers, seen, out>>

Receive == /\ answers # <<>> /\ answers' = Tail(answers)
           /\ UNCHANGED <<queue, attached, wires, seen, out>>

\* The debugger goes away and reads no more answers.
Leave == answers' = <<>> /\ UNCHANGED <<queue, attached, wires, seen, out>>

\* The server ends the connection after the effect of a last command.  The
\* commands behind it are lost, and perhaps the answers on their way.
Detach == /\ HeadTakesEffect
          /\ queue' = <<>> /\ answers' \in {<<>>, Answered} /\ attached' = FALSE

\* The server's process ends, with what was sent to it.
Die == /\ queue' = <<>> /\ attached' = FALSE
       /\ UNCHANGED <<answers, wires, seen, out>>

Next == Send \/ Effect \/ Evaluate \/ Attach \/ Receive \/ Leave \/ Detach \/ Die

Spec == Init /\ [][Next]_vars
=============================================================================
