--------------------------- MODULE HarnessProofs ---------------------------
(* Theorems about Harness: the JTAG server of remote_bitbang.cc, called     *)
(* from the loop of sim_main.cc, implements the link of JtagLink, whichever *)
(* commands the debugger uses and however much the socket holds; it serves  *)
(* the debugger only when the program is loaded; every register keeps its   *)
(* type; and the characters of the serial line pass in both directions.     *)
EXTENDS Harness, SequenceTheorems, TLAPS

\* The invariant.  Outside of the evaluation the processor has seen the pins;
\* while a client is served the pins are those the server was told; while an
\* answer is on its way out it is the TDO of the last evaluation.  Without a
\* connection nothing is left to read.
LinkInv ==
    /\ pc \in {"loop", "finish", "jtag", "send", "eval", "exited", "aborted"}
    /\ pins \in PinCmds /\ pad \in PinCmds /\ padSeen \in PinCmds
    /\ tdo \in {0, 1} /\ padTdo \in {0, 1} /\ fd \in BOOLEAN
    /\ toServer \in Seq(Cmds) /\ toClient \in Seq({0, 1})
    /\ pc # "eval" => padSeen = pad
    /\ fd => pins = pad /\ conn # "none"
    /\ conn = "none" => toServer = <<>>
    /\ pc = "send" => fd /\ tdo = padTdo

LEMMA LinkInvInit == Init => LinkInv
<1> SUFFICES ASSUME Init PROVE LinkInv
  OBVIOUS
<1>1. "7" \in PinCmds /\ <<>> \in Seq(Cmds) /\ <<>> \in Seq({0, 1})
  BY HarnessAssumption
<1>2. pc = "loop" /\ pins = "7" /\ tdo = 0 /\ fd = FALSE
      /\ pad \in PinCmds /\ padSeen = pad /\ padTdo \in {0, 1}
      /\ toServer = <<>> /\ toClient = <<>>
  BY DEF Init, ServerInit
<1> QED BY <1>1, <1>2 DEF LinkInv

----------------------------------------------------------------------------
(* The actions that leave the link's own variables alone, or end it. *)

LEMMA DriveKeeps == ASSUME LinkInv, Drive PROVE LinkInv'
  BY DEF LinkInv, Drive, jtag, sock

LEMMA EndsKeeps ==
    ASSUME LinkInv, NEW how \in {"exited", "aborted"}, ProcessEnds(how), pc # "eval"
    PROVE  LinkInv'
  BY DEF LinkInv, ProcessEnds, jtag, sock

LEMMA EvalKeeps == ASSUME LinkInv, Eval PROVE LinkInv'
  BY DEF LinkInv, Eval, sock

LEMMA DebuggerKeeps == ASSUME LinkInv, Debugger PROVE LinkInv'
<1>1. CASE Connect
  BY <1>1 DEF LinkInv, Connect, sim, jtag
<1>2. CASE SendCmd
  <2>1. PICK c \in Cmds : toServer' = Append(toServer, c)
    BY <1>2 DEF SendCmd
  <2> QED BY <1>2, <2>1 DEF LinkInv, SendCmd, sim, jtag
<1>3. CASE ReadAnswer
  BY <1>3 DEF LinkInv, ReadAnswer, sim, jtag
<1>4. CASE ClientClose
  BY <1>4 DEF LinkInv, ClientClose, sim, jtag
<1> QED BY <1>1, <1>2, <1>3, <1>4 DEF Debugger

----------------------------------------------------------------------------
(* The server. *)

LEMMA AcceptKeeps == ASSUME LinkInv, Accept PROVE LinkInv'
  BY DEF LinkInv, Accept, TickReturns, sock

LEMMA ExecuteKeeps == ASSUME LinkInv, Execute PROVE LinkInv'
<1> DEFINE c == Head(toServer)
<1>1. c \in Cmds /\ Tail(toServer) \in Seq(Cmds)
  <2>1. toServer \in Seq(Cmds) /\ toServer # <<>>
    BY DEF LinkInv, Execute
  <2> QED BY <2>1
<1>2. /\ pc = "jtag" /\ fd /\ tdo' = padTdo /\ padTdo' = padTdo /\ padSeen' = padSeen
      /\ pins' = IF c \in PinCmds THEN c ELSE pins
      /\ pins' \in PinCmds
  BY DEF LinkInv, Execute
<1>3. CASE c = "R"
  <2>1. pins' = pins /\ pc' = "send" /\ toServer' = Tail(toServer)
        /\ pad' = pad /\ fd' = fd /\ conn' = conn /\ toClient' = toClient
    BY <1>3, HarnessAssumption DEF Execute
  <2> QED BY <1>1, <1>2, <2>1 DEF LinkInv
<1>4. CASE c # "R"
  <2>1. pc' = "eval" /\ pad' = pins' /\ CloseIfQuit(Tail(toServer), toClient)
        /\ (~quit' => conn' = conn)
    BY <1>4 DEF Execute, TickReturns
  <2>2. CASE quit'
    <3>1. <<>> \in Seq(Cmds) /\ <<>> \in Seq({0, 1})
      OBVIOUS
    <3>2. fd' = FALSE /\ toServer' = <<>> /\ toClient' \in {toClient, <<>>}
      BY <2>1, <2>2 DEF CloseIfQuit
    <3> QED BY <1>2, <2>1, <3>1, <3>2 DEF LinkInv
  <2>3. CASE ~quit'
    BY <1>1, <1>2, <2>1, <2>3 DEF LinkInv, CloseIfQuit
  <2> QED BY <2>2, <2>3
<1> QED BY <1>3, <1>4

LEMMA AnswerKeeps == ASSUME LinkInv, Answer PROVE LinkInv'
<1>1. /\ pc' = "eval" /\ pad' = pins' /\ pins' = pins /\ quit' = quit
      /\ CloseIfQuit(toServer, Append(toClient, tdo))
      /\ padSeen' = padSeen /\ padTdo' = padTdo /\ tdo' = tdo /\ fd
  BY DEF LinkInv, Answer, TickReturns
<1>2. Append(toClient, tdo) \in Seq({0, 1})
  BY DEF LinkInv
<1>3. CASE quit
  <2>1. <<>> \in Seq(Cmds) /\ <<>> \in Seq({0, 1})
    OBVIOUS
  <2>2. fd' = FALSE /\ toServer' = <<>> /\ toClient' \in {Append(toClient, tdo), <<>>}
    BY <1>1, <1>3 DEF CloseIfQuit
  <2> QED BY <1>1, <1>2, <2>1, <2>2 DEF LinkInv
<1>4. CASE ~quit
  BY <1>1, <1>2, <1>4 DEF LinkInv, CloseIfQuit, Answer
<1> QED BY <1>3, <1>4

LEMMA LinkInvStep == LinkInv /\ [Next]_vars => LinkInv'
<1> SUFFICES ASSUME LinkInv, [Next]_vars PROVE LinkInv'
  OBVIOUS
<1>1. CASE Drive
  BY <1>1, DriveKeeps
<1>2. CASE LoadFails
  BY <1>2, EndsKeeps DEF LoadFails
<1>3. CASE Exit
  BY <1>3, EndsKeeps DEF Exit
<1>4. CASE Eval
  BY <1>4, EvalKeeps
<1>5. CASE Accept
  BY <1>5, AcceptKeeps
<1>6. CASE Execute
  BY <1>6, ExecuteKeeps
<1>7. CASE Answer
  BY <1>7, AnswerKeeps
<1>8. CASE Abort
  BY <1>8, EndsKeeps DEF Abort
<1>9. CASE Debugger
  BY <1>9, DebuggerKeeps
<1>10. CASE Spin \/ UNCHANGED vars
  BY <1>10 DEF Spin, vars, sim, jtag, sock, LinkInv
<1> QED BY <1>1, <1>2, <1>3, <1>4, <1>5, <1>6, <1>7, <1>8, <1>9, <1>10 DEF Next, Simulator

----------------------------------------------------------------------------
(* Every step is a step of the link, or none of its business. *)

Queue == IF Ended THEN <<>> ELSE IF pc = "send" THEN <<"R">> \o toServer ELSE toServer

LEMMA EndsIsDie ==
    ASSUME LinkInv, NEW how \in {"exited", "aborted"}, ProcessEnds(how)
    PROVE  Link!Die
  BY DEF ProcessEnds, Link!Die, Ended, jtag, sock

LEMMA EvalIsEvaluate == ASSUME LinkInv, Eval PROVE Link!Evaluate
<1>1. pc = "eval" /\ pc' \in {"loop", "finish"} /\ UNCHANGED <<fd, toServer, toClient, pad>>
      /\ padSeen' = pad /\ padTdo' \in {0, 1}
  BY DEF Eval, sock
<1>2. ~Ended /\ ~Ended'
  BY <1>1 DEF Ended
<1> QED BY <1>1, <1>2 DEF Link!Evaluate

LEMMA AcceptIsAttach == ASSUME LinkInv, Accept PROVE Link!Attach
<1>1. pc = "jtag" /\ pc' = "eval" /\ ~fd /\ fd' /\ pad' \in PinCmds
      /\ UNCHANGED <<toServer, toClient, padSeen, padTdo>>
  BY DEF LinkInv, Accept, TickReturns, sock
<1>2. ~Ended /\ ~Ended'
  BY <1>1 DEF Ended
<1> QED BY <1>1, <1>2 DEF Link!Attach, LinkInv

\* A command other than 'R' takes effect at once, and may end the connection.
LEMMA ExecuteIsEffect ==
    ASSUME LinkInv, Execute, Head(toServer) # "R"
    PROVE  Link!Effect \/ Link!Detach
<1>1. /\ pc = "jtag" /\ pc' = "eval" /\ fd /\ toServer # <<>>
      /\ pins' = IF Head(toServer) \in PinCmds THEN Head(toServer) ELSE pins
      /\ pad' = pins' /\ padSeen' = padSeen /\ padTdo' = padTdo
      /\ CloseIfQuit(Tail(toServer), toClient)
  BY DEF Execute, TickReturns
<1>2. ~Ended /\ ~Ended' /\ pins = pad /\ padSeen = pad
  BY <1>1 DEF Ended, LinkInv
<1>3. Link!HeadTakesEffect
  BY <1>1, <1>2 DEF Link!HeadTakesEffect
<1>4. CASE quit'
  <2>1. ~fd' /\ toServer' = <<>> /\ toClient' \in {<<>>, toClient}
    BY <1>1, <1>4 DEF CloseIfQuit
  <2> QED BY <1>1, <1>2, <1>3, <2>1 DEF Link!Detach, Link!Answered
<1>5. CASE ~quit'
  <2>1. fd' = fd /\ toServer' = Tail(toServer) /\ toClient' = toClient
    BY <1>1, <1>5 DEF CloseIfQuit
  <2> QED BY <1>1, <1>2, <1>3, <2>1 DEF Link!Effect, Link!Answered
<1> QED BY <1>4, <1>5

\* 'R' takes effect when its answer is written.
LEMMA ExecuteIsStutter ==
    ASSUME LinkInv, Execute, Head(toServer) = "R"
    PROVE  UNCHANGED Link!vars
<1>1. /\ pc = "jtag" /\ pc' = "send" /\ toServer' = Tail(toServer) /\ toServer # <<>>
      /\ UNCHANGED <<pad, fd, toClient, padSeen, padTdo>>
  BY DEF Execute
<1>2. ~Ended /\ ~Ended'
  BY <1>1 DEF Ended
<1>3. <<"R">> \o Tail(toServer) = toServer
  BY <1>1 DEF LinkInv
<1> QED BY <1>1, <1>2, <1>3 DEF Link!vars

LEMMA AnswerIsEffect == ASSUME LinkInv, Answer PROVE Link!Effect \/ Link!Detach
<1>1. /\ pc = "send" /\ pc' = "eval" /\ fd /\ pins' = pins /\ pad' = pins'
      /\ padSeen' = padSeen /\ padTdo' = padTdo /\ quit' = quit
      /\ CloseIfQuit(toServer, Append(toClient, tdo))
  BY DEF LinkInv, Answer, TickReturns
<1>2. ~Ended /\ ~Ended' /\ pins = pad /\ padSeen = pad /\ tdo = padTdo
  BY <1>1 DEF Ended, LinkInv
<1>3. Queue = <<"R">> \o toServer /\ Queue # <<>> /\ Head(Queue) = "R" /\ Tail(Queue) = toServer
  BY <1>1, <1>2 DEF Queue, LinkInv
<1>4. "R" \notin PinCmds
  BY HarnessAssumption
<1>5. Link!HeadTakesEffect
  BY <1>1, <1>2, <1>3, <1>4 DEF Link!HeadTakesEffect, Queue
<1>6. CASE quit
  <2>1. ~fd' /\ toServer' = <<>> /\ toClient' \in {<<>>, Append(toClient, padTdo)}
    BY <1>1, <1>2, <1>6 DEF CloseIfQuit
  <2> QED BY <1>1, <1>2, <1>3, <1>5, <2>1 DEF Link!Detach, Link!Answered, Queue
<1>7. CASE ~quit
  <2>1. fd' = fd /\ toServer' = toServer /\ toClient' = Append(toClient, padTdo)
    BY <1>1, <1>2, <1>7 DEF CloseIfQuit
  <2> QED BY <1>1, <1>2, <1>3, <1>5, <2>1 DEF Link!Effect, Link!Answered, Queue
<1> QED BY <1>6, <1>7

LEMMA DebuggerIsLink == ASSUME LinkInv, Debugger PROVE Link!Next
<1>0. ~Ended /\ ~Ended' /\ UNCHANGED <<pc, pad, padSeen, padTdo, fd>>
  BY DEF Debugger, Connect, SendCmd, ReadAnswer, ClientClose, Ended, sim, jtag
<1>1. CASE Connect
  <2>1. toServer' = toServer /\ toClient' = <<>>
    BY <1>1 DEF Connect, LinkInv
  <2> QED BY <1>0, <2>1 DEF Link!Next, Link!Leave
<1>2. CASE SendCmd
  <2>1. PICK c \in Cmds : toServer' = Append(toServer, c)
    BY <1>2 DEF SendCmd
  <2>2. Queue' = Append(Queue, c)
    BY <1>0, <2>1 DEF Queue, LinkInv, Cmds
  <2>3. Link!Send
    BY <1>0, <1>2, <2>2 DEF Link!Send, Queue, Cmds, SendCmd
  <2> QED BY <2>3 DEF Link!Next
<1>3. CASE ReadAnswer
  BY <1>0, <1>3 DEF ReadAnswer, Link!Next, Link!Receive
<1>4. CASE ClientClose
  BY <1>0, <1>4 DEF ClientClose, Link!Next, Link!Leave
<1> QED BY <1>1, <1>2, <1>3, <1>4 DEF Debugger

LEMMA LinkStep == LinkInv /\ [Next]_vars => [Link!Next]_(Link!vars)
<1> SUFFICES ASSUME LinkInv, [Next]_vars PROVE [Link!Next]_(Link!vars)
  OBVIOUS
<1>1. CASE Drive
  <2>1. pc = "loop" /\ pc' \in {"jtag", "eval"}
    BY <1>1 DEF Drive
  <2> QED BY <1>1, <2>1 DEF Drive, Link!vars, Ended, jtag, sock
<1>2. CASE LoadFails \/ Exit \/ Abort
  <2>1. PICK how \in {"exited", "aborted"} : ProcessEnds(how)
    BY <1>2 DEF LoadFails, Exit, Abort
  <2> QED BY <2>1, EndsIsDie DEF Link!Next
<1>3. CASE Eval
  BY <1>3, EvalIsEvaluate DEF Link!Next
<1>4. CASE Accept
  BY <1>4, AcceptIsAttach DEF Link!Next
<1>5. CASE Execute
  BY <1>5, ExecuteIsEffect, ExecuteIsStutter DEF Link!Next
<1>6. CASE Answer
  BY <1>6, AnswerIsEffect DEF Link!Next
<1>7. CASE Debugger
  BY <1>7, DebuggerIsLink
<1>8. CASE Spin \/ UNCHANGED vars
  BY <1>8 DEF Spin, vars, sim, jtag, sock, Link!vars, Ended
<1> QED BY <1>1, <1>2, <1>3, <1>4, <1>5, <1>6, <1>7, <1>8 DEF Next, Simulator

LEMMA LinkInitial == Init => Link!Init
  BY HarnessAssumption DEF Init, ServerInit, Link!Init, Ended

\* Pipelined commands, quits, closed connections and the retries inside
\* accept and execute_command never reorder or lose an effect: what the
\* debugger sees of the simulator is a behaviour of JtagLink.
THEOREM LinkRefined == Spec => LinkSpec
<1>1. Spec => []LinkInv
  BY LinkInvInit, LinkInvStep, PTL DEF Spec
<1> QED BY <1>1, LinkInitial, LinkStep, PTL DEF Spec, LinkSpec, Link!Spec

----------------------------------------------------------------------------
(* The counters of the main loop.  The JTAG counter is the number of        *)
(* multiples of four below the tick counter, so that each window is where   *)
(* it should be in terms of the other; the load happens between the counts  *)
(* 19 and 20, which nothing passes twice.                                   *)

Behind(n) == tick \in n - 3 .. n

ClockInv ==
    /\ pc \in {"loop", "finish", "jtag", "send", "eval", "exited", "aborted"}
    /\ tick \in 0 .. TickTop /\ jtick \in 0 .. JtagTop
    /\ rst \in {0, 1} /\ trst \in {0, 1} /\ fd \in BOOLEAN
    /\ loads = IF jtick >= 20 THEN 1 ELSE 0
    /\ jtick > 0 => trst = ResetLevel(jtick)
    /\ jtick > 20 => rst = 1
    /\ pc \in {"jtag", "send"} \/ fd => jtick > 20
    /\ pc = "loop" => Behind(4 * jtick) \/ (jtick = JtagTop /\ tick >= 84)
    /\ pc \in {"jtag", "send", "eval"} =>
          Behind(4 * jtick - 1) \/ (jtick = JtagTop /\ tick >= 84)

LEMMA Remainder ==
    ASSUME NEW n \in Nat, NEW k \in Nat, n \in 4 * k - 3 .. 4 * k
    PROVE  (n % 4 = 0) <=> (n = 4 * k)
  OBVIOUS

LEMMA ClockInit == Init => ClockInv
<1> SUFFICES ASSUME Init PROVE ClockInv
  OBVIOUS
<1>1. /\ pc = "loop" /\ tick = 0 /\ jtick = 0 /\ loads = 0 /\ fd = FALSE
      /\ rst \in {0, 1} /\ trst \in {0, 1}
  BY DEF Init, ServerInit
<1>2. Behind(4 * jtick)
  BY <1>1 DEF Behind
<1>3. tick \in 0 .. TickTop /\ jtick \in 0 .. JtagTop
  BY <1>1 DEF TickTop, JtagTop
<1>4. loads = IF jtick >= 20 THEN 1 ELSE 0
  BY <1>1
<1>5. ~(jtick > 0) /\ ~(jtick > 20)
  BY <1>1
<1> QED BY <1>1, <1>2, <1>3, <1>4, <1>5 DEF ClockInv

\* What a turn of the loop makes of the JTAG counter.
LEMMA CountUp ==
    ASSUME ClockInv, pc = "loop"
    PROVE  /\ JtagCount \in {jtick, jtick + 1} /\ JtagCount \in 1 .. JtagTop
           /\ tick \in 4 * JtagCount - 4 .. 4 * JtagCount - 1
                 \/ (JtagCount = JtagTop /\ tick >= 84)
<1>1. tick \in 0 .. 85 /\ jtick \in 0 .. 22
  BY DEF ClockInv, TickTop, JtagTop
<1>2. CASE Behind(4 * jtick)
  <2>1. (tick % 4 = 0) <=> (tick = 4 * jtick)
    BY <1>1, <1>2, Remainder DEF Behind
  <2> QED BY <1>1, <1>2, <2>1 DEF JtagCount, Behind, JtagTop
<1>3. CASE jtick = JtagTop /\ tick >= 84
  BY <1>1, <1>3 DEF JtagCount, JtagTop
<1> QED BY <1>2, <1>3 DEF ClockInv

LEMMA DriveClock == ASSUME ClockInv, Drive PROVE ClockInv'
<1>1. /\ pc = "loop" /\ tick' = tick /\ fd' = fd /\ jtick' = JtagCount
      /\ rst' = ResetLevel(tick) /\ trst' = ResetLevel(JtagCount)
      /\ loads' = IF LoadDue THEN loads + 1 ELSE loads
      /\ pc' \in {"jtag", "eval"} /\ (pc' = "jtag" => JtagCount > 20)
  BY DEF Drive, jtag
<1>2. /\ JtagCount \in {jtick, jtick + 1} /\ JtagCount \in 1 .. 22
      /\ tick \in 4 * JtagCount - 4 .. 4 * JtagCount - 1
            \/ (JtagCount = JtagTop /\ tick >= 84)
  BY <1>1, CountUp DEF JtagTop
<1>3. tick \in 0 .. 85 /\ jtick \in 0 .. 22 /\ trst \in {0, 1}
  BY DEF ClockInv, TickTop, JtagTop
<1>4. rst' \in {0, 1} /\ trst' \in {0, 1} /\ (JtagCount > 20 => rst' = 1)
  BY <1>1, <1>2, <1>3 DEF ResetLevel, JtagTop
<1>5. loads' = IF JtagCount >= 20 THEN 1 ELSE 0
  <2>1. loads = IF jtick >= 20 THEN 1 ELSE 0
    BY DEF ClockInv
  <2>2. jtick > 0 => trst = ResetLevel(jtick)
    BY DEF ClockInv
  <2>3. CASE jtick >= 20
    <3>1. trst = 1
      BY <1>3, <2>2, <2>3 DEF ResetLevel
    <3> QED BY <1>1, <1>2, <1>3, <2>1, <2>3, <3>1 DEF LoadDue
  <2>4. CASE jtick = 19
    <3>1. trst = 0
      BY <2>2, <2>4 DEF ResetLevel
    <3> QED BY <1>1, <1>2, <2>1, <2>4, <3>1 DEF LoadDue
  <2>5. CASE jtick < 19
    BY <1>1, <1>2, <1>3, <2>1, <2>5 DEF LoadDue
  <2> QED BY <1>3, <2>3, <2>4, <2>5
<1>6. fd => JtagCount > 20
  BY <1>2, <1>3 DEF ClockInv
<1>7. tick' \in 4 * jtick' - 4 .. 4 * jtick' - 1 \/ (jtick' = JtagTop /\ tick' >= 84)
  BY <1>1, <1>2
<1>8. Behind(4 * jtick - 1)' \/ (jtick' = JtagTop /\ tick' >= 84)
  BY <1>1, <1>2, <1>3, <1>7 DEF Behind
<1>9. fd \in BOOLEAN
  BY DEF ClockInv
<1> QED BY <1>1, <1>2, <1>3, <1>4, <1>5, <1>6, <1>8, <1>9 DEF ClockInv, TickTop, JtagTop

LEMMA EvalClock == ASSUME ClockInv, Eval PROVE ClockInv'
<1>1. /\ pc = "eval" /\ pc' \in {"loop", "finish"}
      /\ tick' = IF tick = TickTop THEN TickTop - 1 ELSE tick + 1
      /\ UNCHANGED <<jtick, rst, trst, loads, fd>>
  BY DEF Eval
<1>2. tick \in 0 .. 85 /\ jtick \in 0 .. 22
  BY DEF ClockInv, TickTop, JtagTop
<1>3. tick' \in 0 .. 85
  BY <1>1, <1>2 DEF TickTop
<1>4. Behind(4 * jtick)' \/ (jtick' = JtagTop /\ tick' >= 84)
  BY <1>1, <1>2 DEF ClockInv, Behind, TickTop, JtagTop
<1> QED BY <1>1, <1>2, <1>3, <1>4 DEF ClockInv, ResetLevel, TickTop, JtagTop

\* The server and the end of the process touch no counter; a client is
\* accepted only where the server runs.
LEMMA OthersClock ==
    ASSUME ClockInv, UNCHANGED <<tick, jtick, rst, trst, loads>>,
           fd' \in BOOLEAN, fd' => fd \/ pc = "jtag",
           pc' = pc \/ pc' \in {"exited", "aborted"}
             \/ (pc \in {"jtag", "send"} /\ pc' \in {"send", "eval"})
    PROVE  ClockInv'
  BY DEF ClockInv, Behind, ResetLevel

LEMMA ClockStep == LinkInv /\ ClockInv /\ [Next]_vars => ClockInv'
<1> SUFFICES ASSUME LinkInv, ClockInv, [Next]_vars PROVE ClockInv'
  OBVIOUS
<1>0. LinkInv' /\ fd' \in BOOLEAN /\ fd \in BOOLEAN
  BY LinkInvStep DEF LinkInv
<1>1. CASE Drive
  BY <1>1, DriveClock
<1>2. CASE LoadFails \/ Exit \/ Abort
  BY <1>0, <1>2, OthersClock DEF LoadFails, Exit, Abort, ProcessEnds, jtag
<1>3. CASE Eval
  BY <1>3, EvalClock
<1>4. CASE Accept
  BY <1>0, <1>4, OthersClock DEF Accept, TickReturns
<1>5. CASE Execute
  BY <1>0, <1>5, OthersClock DEF Execute, TickReturns, CloseIfQuit
<1>6. CASE Answer
  BY <1>0, <1>6, OthersClock DEF Answer, TickReturns, CloseIfQuit
<1>7. CASE Debugger
  BY <1>0, <1>7, OthersClock DEF Debugger, Connect, SendCmd, ReadAnswer, ClientClose, sim, jtag
<1>8. CASE Spin \/ UNCHANGED vars
  BY <1>0, <1>8, OthersClock DEF Spin, vars, sim, jtag
<1> QED BY <1>1, <1>2, <1>3, <1>4, <1>5, <1>6, <1>7, <1>8 DEF Next, Simulator

LEMMA LoadFirstFollows == ClockInv => LoadFirst
  BY DEF ClockInv, LoadFirst, ResetLevel, JtagTop

\* Whatever the debugger does, the simulator serves it only when both resets
\* are over and the program has been loaded, exactly once.
THEOREM LoadsFirst == Spec => []LoadFirst
<1>1. Spec => []LinkInv
  BY LinkInvInit, LinkInvStep, PTL DEF Spec
<1>2. Spec => []ClockInv
  BY <1>1, ClockInit, ClockStep, PTL DEF Spec
<1> QED BY <1>2, LoadFirstFollows, PTL

----------------------------------------------------------------------------
(* Types.  The console's counters and shift registers first. *)

Half == BaudCounts \div 2

LEMMA HalfBit == Half \in 0 .. BaudCounts
  BY UartAssumption DEF Half

LEMMA BitsTail ==
    ASSUME NEW n \in Nat, NEW b \in Bits(n), b # <<>>
    PROVE  Tail(b) \in Bits(n) /\ Head(b) \in {0, 1}
  BY DEF Bits

LEMMA BitsAppend ==
    ASSUME NEW n \in Nat, NEW b \in Bits(n), Len(b) # n, NEW x \in {0, 1}
    PROVE  Append(b, x) \in Bits(n)
  BY DEF Bits

LEMMA BitsEmpty == ASSUME NEW n \in Nat PROVE <<>> \in Bits(n)
  BY DEF Bits

\* A character framed by a start and a stop bit.
LEMMA BitsFrame ==
    ASSUME NEW c \in Char, NEW x \in {0, 1}
    PROVE  <<0>> \o c \o <<x>> \in Bits(CharBits + 2)
<1>1. CharBits \in Nat
  BY UartAssumption
<1>2. c \in Seq({0, 1}) /\ Len(c) = CharBits
  BY <1>1 DEF Char
<1>3. <<0>> \in Seq({0, 1}) /\ Len(<<0>>) = 1 /\ <<x>> \in Seq({0, 1}) /\ Len(<<x>>) = 1
  OBVIOUS
<1>4. <<0>> \o c \in Seq({0, 1}) /\ Len(<<0>> \o c) = CharBits + 1
  BY <1>1, <1>2, <1>3
<1>5. <<0>> \o c \o <<x>> \in Seq({0, 1}) /\ Len(<<0>> \o c \o <<x>>) = CharBits + 2
  BY <1>1, <1>3, <1>4
<1> QED BY <1>1, <1>5 DEF Bits

LEMMA HearType ==
    ASSUME NEW c \in ConsoleType, NEW x \in {0, 1}
    PROVE  Hear(c, x) \in ConsoleType
<1>1. CharBits \in Nat /\ BaudCounts \in Nat \ {0, 1} /\ Half \in 0 .. BaudCounts
  BY UartAssumption, HalfBit
<1>2. /\ c.rx \in {"RXIDLE", "RXDATA"} /\ c.rxBaud \in 0 .. 2 * BaudCounts
      /\ c.rxData \in Bits(CharBits)
  BY DEF ConsoleType, Counter
<1>3. CASE c.rx = "RXIDLE"
  <2>1. BaudCounts + Half - 1 \in 0 .. 2 * BaudCounts
    BY <1>1
  <2> QED BY <1>1, <1>3, <2>1, BitsEmpty DEF Hear, Half, ConsoleType, Counter
<1>4. CASE c.rx # "RXIDLE" /\ c.rxBaud > 0
  <2>1. c.rxBaud - 1 \in 0 .. 2 * BaudCounts
    BY <1>1, <1>2, <1>4
  <2> QED BY <1>4, <2>1 DEF Hear, ConsoleType, Counter
<1>5. CASE c.rx # "RXIDLE" /\ ~(c.rxBaud > 0) /\ Puts(c)
  BY <1>1, <1>5, BitsEmpty DEF Hear, ConsoleType
<1>6. CASE c.rx # "RXIDLE" /\ ~(c.rxBaud > 0) /\ ~Puts(c)
  <2>1. c.rx = "RXDATA" /\ c.rxBaud = 0
    BY <1>1, <1>2, <1>6
  <2>2. Append(c.rxData, x) \in Bits(CharBits)
    BY <1>1, <1>2, <1>6, <2>1, BitsAppend DEF Puts
  <2>3. BaudCounts - 1 \in 0 .. 2 * BaudCounts
    BY <1>1
  <2> QED BY <1>6, <2>2, <2>3 DEF Hear, ConsoleType, Counter
<1> QED BY <1>3, <1>4, <1>5, <1>6

\* A transmitter that is busy has a bit left.
Busy(c) == c.tx = "TXDATA" => c.txData # <<>>

LEMMA TypeType ==
    ASSUME NEW c \in ConsoleType, Busy(c), NEW key \in Char \cup {NoKey}
    PROVE  Type(c, key) \in ConsoleType /\ Busy(Type(c, key))
<1>1. CharBits + 2 \in Nat /\ BaudCounts \in Nat \ {0, 1}
  BY UartAssumption
<1>2. /\ c.tx \in {"TXIDLE", "TXDATA"} /\ c.txBaud \in 0 .. 2 * BaudCounts
      /\ c.txData \in Bits(CharBits + 2)
  BY DEF ConsoleType, Counter
<1>3. BaudCounts - 1 \in 0 .. 2 * BaudCounts
  BY <1>1
<1>4. CASE c.tx = "TXIDLE"
  <2>1. CASE key = NoKey
    BY <1>4, <2>1 DEF Type, Busy
  <2>2. CASE key # NoKey
    <3>1. Frame(key) \in Bits(CharBits + 2) /\ Frame(key) # <<>>
      BY <2>2, BitsFrame, UartAssumption DEF Frame, Char
    <3>2. Type(c, key) = [c EXCEPT !.tx = "TXDATA", !.txData = Frame(key),
                                   !.txBaud = BaudCounts - 1]
      BY <1>4, <2>2 DEF Type
    <3> QED BY <1>3, <3>1, <3>2 DEF ConsoleType, Counter, Busy
  <2> QED BY <2>1, <2>2
<1>5. CASE c.tx # "TXIDLE" /\ c.txBaud > 0
  <2>1. c.txBaud - 1 \in 0 .. 2 * BaudCounts
    BY <1>1, <1>2, <1>5
  <2> QED BY <1>5, <2>1 DEF Type, ConsoleType, Counter, Busy
<1>6. CASE c.tx # "TXIDLE" /\ ~(c.txBaud > 0)
  <2>1. c.txData # <<>> /\ c.txData \in Seq({0, 1})
    BY <1>2, <1>6 DEF Busy, Bits
  <2>2. Tail(c.txData) \in Bits(CharBits + 2)
    BY <1>1, <1>2, <2>1, BitsTail
  <2>3. Len(c.txData) # 1 => Tail(c.txData) # <<>>
    <3>1. ASSUME NEW b \in Seq({0, 1}), b # <<>>, Len(b) # 1 PROVE Tail(b) # <<>>
      <4>1. Len(b) \in Nat /\ Len(b) # 0 /\ Len(Tail(b)) = Len(b) - 1
        BY <3>1
      <4> QED BY <4>1, <3>1
    <3> QED BY <2>1, <3>1
  <2>4. CASE Len(c.txData) = 1
    <3>1. Type(c, key) = [c EXCEPT !.txData = Tail(c.txData), !.tx = "TXIDLE", !.txBaud = c.txBaud]
      BY <1>6, <2>4 DEF Type
    <3> QED BY <1>2, <2>2, <3>1 DEF ConsoleType, Counter, Busy
  <2>5. CASE Len(c.txData) # 1
    <3>1. Type(c, key) = [c EXCEPT !.txData = Tail(c.txData), !.tx = c.tx, !.txBaud = BaudCounts - 1]
      BY <1>6, <2>5 DEF Type
    <3> QED BY <1>2, <1>3, <2>2, <2>3, <2>5, <3>1 DEF ConsoleType, Counter, Busy
  <2> QED BY <2>4, <2>5
<1> QED BY <1>4, <1>5, <1>6

SocStates == [ch : Char \cup {NoKey}, left : Bits(CharBits + 2), cnt : 0 .. SocBit]

LEMMA SocType == ASSUME soc \in SocStates, NEW t \in SocNext PROVE t \in SocStates
<1>1. CharBits + 2 \in Nat /\ SocBit \in Nat \ {0}
  BY UartAssumption, HarnessAssumption
<1>2. CASE soc.left # <<>>
  <2>1. soc.left \in Bits(CharBits + 2) /\ Tail(soc.left) \in Bits(CharBits + 2)
    BY <1>1, <1>2, BitsTail DEF SocStates
  <2>2. soc.cnt \in 0 .. SocBit
    BY DEF SocStates
  <2>3. CASE soc.cnt > 1
    <3>1. t = [soc EXCEPT !.cnt = soc.cnt - 1] /\ soc.cnt - 1 \in 0 .. SocBit
      BY <1>1, <1>2, <2>2, <2>3 DEF SocNext
    <3> QED BY <3>1 DEF SocStates
  <2>4. CASE ~(soc.cnt > 1)
    <3> DEFINE n == IF Len(soc.left) = 1 THEN 0 ELSE SocBit
    <3>1. t = [soc EXCEPT !.left = Tail(soc.left), !.cnt = n] /\ n \in 0 .. SocBit
      BY <1>1, <1>2, <2>4 DEF SocNext
    <3> QED BY <2>1, <3>1 DEF SocStates
  <2> QED BY <2>3, <2>4
<1>3. CASE soc.left = <<>>
  <2> DEFINE Sent(c) == [ch |-> c, left |-> <<0>> \o c \o <<1>>, cnt |-> SocBit]
  <2>1. t = soc \/ \E c \in Chars : t = Sent(c)
    BY <1>3 DEF SocNext
  <2>2. ASSUME NEW c \in Chars, t = Sent(c)
        PROVE  t \in SocStates
    <3>1. c \in Char
      BY HarnessAssumption
    <3>2. <<0>> \o c \o <<1>> \in Bits(CharBits + 2)
      BY <3>1, BitsFrame
    <3>3. SocBit \in 0 .. SocBit
      BY <1>1
    <3> QED BY <2>2, <3>1, <3>2, <3>3 DEF SocStates
  <2> QED BY <2>1, <2>2
<1> QED BY <1>2, <1>3

TypeInv == TypeOK /\ Busy(console)

LEMMA TypeInit == Init => TypeInv
<1> SUFFICES ASSUME Init PROVE TypeInv
  OBVIOUS
<1>1. CharBits \in Nat /\ CharBits + 2 \in Nat /\ BaudCounts \in Nat /\ SocBit \in Nat
      /\ SockCap \in Nat /\ "7" \in PinCmds
  BY UartAssumption, HarnessAssumption
<1>2. ConsoleInit \in ConsoleType /\ Busy(ConsoleInit)
  BY <1>1, BitsEmpty DEF ConsoleInit, ConsoleType, Counter, Busy
<1>3. SocIdle \in SocStates
  BY <1>1, BitsEmpty DEF SocIdle, SocStates
<1>4. <<>> \in Seq(Cmds) /\ <<>> \in Seq({0, 1}) /\ Len(<<>>) = 0
  OBVIOUS
<1>5. /\ build \in Builds /\ pc = "loop" /\ tick \in 0 .. TickTop /\ jtick \in 0 .. JtagTop
      /\ loads \in {0, 1} /\ rst \in {0, 1} /\ trst \in {0, 1}
      /\ pad \in PinCmds /\ padSeen \in PinCmds /\ padTdo \in {0, 1}
  BY DEF Init, TickTop, JtagTop
<1>6. /\ pins \in PinCmds /\ tdo \in {0, 1} /\ quit \in BOOLEAN /\ fd \in BOOLEAN
      /\ conn = "none" /\ toServer = <<>> /\ toClient = <<>>
  BY <1>1 DEF Init, ServerInit
<1>7. console \in ConsoleType /\ Busy(console) /\ soc \in SocStates
      /\ said = NoKey /\ puts = 0 /\ typed = NoKey /\ age = 0
  BY <1>2, <1>3 DEF Init
<1> QED BY <1>1, <1>4, <1>5, <1>6, <1>7 DEF TypeInv, TypeOK, SocStates

\* The serial line; the other registers are typed by LinkInv and ClockInv.
UartType ==
    /\ console \in ConsoleType /\ Busy(console) /\ soc \in SocStates
    /\ said \in Char \cup {NoKey} /\ puts \in 0 .. 2
    /\ typed \in Char \cup {NoKey} /\ age \in Nat

SockType ==
    /\ build \in Builds /\ quit \in BOOLEAN
    /\ conn \in {"none", "open", "closed", "reset"}
    /\ Len(toServer) <= SockCap /\ Len(toClient) <= SockCap

LEMMA TypeParts == LinkInv /\ ClockInv /\ UartType /\ SockType => TypeInv
<1> SUFFICES ASSUME LinkInv, ClockInv, UartType, SockType PROVE TypeInv
  OBVIOUS
<1>1. loads \in {0, 1}
  BY DEF ClockInv
<1> QED BY <1>1 DEF LinkInv, ClockInv, UartType, SockType, TypeInv, TypeOK, SocStates

LEMMA SplitType == TypeInv => UartType /\ SockType
  BY DEF TypeInv, TypeOK, UartType, SockType, SocStates

LEMMA ConsoleStepType ==
    ASSUME UartType, NEW x \in {0, 1}, NEW key \in Char \cup {NoKey},
           soc' \in SocStates, ConsoleStep(x, key)
    PROVE  UartType'
<1>1. console' \in ConsoleType /\ Busy(console')
  <2>1. Hear(console, x) \in ConsoleType /\ Busy(Hear(console, x))
    BY HearType DEF UartType, Hear, Busy, ConsoleType
  <2> QED BY <2>1, TypeType DEF ConsoleStep
<1>2. said' \in Char \cup {NoKey} /\ puts' \in 0 .. 2
  <2>1. CASE Puts(console)
    <3>1. console.rxData \in Char
      BY <2>1, UartAssumption DEF UartType, Puts, ConsoleType, Bits, Char
    <3>2. puts' = IF puts < 2 THEN puts + 1 ELSE puts
      BY <2>1 DEF ConsoleStep
    <3> QED BY <2>1, <3>1, <3>2 DEF ConsoleStep, UartType
  <2>2. CASE ~Puts(console)
    BY <2>2 DEF ConsoleStep, UartType
  <2> QED BY <2>1, <2>2
<1>3. typed' \in Char \cup {NoKey} /\ age' \in Nat
  BY DEF ConsoleStep, UartType
<1> QED BY <1>1, <1>2, <1>3 DEF UartType

LEMMA SocLineBit == ASSUME UartType, Eval PROVE soc' \in SocStates /\ SocLine(soc') \in {0, 1}
<1>1. soc' \in SocStates
  BY SocType DEF Eval, UartType
<1>2. CharBits + 2 \in Nat /\ soc'.left \in Bits(CharBits + 2)
  BY <1>1, UartAssumption DEF SocStates
<1> QED BY <1>1, <1>2, BitsTail DEF SocLine

LEMMA EvalType == ASSUME UartType, Eval PROVE UartType'
<1>1. soc' \in SocStates
  BY SocLineBit
<1>2. CASE "UART" \in build /\ tick > 80
  <2>1. PICK key \in Keys \cup {NoKey} : ConsoleStep(SocLine(soc'), key)
    BY <1>2 DEF Eval
  <2>2. key \in Char \cup {NoKey}
    BY HarnessAssumption
  <2>3. SocLine(soc') \in {0, 1}
    BY SocLineBit
  <2> QED BY <1>1, <2>1, <2>2, <2>3, ConsoleStepType
<1>3. CASE ~("UART" \in build /\ tick > 80)
  BY <1>1, <1>3 DEF Eval, UartType
<1> QED BY <1>2, <1>3

LEMMA EndsType ==
    ASSUME SockType, NEW how, ProcessEnds(how) PROVE UartType' /\ SockType'
<1>1. CharBits \in Nat /\ CharBits + 2 \in Nat /\ BaudCounts \in Nat /\ SocBit \in Nat
  BY UartAssumption, HarnessAssumption
<1>2. ConsoleInit \in ConsoleType /\ Busy(ConsoleInit)
  BY <1>1, BitsEmpty DEF ConsoleInit, ConsoleType, Counter, Busy
<1>3. SocIdle \in SocStates
  BY <1>1, BitsEmpty DEF SocIdle, SocStates
<1> QED BY <1>2, <1>3 DEF ProcessEnds, UartType, SockType, jtag, sock

LEMMA ServerType ==
    ASSUME LinkInv, UartType, SockType, Accept \/ Execute \/ Answer
    PROVE  UartType' /\ SockType'
<1>1. UartType' /\ build' = build
  BY DEF Accept, Execute, Answer, UartType, uart
<1>2. SockCap \in Nat /\ toServer \in Seq(Cmds) /\ toClient \in Seq({0, 1}) /\ Len(<<>>) = 0
  BY HarnessAssumption DEF LinkInv
<1>3. CASE Accept
  <2>1. UNCHANGED <<quit, conn, toServer, toClient>>
    BY <1>3 DEF Accept, sock
  <2> QED BY <1>1, <2>1 DEF SockType
<1>4. CASE Execute
  <2>1. Len(Tail(toServer)) <= SockCap
    BY <1>2, <1>4 DEF Execute, SockType
  <2>2. quit' \in BOOLEAN /\ conn' \in {"none", "open", "closed", "reset"}
    BY <1>4 DEF Execute, SockType, CloseIfQuit
  <2>3. toServer' \in {Tail(toServer), <<>>} /\ toClient' \in {toClient, <<>>}
    BY <1>4 DEF Execute, CloseIfQuit
  <2>4. Len(toServer') <= SockCap
    <3>1. CASE toServer' = <<>>
      BY <1>2, <3>1
    <3>2. CASE toServer' = Tail(toServer)
      BY <2>1, <3>2
    <3> QED BY <2>3, <3>1, <3>2
  <2>5. Len(toClient') <= SockCap
    <3>1. CASE toClient' = <<>>
      BY <1>2, <3>1
    <3>2. CASE toClient' = toClient
      BY <3>2 DEF SockType
    <3> QED BY <2>3, <3>1, <3>2
  <2> QED BY <1>1, <2>2, <2>4, <2>5 DEF SockType
<1>5. CASE Answer
  <2>1. Len(Append(toClient, tdo)) <= SockCap
    BY <1>2, <1>5 DEF Answer
  <2>2. quit' \in BOOLEAN /\ conn' \in {"none", "open", "closed", "reset"}
    BY <1>5 DEF Answer, SockType, CloseIfQuit
  <2>3. toServer' \in {toServer, <<>>} /\ toClient' \in {Append(toClient, tdo), <<>>}
    BY <1>5 DEF Answer, CloseIfQuit
  <2> QED BY <1>1, <1>2, <2>1, <2>2, <2>3 DEF SockType
<1> QED BY <1>3, <1>4, <1>5

LEMMA DebuggerType ==
    ASSUME LinkInv, UartType, SockType, Debugger PROVE UartType' /\ SockType'
<1>1. UartType' /\ build' = build /\ quit' = quit
  BY DEF Debugger, Connect, SendCmd, ReadAnswer, ClientClose, UartType, uart, sim, jtag
<1>2. SockCap \in Nat /\ toServer \in Seq(Cmds) /\ toClient \in Seq({0, 1}) /\ Len(<<>>) = 0
  BY HarnessAssumption DEF LinkInv
<1>3. CASE Connect
  <2>1. conn' = "open" /\ toServer' = <<>> /\ toClient' = <<>>
    BY <1>3 DEF Connect
  <2> QED BY <1>1, <1>2, <2>1 DEF SockType
<1>4. CASE SendCmd
  <2>1. PICK c \in Cmds : toServer' = Append(toServer, c)
    BY <1>4 DEF SendCmd
  <2>2. Len(toServer') <= SockCap
    BY <1>2, <1>4, <2>1 DEF SendCmd
  <2> QED BY <1>1, <1>4, <2>2 DEF SendCmd, SockType
<1>5. CASE ReadAnswer
  <2>1. Len(toClient') <= SockCap
    BY <1>2, <1>5 DEF ReadAnswer, SockType
  <2> QED BY <1>1, <1>5, <2>1 DEF ReadAnswer, SockType
<1>6. CASE ClientClose
  BY <1>1, <1>2, <1>6 DEF ClientClose, SockType
<1> QED BY <1>3, <1>4, <1>5, <1>6 DEF Debugger

LEMMA TypeStep ==
    LinkInv /\ UartType /\ SockType /\ [Next]_vars => (UartType /\ SockType)'
<1> SUFFICES ASSUME LinkInv, UartType, SockType, [Next]_vars PROVE UartType' /\ SockType'
  OBVIOUS
<1>1. CASE Drive \/ Spin \/ UNCHANGED vars
  BY <1>1 DEF Drive, Spin, vars, sim, jtag, sock, uart, UartType, SockType
<1>2. CASE LoadFails \/ Exit \/ Abort
  BY <1>2, EndsType DEF LoadFails, Exit, Abort
<1>3. CASE Eval
  BY <1>3, EvalType DEF Eval, SockType, sock
<1>4. CASE Accept \/ Execute \/ Answer
  BY <1>4, ServerType
<1>5. CASE Debugger
  BY <1>5, DebuggerType
<1> QED BY <1>1, <1>2, <1>3, <1>4, <1>5 DEF Next, Simulator

LEMMA UartTyped == Spec => [](UartType /\ SockType)
<1>1. Spec => []LinkInv
  BY LinkInvInit, LinkInvStep, PTL DEF Spec
<1> QED BY <1>1, TypeInit, SplitType, TypeStep, PTL DEF Spec

\* The registers of the simulator, of its server and of its console keep their
\* types: no shift register grows past its character, no buffer past its size.
THEOREM TypeCorrect == Spec => []TypeOK
<1>1. Spec => []LinkInv
  BY LinkInvInit, LinkInvStep, PTL DEF Spec
<1>2. Spec => []ClockInv
  BY <1>1, ClockInit, ClockStep, PTL DEF Spec
<1>3. Spec => [](UartType /\ SockType)
  BY UartTyped
<1>4. TypeInv => TypeOK
  BY DEF TypeInv
<1> QED BY <1>1, <1>2, <1>3, <1>4, TypeParts, PTL

----------------------------------------------------------------------------
(* The character being typed.  Its age counts the ticks; of these, a bit     *)
(* time for each bit of the frame that has been shifted out, and the rest is *)
(* what the bit counter has counted down.                                    *)

LEMMA NextMultiple ==
    ASSUME NEW a \in Nat, NEW s \in Nat PROVE (a + 1) * s = a * s + s /\ a * s \in Nat
  OBVIOUS

LEMMA Quotient ==
    ASSUME NEW a \in Nat, NEW s \in Nat \ {0}, NEW r \in 0 .. s - 1
    PROVE  (a * s + r) \div s = a
  OBVIOUS

LEMMA Remaining ==
    ASSUME NEW n \in Nat, NEW l \in 1 .. n + 2
    PROVE  n + 2 - l \in 0 .. n + 1 /\ (l # 1 => l - 1 \in 1 .. n + 2)
  OBVIOUS

Played == CharBits + 2 - Len(console.txData)

TypedInv ==
    console.tx = "TXDATA" =>
        /\ typed \in Char /\ Len(console.txData) \in 1 .. CharBits + 2
        /\ console.txBaud \in 0 .. BaudCounts - 1
        /\ age = Played * BaudCounts + (BaudCounts - 1 - console.txBaud)
        /\ \A i \in 1 .. Len(console.txData) : console.txData[i] = Frame(typed)[Played + i]

\* Between characters the shift register is empty.
IdleInv == console.tx = "TXIDLE" => console.txData = <<>>

\* A framed character: its bits between the start bit and the last bit.
LEMMA FrameBits ==
    ASSUME NEW c \in Char, NEW x \in {0, 1}
    PROVE  /\ Len(<<0>> \o c \o <<x>>) = CharBits + 2
           /\ <<0>> \o c \o <<x>> \in Seq({0, 1})
           /\ (<<0>> \o c \o <<x>>)[1] = 0 /\ (<<0>> \o c \o <<x>>)[CharBits + 2] = x
           /\ \A i \in 1 .. CharBits : (<<0>> \o c \o <<x>>)[i + 1] = c[i]
<1>1. CharBits \in Nat
  BY UartAssumption
<1>2. c \in Seq({0, 1}) /\ Len(c) = CharBits
  BY <1>1 DEF Char
<1>3. <<0>> \in Seq({0, 1}) /\ Len(<<0>>) = 1 /\ <<x>> \in Seq({0, 1}) /\ Len(<<x>>) = 1
  OBVIOUS
<1>4. /\ <<0>> \o c \in Seq({0, 1}) /\ Len(<<0>> \o c) = CharBits + 1
      /\ (<<0>> \o c)[1] = 0 /\ \A i \in 1 .. CharBits : (<<0>> \o c)[i + 1] = c[i]
  BY <1>1, <1>2, <1>3
<1>5. ASSUME NEW f \in Seq({0, 1}), Len(f) = CharBits + 1
      PROVE  /\ f \o <<x>> \in Seq({0, 1}) /\ Len(f \o <<x>>) = CharBits + 2
             /\ (f \o <<x>>)[CharBits + 2] = x
             /\ \A i \in 1 .. CharBits + 1 : (f \o <<x>>)[i] = f[i]
  BY <1>1, <1>3, <1>5
<1> QED BY <1>1, <1>4, <1>5

\* The two halves of operator() leave each other alone.
LEMMA HearKeepsTx ==
    ASSUME NEW c \in ConsoleType, NEW x
    PROVE  /\ Hear(c, x).tx = c.tx /\ Hear(c, x).txBaud = c.txBaud
           /\ Hear(c, x).txData = c.txData
  BY DEF Hear, ConsoleType

LEMMA TypeKeepsRx ==
    ASSUME NEW c \in ConsoleType, NEW key
    PROVE  /\ Type(c, key).rx = c.rx /\ Type(c, key).rxBaud = c.rxBaud
           /\ Type(c, key).rxData = c.rxData
  BY DEF Type, ConsoleType

LEMMA ConsoleStepTyped ==
    ASSUME UartType, TypedInv, NEW x \in {0, 1}, NEW key \in Char \cup {NoKey},
           console.tx = "TXDATA" => key = NoKey, ConsoleStep(x, key)
    PROVE  TypedInv'
<1> DEFINE h == Hear(console, x)
<1>1. CharBits \in Nat \ {0} /\ BaudCounts \in Nat \ {0, 1}
  BY UartAssumption
<1>2. /\ h \in ConsoleType /\ h.tx = console.tx /\ h.txBaud = console.txBaud
      /\ h.txData = console.txData
  BY HearType, HearKeepsTx DEF UartType
<1>3. console' = Type(h, key) /\ console \in ConsoleType
  BY DEF ConsoleStep, UartType
<1>4. console.tx \in {"TXIDLE", "TXDATA"}
  BY <1>3 DEF ConsoleType
<1> HIDE DEF h
<1> SUFFICES ASSUME console'.tx = "TXDATA" PROVE TypedInv'
  BY DEF TypedInv
<1>5. CASE console.tx = "TXIDLE"
  <2>1. key # NoKey
    BY <1>2, <1>3, <1>5 DEF Type
  <2>2. typed' = key /\ age' = 0
    BY <1>5, <2>1 DEF ConsoleStep
  <2>3. console'.txData = Frame(key) /\ console'.txBaud = BaudCounts - 1
    BY <1>2, <1>3, <1>5, <2>1 DEF Type, ConsoleType
  <2>4. key \in Char /\ Len(Frame(key)) = CharBits + 2
    BY <2>1, FrameBits DEF Frame
  <2>5. Played' = 0 /\ Len(console'.txData) = CharBits + 2
    BY <1>1, <2>3, <2>4 DEF Played
  <2>6. age' = Played' * BaudCounts + (BaudCounts - 1 - console'.txBaud)
    BY <1>1, <2>2, <2>3, <2>5
  <2>7. ASSUME NEW i \in 1 .. Len(console'.txData)
        PROVE  console'.txData[i] = Frame(typed')[Played' + i]
    <3>1. Played' + i = i
      BY <1>1, <2>5
    <3> QED BY <2>2, <2>3, <3>1
  <2> QED BY <1>1, <2>2, <2>3, <2>4, <2>5, <2>6, <2>7 DEF TypedInv
<1>6. CASE console.tx = "TXDATA"
  <2>0. /\ typed \in Char /\ Len(console.txData) \in 1 .. CharBits + 2
        /\ console.txBaud \in 0 .. BaudCounts - 1
        /\ age = Played * BaudCounts + (BaudCounts - 1 - console.txBaud)
        /\ \A i \in 1 .. Len(console.txData) : console.txData[i] = Frame(typed)[Played + i]
    BY <1>6 DEF TypedInv
  <2>1. typed' = typed /\ age' = age + 1
    BY <1>6 DEF ConsoleStep
  <2>2. Played \in 0 .. CharBits + 1
    <3>1. Len(console.txData) \in 1 .. CharBits + 2
      BY <2>0
    <3> QED BY <1>1, <3>1, Remaining DEF Played
  <2>3. CASE console.txBaud > 0
    <3>1. console'.txData = console.txData /\ console'.txBaud = console.txBaud - 1
      BY <1>2, <1>3, <1>6, <2>3 DEF Type, ConsoleType
    <3>2. Played' = Played
      BY <3>1 DEF Played
    <3>3. Played * BaudCounts \in Nat
      BY <1>1, <2>2, NextMultiple
    <3>4. age' = Played' * BaudCounts + (BaudCounts - 1 - console'.txBaud)
      BY <1>1, <2>0, <2>1, <3>1, <3>2, <3>3
    <3>5. console'.txBaud \in 0 .. BaudCounts - 1
      BY <1>1, <2>0, <2>3, <3>1
    <3> QED BY <2>0, <2>1, <3>1, <3>2, <3>4, <3>5 DEF TypedInv
  <2>4. CASE ~(console.txBaud > 0)
    <3>1. console.txBaud = 0
      BY <1>1, <2>0, <2>4
    <3>2. Len(console.txData) # 1
      BY <1>2, <1>3, <1>6, <3>1 DEF Type, ConsoleType
    <3>3. console'.txData = Tail(console.txData) /\ console'.txBaud = BaudCounts - 1
      BY <1>2, <1>3, <1>6, <3>1, <3>2 DEF Type, ConsoleType
    <3>4. console.txData \in Seq({0, 1})
      BY <1>3 DEF ConsoleType, Bits
    <3>5. /\ Len(console'.txData) = Len(console.txData) - 1
          /\ \A i \in 1 .. Len(console'.txData) : console'.txData[i] = console.txData[i + 1]
      BY <1>1, <2>0, <3>2, <3>3, <3>4
    <3>6. Played' = Played + 1
      BY <1>1, <2>0, <3>5 DEF Played
    <3>7. age' = Played' * BaudCounts + (BaudCounts - 1 - console'.txBaud)
      <4>1. (Played + 1) * BaudCounts = Played * BaudCounts + BaudCounts
            /\ Played * BaudCounts \in Nat
        BY <1>1, <2>2, NextMultiple
      <4> HIDE DEF Played
      <4> QED BY <1>1, <2>0, <2>1, <3>1, <3>3, <3>6, <4>1
    <3>8. ASSUME NEW i \in 1 .. Len(console'.txData)
          PROVE  console'.txData[i] = Frame(typed')[Played' + i]
      <4>1. i + 1 \in 1 .. Len(console.txData) /\ Played' + i = Played + (i + 1)
        BY <1>1, <2>0, <2>2, <3>5, <3>6
      <4>2. console.txData[i + 1] = Frame(typed)[Played + (i + 1)]
        BY <2>0, <4>1
      <4> QED BY <2>1, <3>5, <4>1, <4>2
    <3>9. Len(console'.txData) \in 1 .. CharBits + 2
      <4>1. Len(console.txData) \in 1 .. CharBits + 2
        BY <2>0
      <4>2. Len(console'.txData) = Len(console.txData) - 1
        BY <3>5
      <4> QED BY <1>1, <3>2, <4>1, <4>2, Remaining
    <3> QED BY <1>1, <2>0, <2>1, <3>3, <3>7, <3>8, <3>9 DEF TypedInv
  <2> QED BY <2>3, <2>4
<1> QED BY <1>4, <1>5, <1>6

\* The shift register is empty when the busy counter says that it is.
LEMMA ConsoleStepIdle ==
    ASSUME UartType, IdleInv, NEW x \in {0, 1}, NEW key, ConsoleStep(x, key)
    PROVE  IdleInv'
<1> DEFINE h == Hear(console, x)
<1>1. /\ h \in ConsoleType /\ h.tx = console.tx /\ h.txData = console.txData
  BY HearType, HearKeepsTx DEF UartType
<1>2. console' = Type(h, key)
  BY DEF ConsoleStep
<1> HIDE DEF h
<1>3. CASE h.tx = "TXIDLE"
  BY <1>1, <1>2, <1>3 DEF Type, IdleInv, ConsoleType
<1>4. CASE h.tx = "TXDATA"
  <2>1. SUFFICES ASSUME console'.tx = "TXIDLE" PROVE console'.txData = <<>>
    BY DEF IdleInv
  <2>2. Len(h.txData) = 1 /\ console'.txData = Tail(h.txData)
    BY <1>1, <1>2, <1>4, <2>1 DEF Type, ConsoleType
  <2>3. h.txData \in Seq({0, 1})
    BY <1>1 DEF ConsoleType, Bits
  <2> DEFINE r == h.txData
  <2>4. r \in Seq({0, 1}) /\ Len(r) = 1
    BY <2>2, <2>3
  <2> HIDE DEF r
  <2>5. Tail(r) \in Seq({0, 1}) /\ Len(Tail(r)) = 0
    BY <2>4
  <2>6. Tail(r) = <<>>
    BY <2>5, EmptySeq
  <2> QED BY <2>2, <2>6 DEF r
<1>5. h.tx \in {"TXIDLE", "TXDATA"}
  BY <1>1 DEF ConsoleType
<1> QED BY <1>3, <1>4, <1>5

LEMMA TypedInit == Init => TypedInv /\ IdleInv
  BY DEF Init, ConsoleInit, TypedInv, IdleInv

LEMMA TypedStep == UartType /\ TypedInv /\ IdleInv /\ [Next]_vars => TypedInv' /\ IdleInv'
<1> SUFFICES ASSUME UartType, TypedInv, IdleInv, [Next]_vars PROVE TypedInv' /\ IdleInv'
  OBVIOUS
<1>1. CASE UNCHANGED uart
  BY <1>1 DEF uart, TypedInv, IdleInv, Played
<1>2. CASE LoadFails \/ Exit \/ Abort
  BY <1>2 DEF LoadFails, Exit, Abort, ProcessEnds, ConsoleInit, TypedInv, IdleInv
<1>3. CASE Eval
  <2>1. CASE "UART" \in build /\ tick > 80
    <3>1. PICK key \in Keys \cup {NoKey} :
              (console.tx = "TXDATA" => key = NoKey) /\ ConsoleStep(SocLine(soc'), key)
      BY <1>3, <2>1 DEF Eval
    <3>2. key \in Char \cup {NoKey}
      BY HarnessAssumption
    <3> QED BY <3>1, <3>2, SocLineBit, <1>3, ConsoleStepTyped, ConsoleStepIdle
  <2>2. CASE ~("UART" \in build /\ tick > 80)
    BY <1>3, <2>2 DEF Eval, TypedInv, IdleInv, Played
  <2> QED BY <2>1, <2>2
<1>4. CASE Drive \/ Spin \/ UNCHANGED vars \/ Accept \/ Execute \/ Answer \/ Debugger
  <2>1. UNCHANGED uart
    BY <1>4 DEF Drive, Spin, vars, Accept, Execute, Answer,
                Debugger, Connect, SendCmd, ReadAnswer, ClientClose, jtag
  <2> QED BY <2>1, <1>1
<1> QED BY <1>2, <1>3, <1>4 DEF Next, Simulator

LEMMA TypedFollows == UartType /\ TypedInv /\ IdleInv => TypedFrame
<1>0. IdleInv /\ console.tx = "TXIDLE" => Line(console) = 1
  BY DEF IdleInv, Line
<1> SUFFICES ASSUME UartType, TypedInv, console.tx = "TXDATA"
             PROVE  LET slot == age \div BaudCounts
                    IN  /\ slot <= CharBits + 1
                        /\ slot \in {0, CharBits + 1} => Line(console) = 0
                        /\ slot \in 1 .. CharBits => Line(console) = typed[slot]
  BY <1>0 DEF TypedFrame
<1>1. CharBits \in Nat \ {0} /\ BaudCounts \in Nat \ {0, 1}
  BY UartAssumption
<1>2. /\ typed \in Char /\ Len(console.txData) \in 1 .. CharBits + 2
      /\ console.txBaud \in 0 .. BaudCounts - 1
      /\ age = Played * BaudCounts + (BaudCounts - 1 - console.txBaud)
      /\ console.txData[1] = Frame(typed)[Played + 1]
  <2>1. /\ typed \in Char /\ Len(console.txData) \in 1 .. CharBits + 2
        /\ console.txBaud \in 0 .. BaudCounts - 1
        /\ age = Played * BaudCounts + (BaudCounts - 1 - console.txBaud)
    BY DEF TypedInv
  <2>2. \A i \in 1 .. Len(console.txData) : console.txData[i] = Frame(typed)[Played + i]
    BY DEF TypedInv
  <2>3. 1 \in 1 .. Len(console.txData)
    BY <1>1, <2>1
  <2> QED BY <2>1, <2>2, <2>3
<1>3. Played \in 0 .. CharBits + 1
  <2>1. Len(console.txData) \in 1 .. CharBits + 2
    BY <1>2
  <2> QED BY <1>1, <2>1, Remaining DEF Played
<1>4. age \div BaudCounts = Played
  <2>1. BaudCounts - 1 - console.txBaud \in 0 .. BaudCounts - 1
    BY <1>1, <1>2
  <2>2. Played \in Nat /\ BaudCounts \in Nat \ {0}
    BY <1>1, <1>3
  <2>3. age = Played * BaudCounts + (BaudCounts - 1 - console.txBaud)
    BY <1>2
  <2>4. ASSUME NEW r \in 0 .. BaudCounts - 1
        PROVE  (Played * BaudCounts + r) \div BaudCounts = Played
    BY <2>2, Quotient
  <2> QED BY <2>1, <2>3, <2>4
<1>5. Line(console) = Frame(typed)[Played + 1]
  <2>1. console.txData \in Seq({0, 1})
    BY DEF UartType, ConsoleType, Bits
  <2> QED BY <1>2, <2>1 DEF Line
<1>6. Frame(typed)[1] = 0 /\ Frame(typed)[CharBits + 2] = 0 /\ \A i \in 1 .. CharBits : Frame(typed)[i + 1] = typed[i]
  BY <1>2, FrameBits DEF Frame
<1> QED BY <1>1, <1>3, <1>4, <1>5, <1>6

\* A typed character is on the line to the SoC as a start bit, each of its
\* bits and a last bit that is low, each for as many ticks as the console was
\* set up for, whatever that number, the width of a character and the SoC's own
\* rate.  The frame has no stop bit: the line is high only after it.
THEOREM KeysAreFramed == Spec => []TypedFrame
<1>1. Spec => [](UartType /\ SockType)
  BY UartTyped
<1>2. Spec => [](TypedInv /\ IdleInv)
  BY <1>1, TypedInit, TypedStep, PTL DEF Spec
<1> QED BY <1>1, <1>2, TypedFollows, PTL

----------------------------------------------------------------------------
(* The character being heard.  Time is counted in ticks since the SoC's      *)
(* start bit; the SoC changes its line at the multiples of SocBit, the       *)
(* console acts for the n-th time at Due(n): it takes bit n of the           *)
(* character, and at the last time it puts the character out.                *)

Past(s) == CharBits + 2 - Len(s.left)
Spent(s) == Past(s) * SocBit + (SocBit - s.cnt)
Due(n) == n * BaudCounts + Half

\* The rates of the two ends agree so far that each of these ticks falls into
\* the bit it is meant for, the last into the stop bit.
RatesAgree ==
    \A n \in 1 .. CharBits + 1 : n * SocBit <= Due(n) /\ Due(n) < (n + 1) * SocBit

SocFrame(c) == <<0>> \o c \o <<1>>

\* The SoC's transmitter is busy.
Sends(s) ==
    /\ s.ch \in Char /\ s.cnt \in 1 .. SocBit
    /\ s.left \in Seq({0, 1}) /\ Len(s.left) \in 1 .. CharBits + 2
    /\ \A i \in 1 .. Len(s.left) : s.left[i] = SocFrame(s.ch)[Past(s) + i]

\* What the console has of the character, and when it will act again.
Hearing(c, s) ==
    /\ Len(c.rxData) <= CharBits
    /\ c.rxBaud = Due(Len(c.rxData) + 1) - 1 - Spent(s)
    /\ \A i \in 1 .. Len(c.rxData) : c.rxData[i] = s.ch[i]

Heard == puts = 1 /\ said = soc.ch

HearInv ==
    /\ soc.left = <<>> => console.rx = "RXIDLE" /\ (soc.ch # NoKey => Heard)
    /\ soc.left # <<>> =>
          /\ tick > 80 /\ "UART" \in build /\ Sends(soc)
          /\ console.rx = "RXDATA" => puts = 0 /\ Hearing(console, soc)
          /\ console.rx = "RXIDLE" => Heard /\ Due(CharBits + 1) <= Spent(soc)

LEMMA MoreBits ==
    ASSUME NEW a \in Nat, NEW b \in Nat, NEW s \in Nat, a < b PROVE (a + 1) * s <= b * s
  OBVIOUS

LEMMA SameBit ==
    ASSUME NEW a \in Nat, NEW b \in Nat, NEW s \in Nat, NEW t \in Nat,
           a * s <= t, t < (a + 1) * s, b * s <= t, t < (b + 1) * s
    PROVE  a = b
<1>1. ASSUME a < b PROVE FALSE
  BY <1>1, MoreBits
<1>2. ASSUME b < a PROVE FALSE
  BY <1>2, MoreBits
<1> QED BY <1>1, <1>2

LEMMA SpentInBit ==
    ASSUME NEW s, Sends(s)
    PROVE  /\ Past(s) \in 0 .. CharBits + 1 /\ Spent(s) \in Nat
           /\ Past(s) * SocBit <= Spent(s) /\ Spent(s) < (Past(s) + 1) * SocBit
<1>1. CharBits \in Nat /\ SocBit \in Nat /\ s.cnt \in 1 .. SocBit
      /\ Len(s.left) \in 1 .. CharBits + 2
  BY UartAssumption, HarnessAssumption DEF Sends
<1>2. Past(s) \in 0 .. CharBits + 1
  BY <1>1, Remaining DEF Past
<1>3. (Past(s) + 1) * SocBit = Past(s) * SocBit + SocBit /\ Past(s) * SocBit \in Nat
  BY <1>1, <1>2, NextMultiple
<1> QED BY <1>1, <1>2, <1>3 DEF Spent

\* The level of the line in the n-th bit time.
LEMMA LineAt ==
    ASSUME NEW s, Sends(s), NEW n \in 0 .. CharBits + 1,
           n * SocBit <= Spent(s), Spent(s) < (n + 1) * SocBit
    PROVE  SocLine(s) = SocFrame(s.ch)[n + 1]
<1>1. CharBits \in Nat /\ SocBit \in Nat
  BY UartAssumption, HarnessAssumption
<1>2. n = Past(s)
  <2>1. /\ Past(s) \in Nat /\ Spent(s) \in Nat /\ n \in Nat
        /\ Past(s) * SocBit <= Spent(s) /\ Spent(s) < (Past(s) + 1) * SocBit
    BY <1>1, SpentInBit
  <2> HIDE DEF Past, Spent
  <2> QED BY <1>1, <2>1, SameBit
<1>3. s.left \in Seq({0, 1}) /\ 1 \in 1 .. Len(s.left) /\ s.left[1] = SocFrame(s.ch)[Past(s) + 1]
  BY <1>1 DEF Sends
<1> QED BY <1>2, <1>3 DEF SocLine

LEMMA LastBit ==
    ASSUME NEW b \in Seq({0, 1}), b # <<>> PROVE (Tail(b) = <<>>) <=> (Len(b) = 1)
<1>1. Tail(b) \in Seq({0, 1}) /\ Len(Tail(b)) = Len(b) - 1 /\ Len(b) \in Nat
  OBVIOUS
<1>2. ASSUME NEW q \in Seq({0, 1}) PROVE (q = <<>>) <=> (Len(q) = 0)
  OBVIOUS
<1>3. (Tail(b) = <<>>) <=> (Len(Tail(b)) = 0)
  BY <1>1, <1>2
<1> QED BY <1>1, <1>3

\* One tick of a busy transmitter: the next tick of the frame, or its end.
LEMMA SocTick ==
    ASSUME Sends(soc), soc \in SocStates, NEW t \in SocNext
    PROVE  /\ t.ch = soc.ch
           /\ t.left # <<>> => Sends(t) /\ Spent(t) = Spent(soc) + 1
           /\ t.left = <<>> => Spent(soc) + 1 = (CharBits + 2) * SocBit
<1>1. /\ CharBits \in Nat /\ SocBit \in Nat \ {0} /\ soc.ch \in Char /\ soc.cnt \in 1 .. SocBit
      /\ soc.left \in Seq({0, 1}) /\ Len(soc.left) \in 1 .. CharBits + 2 /\ soc.left # <<>>
  BY UartAssumption, HarnessAssumption DEF Sends
<1>2. \A i \in 1 .. Len(soc.left) : soc.left[i] = SocFrame(soc.ch)[Past(soc) + i]
  BY DEF Sends
<1>3. Past(soc) \in 0 .. CharBits + 1
  BY SpentInBit
<1>4. /\ (Past(soc) + 1) * SocBit = Past(soc) * SocBit + SocBit
      /\ Past(soc) * SocBit \in Nat
  BY <1>1, <1>3, NextMultiple
<1>5. CASE soc.cnt > 1
  <2>1. t = [soc EXCEPT !.cnt = soc.cnt - 1]
    BY <1>1, <1>5 DEF SocNext
  <2>2. t.ch = soc.ch /\ t.left = soc.left /\ t.cnt = soc.cnt - 1
    BY <2>1 DEF SocStates
  <2>3. Past(t) = Past(soc)
    BY <2>2 DEF Past
  <2>4. Spent(t) = Spent(soc) + 1
    BY <1>1, <1>4, <2>2, <2>3 DEF Spent
  <2>5. t.cnt \in 1 .. SocBit
    BY <1>1, <1>5, <2>2
  <2>6. Sends(t)
    BY <1>1, <1>2, <2>2, <2>3, <2>5 DEF Sends
  <2> QED BY <1>1, <2>2, <2>4, <2>6
<1>6. CASE ~(soc.cnt > 1)
  <2>1. soc.cnt = 1
    BY <1>1, <1>6
  <2>2. t.ch = soc.ch /\ t.left = Tail(soc.left) /\ t.cnt = IF Len(soc.left) = 1 THEN 0 ELSE SocBit
    <3>1. t = [soc EXCEPT !.left = Tail(soc.left), !.cnt = IF Len(soc.left) = 1 THEN 0 ELSE SocBit]
      BY <1>1, <1>6 DEF SocNext
    <3> QED BY <3>1 DEF SocStates
  <2>3. Tail(soc.left) \in Seq({0, 1}) /\ Len(Tail(soc.left)) = Len(soc.left) - 1
        /\ \A i \in 1 .. Len(soc.left) - 1 : Tail(soc.left)[i] = soc.left[i + 1]
    BY <1>1
  <2>4. Spent(soc) + 1 = (Past(soc) + 1) * SocBit
    BY <1>1, <1>4, <2>1 DEF Spent
  <2>5. CASE Len(soc.left) = 1
    <3>1. t.left = <<>>
      BY <1>1, <2>2, <2>5, LastBit
    <3>2. Past(soc) + 1 = CharBits + 2
      BY <1>1, <2>5 DEF Past
    <3> QED BY <2>2, <2>4, <3>1, <3>2
  <2>6. CASE Len(soc.left) # 1
    <3>0. Len(t.left) = Len(soc.left) - 1 /\ Len(t.left) \in 1 .. CharBits + 2
      BY <1>1, <2>2, <2>3, <2>6, Remaining
    <3>1. Len(t.left) = Len(soc.left) - 1 /\ Len(t.left) \in 1 .. CharBits + 2 /\ t.left # <<>>
      BY <1>1, <2>2, <2>6, <3>0, LastBit
    <3>2. Past(t) = Past(soc) + 1
      BY <1>1, <3>1 DEF Past
    <3>3. t.cnt = SocBit
      BY <2>2, <2>6
    <3>4. Spent(t) = Spent(soc) + 1
      BY <1>1, <1>4, <2>4, <3>2, <3>3 DEF Spent
    <3>5. ASSUME NEW i \in 1 .. Len(t.left)
          PROVE  t.left[i] = SocFrame(t.ch)[Past(t) + i]
      <4>1. i + 1 \in 1 .. Len(soc.left) /\ i \in 1 .. Len(soc.left) - 1
            /\ Past(t) + i = Past(soc) + (i + 1)
        BY <1>1, <1>3, <3>1, <3>2
      <4> QED BY <1>2, <2>2, <2>3, <4>1
    <3>6. Sends(t)
      BY <1>1, <2>2, <2>3, <3>1, <3>3, <3>5 DEF Sends
    <3> QED BY <2>2, <3>1, <3>4, <3>6
  <2> QED BY <2>5, <2>6
<1> QED BY <1>5, <1>6

\* The n-th act of the console comes in the n-th bit time of the frame.
LEMMA DueInBit ==
    ASSUME RatesAgree, NEW n \in 0 .. CharBits
    PROVE  /\ Due(n + 1) \in Nat /\ Due(n + 2) = Due(n + 1) + BaudCounts
           /\ (n + 1) * SocBit <= Due(n + 1) /\ Due(n + 1) < (n + 2) * SocBit
<1>1. CharBits \in Nat /\ BaudCounts \in Nat /\ Half \in Nat /\ n + 1 \in 1 .. CharBits + 1
  BY UartAssumption, HalfBit
<1>2. (n + 1) * SocBit <= Due(n + 1) /\ Due(n + 1) < ((n + 1) + 1) * SocBit
  BY <1>1 DEF RatesAgree
<1>3. (n + 1) + 1 = n + 2 /\ n + 1 \in Nat
  BY <1>1
<1>4. ((n + 1) + 1) * BaudCounts = (n + 1) * BaudCounts + BaudCounts /\ (n + 1) * BaudCounts \in Nat
  BY <1>1, <1>3, NextMultiple
<1>5. Due(n + 1) \in Nat /\ Due(n + 2) = Due(n + 1) + BaudCounts
  BY <1>1, <1>3, <1>4 DEF Due
<1> QED BY <1>2, <1>3, <1>5

\* What a call of the console makes of the receiver.
LEMMA HearStep ==
    ASSUME console \in ConsoleType, NEW x \in {0, 1}, NEW key, ConsoleStep(x, key)
    PROVE  /\ console.rx = "RXIDLE" /\ x = 1 => console'.rx = "RXIDLE"
           /\ console.rx = "RXIDLE" /\ x = 0 =>
                 /\ console'.rx = "RXDATA" /\ console'.rxData = <<>>
                 /\ console'.rxBaud = BaudCounts + Half - 1
           /\ console.rx = "RXDATA" /\ console.rxBaud > 0 =>
                 /\ console'.rx = "RXDATA" /\ console'.rxData = console.rxData
                 /\ console'.rxBaud = console.rxBaud - 1
           /\ Puts(console) => console'.rx = "RXIDLE"
           /\ console.rx = "RXDATA" /\ console.rxBaud = 0 /\ ~Puts(console) =>
                 /\ console'.rx = "RXDATA" /\ console'.rxData = Append(console.rxData, x)
                 /\ console'.rxBaud = BaudCounts - 1
<1> DEFINE h == Hear(console, x)
<1>1. h \in ConsoleType
  BY HearType
<1>2. console' = Type(h, key)
  BY DEF ConsoleStep
<1>3. console'.rx = h.rx /\ console'.rxBaud = h.rxBaud /\ console'.rxData = h.rxData
  BY <1>1, <1>2, TypeKeepsRx
<1>4. CASE console.rx = "RXIDLE" /\ x = 1
  BY <1>3, <1>4 DEF Hear, Puts
<1>5. CASE console.rx = "RXIDLE" /\ x = 0
  BY <1>3, <1>5 DEF Hear, Puts, ConsoleType, Half
<1>6. CASE console.rx = "RXDATA" /\ console.rxBaud > 0
  BY <1>3, <1>6 DEF Hear, Puts, ConsoleType
<1>7. CASE console.rx = "RXDATA" /\ ~(console.rxBaud > 0)
  <2>1. console.rxBaud \in Nat
    BY UartAssumption DEF ConsoleType, Counter
  <2>2. console.rxBaud = 0
    BY <1>7, <2>1
  <2>3. CASE Puts(console)
    BY <1>3, <1>7, <2>2, <2>3 DEF Hear, ConsoleType
  <2>4. CASE ~Puts(console)
    BY <1>3, <1>7, <2>2, <2>4 DEF Hear, ConsoleType
  <2> QED BY <1>7, <2>2, <2>3, <2>4
<1> QED BY <1>4, <1>5, <1>6, <1>7 DEF ConsoleType

\* The standard output: a character put out is counted, a new one of the SoC
\* starts the count again.
LEMMA PutsStep ==
    ASSUME NEW x, NEW key, ConsoleStep(x, key)
    PROVE  /\ Puts(console) => said' = console.rxData /\ puts' = IF puts < 2 THEN puts + 1 ELSE puts
           /\ ~Puts(console) /\ soc.left = <<>> /\ soc'.left # <<>> => puts' = 0
           /\ ~Puts(console) /\ ~(soc.left = <<>> /\ soc'.left # <<>>) => said' = said /\ puts' = puts
  BY DEF ConsoleStep

\* The SoC rests, or begins a character.
LEMMA HearBegins ==
    ASSUME UartType, HearInv, soc.left = <<>>, soc' \in SocNext, NEW key,
           "UART" \in build' /\ tick' > 80, ConsoleStep(SocLine(soc'), key),
           soc' # soc
    PROVE  HearInv'
<1>1. CharBits \in Nat /\ BaudCounts \in Nat /\ SocBit \in Nat \ {0} /\ Half \in Nat
  BY UartAssumption, HarnessAssumption, HalfBit
<1>2. PICK c \in Chars : soc' = [ch |-> c, left |-> <<0>> \o c \o <<1>>, cnt |-> SocBit]
  BY DEF SocNext
<1>3. c \in Char
  BY HarnessAssumption
<1>4. /\ soc'.ch = c /\ soc'.left = SocFrame(c) /\ soc'.cnt = SocBit
  BY <1>2 DEF SocFrame
<1>5. /\ SocFrame(c) \in Seq({0, 1}) /\ Len(SocFrame(c)) = CharBits + 2 /\ SocFrame(c)[1] = 0
  BY <1>3, FrameBits DEF SocFrame
<1>6. SocFrame(c) # <<>> /\ Head(SocFrame(c)) = 0
  <2>1. ASSUME NEW q \in Seq({0, 1}), NEW n \in Nat, Len(q) = n + 2, q[1] = 0
        PROVE  q # <<>> /\ Head(q) = 0
    BY <2>1
  <2> QED BY <1>1, <1>5, <2>1
<1>7. SocLine(soc') = 0
  BY <1>4, <1>6 DEF SocLine
<1>8. Past(soc') = 0
  BY <1>1, <1>4, <1>5 DEF Past
<1>9. Spent(soc') = 0
  BY <1>1, <1>4, <1>8 DEF Spent
<1>10. Sends(soc')
  <2>1. ASSUME NEW i \in 1 .. Len(soc'.left) PROVE soc'.left[i] = SocFrame(soc'.ch)[Past(soc') + i]
    <3>1. Past(soc') + i = i
      BY <1>8
    <3> QED BY <1>4, <3>1
  <2>2. Len(soc'.left) \in 1 .. CharBits + 2 /\ soc'.cnt \in 1 .. SocBit
    BY <1>1, <1>4, <1>5
  <2> QED BY <1>3, <1>4, <1>5, <2>1, <2>2 DEF Sends
<1>11. console.rx = "RXIDLE" /\ ~Puts(console) /\ console \in ConsoleType
  BY DEF HearInv, Puts, UartType
<1>12. puts' = 0
  BY <1>4, <1>6, <1>11, PutsStep
<1>13. /\ console'.rx = "RXDATA" /\ console'.rxData = <<>>
       /\ console'.rxBaud = BaudCounts + Half - 1
  BY <1>7, <1>11, HearStep
<1>14. Hearing(console', soc')
  <2>1. Len(console'.rxData) = 0 /\ Due(0 + 1) = BaudCounts + Half
    BY <1>1, <1>13 DEF Due
  <2> QED BY <1>1, <1>9, <1>13, <2>1 DEF Hearing
<1> QED BY <1>4, <1>6, <1>10, <1>12, <1>13, <1>14 DEF HearInv

\* The frame goes on: the console waits, takes a bit, puts the character out,
\* or has done so.
LEMMA HearGoesOn ==
    ASSUME RatesAgree, UartType, HearInv, soc.left # <<>>, soc' \in SocNext, NEW key,
           "UART" \in build' /\ tick' > 80, ConsoleStep(SocLine(soc'), key),
           SocLine(soc') \in {0, 1}, soc'.left # <<>>
    PROVE  HearInv'
<1>1. /\ CharBits \in Nat /\ BaudCounts \in Nat /\ SocBit \in Nat \ {0} /\ Half \in Nat
      /\ console \in ConsoleType /\ soc \in SocStates
  BY UartAssumption, HarnessAssumption, HalfBit DEF UartType
<1>2. /\ Sends(soc) /\ (console.rx = "RXDATA" => puts = 0 /\ Hearing(console, soc))
      /\ (console.rx = "RXIDLE" => Heard /\ Due(CharBits + 1) <= Spent(soc))
  BY DEF HearInv
<1>3. soc'.ch = soc.ch /\ Sends(soc') /\ Spent(soc') = Spent(soc) + 1
  BY <1>1, <1>2, SocTick
<1>4. /\ Past(soc') \in 0 .. CharBits + 1 /\ Spent(soc') \in Nat /\ Spent(soc) \in Nat
      /\ Past(soc') * SocBit <= Spent(soc') /\ Spent(soc') < (Past(soc') + 1) * SocBit
  BY <1>2, <1>3, SpentInBit
<1>5. /\ console.rx \in {"RXIDLE", "RXDATA"} /\ console.rxBaud \in Nat
      /\ console.rxData \in Seq({0, 1})
  BY <1>1 DEF ConsoleType, Counter, Bits
<1>6. CASE console.rx = "RXIDLE"
  <2>1. (CharBits + 1) * SocBit <= Due(CharBits + 1) /\ Due(CharBits + 1) \in Nat
        /\ CharBits + 1 \in 0 .. CharBits + 1
    BY <1>1, DueInBit
  <2>2. (CharBits + 1) * SocBit \in Nat
    BY <1>1, NextMultiple
  <2>3. (CharBits + 1) * SocBit <= Spent(soc')
    BY <1>2, <1>3, <1>4, <1>6, <2>1, <2>2
  <2>4. Spent(soc') < ((CharBits + 1) + 1) * SocBit
    <3>1. CASE Past(soc') = CharBits + 1
      BY <1>4, <3>1
    <3>2. CASE Past(soc') < CharBits + 1
      <4>1. (Past(soc') + 1) * SocBit <= (CharBits + 1) * SocBit
        <5>1. Past(soc') \in Nat /\ CharBits + 1 \in Nat /\ SocBit \in Nat
          BY <1>1, <1>4
        <5> QED BY <3>2, <5>1, MoreBits
      <4>2. Spent(soc') < (Past(soc') + 1) * SocBit /\ (Past(soc') + 1) * SocBit \in Nat
        <5>1. Past(soc') \in Nat /\ SocBit \in Nat
          BY <1>1, <1>4
        <5> QED BY <1>4, <5>1, NextMultiple
      <4>3. FALSE
        <5> HIDE DEF Past, Spent
        <5> QED BY <1>4, <2>2, <2>3, <4>1, <4>2
      <4> QED BY <4>3
    <3> QED BY <1>1, <1>4, <3>1, <3>2
  <2>5. SocLine(soc') = SocFrame(soc'.ch)[(CharBits + 1) + 1]
    BY <1>3, <2>1, <2>3, <2>4, LineAt
  <2>6. SocFrame(soc'.ch)[CharBits + 2] = 1 /\ (CharBits + 1) + 1 = CharBits + 2
    <3>1. soc'.ch \in Char /\ 1 \in {0, 1}
      BY <1>3 DEF Sends
    <3>2. SocFrame(soc'.ch)[CharBits + 2] = 1
      BY <3>1, FrameBits, Zenon DEF SocFrame
    <3> QED BY <1>1, <3>2
  <2>7. SocLine(soc') = 1 /\ ~Puts(console)
    BY <1>6, <2>5, <2>6 DEF Puts
  <2>8. console'.rx = "RXIDLE"
    BY <1>1, <1>6, <2>7, HearStep
  <2>9. Heard' /\ Due(CharBits + 1) <= Spent(soc')
    BY <1>2, <1>3, <1>4, <1>6, <2>1, <2>7, PutsStep DEF Heard
  <2> QED BY <1>3, <2>8, <2>9 DEF HearInv
<1>7. CASE console.rx = "RXDATA"
  <2> DEFINE n == Len(console.rxData)
  <2>1. /\ n \in 0 .. CharBits /\ console.rxBaud = Due(n + 1) - 1 - Spent(soc)
        /\ \A i \in 1 .. n : console.rxData[i] = soc.ch[i]
    BY <1>1, <1>2, <1>5, <1>7 DEF Hearing
  <2>2. /\ Due(n + 1) \in Nat /\ Due(n + 2) = Due(n + 1) + BaudCounts
        /\ (n + 1) * SocBit <= Due(n + 1) /\ Due(n + 1) < (n + 2) * SocBit
    BY <2>1, DueInBit
  <2> HIDE DEF n
  <2>3. CASE console.rxBaud > 0
    <3>1. /\ console'.rx = "RXDATA" /\ console'.rxData = console.rxData
          /\ console'.rxBaud = console.rxBaud - 1
      BY <1>1, <1>7, <2>3, HearStep
    <3>2. ~Puts(console)
      BY <1>5, <2>3 DEF Puts
    <3>3. puts' = 0
      BY <1>2, <1>7, <3>2, PutsStep
    <3>4. console'.rxBaud = Due(n + 1) - 1 - Spent(soc')
      BY <1>3, <1>4, <1>5, <2>1, <2>2, <3>1
    <3>5. Hearing(console', soc')
      <4>1. Len(console'.rxData) = n
        BY <3>1 DEF n
      <4> QED BY <1>1, <1>3, <2>1, <3>1, <3>4, <4>1 DEF Hearing
    <3> QED BY <1>3, <3>1, <3>3, <3>5 DEF HearInv
  <2>4. CASE ~(console.rxBaud > 0)
    <3>1. console.rxBaud = 0 /\ Due(n + 1) = Spent(soc')
      BY <1>3, <1>4, <1>5, <2>1, <2>2, <2>4
    <3>2. CASE n = CharBits
      <4>1. Puts(console)
        BY <1>7, <3>1, <3>2 DEF Puts, n
      <4>2. console'.rx = "RXIDLE"
        BY <1>1, <4>1, HearStep
      <4>3. said' = console.rxData /\ puts' = 1
        BY <1>2, <1>7, <4>1, PutsStep
      <4>4. console.rxData = soc.ch
        <5>1. ASSUME NEW q \in Seq({0, 1}), NEW c \in Char, Len(q) = CharBits,
                     \A i \in 1 .. CharBits : q[i] = c[i]
              PROVE  q = c
          BY <1>1, <5>1 DEF Char
        <5>2. soc.ch \in Char
          BY <1>2 DEF Sends
        <5> QED BY <1>5, <2>1, <3>2, <5>1, <5>2 DEF n
      <4>5. Due(CharBits + 1) <= Spent(soc')
        BY <1>4, <3>1, <3>2
      <4> QED BY <1>3, <4>2, <4>3, <4>4, <4>5 DEF HearInv, Heard
    <3>3. CASE n # CharBits
      <4>1. ~Puts(console) /\ n \in 0 .. CharBits - 1
        BY <1>1, <2>1, <3>3 DEF Puts, n
      <4>2. /\ console'.rx = "RXDATA" /\ console'.rxData = Append(console.rxData, SocLine(soc'))
            /\ console'.rxBaud = BaudCounts - 1
        BY <1>1, <1>7, <3>1, <4>1, HearStep
      <4>3. puts' = 0
        BY <1>2, <1>7, <4>1, PutsStep
      <4>4. SocLine(soc') = soc'.ch[n + 1]
        <5>1. n + 1 \in 0 .. CharBits + 1 /\ n + 1 \in 1 .. CharBits /\ (n + 1) + 1 = n + 2
          BY <1>1, <4>1
        <5>2. SocLine(soc') = SocFrame(soc'.ch)[(n + 1) + 1]
          BY <1>3, <2>2, <3>1, <5>1, LineAt
        <5>3. \A i \in 1 .. CharBits : SocFrame(soc'.ch)[i + 1] = soc'.ch[i]
          BY <1>3, FrameBits DEF SocFrame, Sends
        <5> QED BY <5>1, <5>2, <5>3
      <4>5. /\ Len(console'.rxData) = n + 1
            /\ \A i \in 1 .. n : console'.rxData[i] = console.rxData[i]
            /\ console'.rxData[n + 1] = SocLine(soc')
        <5>1. n = Len(console.rxData)
          BY DEF n
        <5> QED BY <1>5, <4>2, <5>1
      <4>6. console'.rxBaud = Due((n + 1) + 1) - 1 - Spent(soc')
        <5>1. (n + 1) + 1 = n + 2
          BY <4>1
        <5> QED BY <1>1, <1>4, <2>2, <3>1, <4>2, <5>1
      <4>7. ASSUME NEW i \in 1 .. n + 1 PROVE console'.rxData[i] = soc'.ch[i]
        <5>1. i \in 1 .. n \/ i = n + 1
          BY <4>1
        <5> QED BY <1>3, <2>1, <4>4, <4>5, <5>1
      <4>8. n + 1 <= CharBits
        BY <1>1, <4>1
      <4>9. Hearing(console', soc')
        BY <4>5, <4>6, <4>7, <4>8 DEF Hearing
      <4> QED BY <1>3, <4>2, <4>3, <4>9 DEF HearInv
    <3> QED BY <3>2, <3>3
  <2> QED BY <2>3, <2>4
<1> QED BY <1>5, <1>6, <1>7

\* The frame has ended: the console has put the character out before.
LEMMA HearEnds ==
    ASSUME RatesAgree, UartType, HearInv, soc.left # <<>>, soc' \in SocNext, NEW key,
           ConsoleStep(SocLine(soc'), key), soc'.left = <<>>
    PROVE  HearInv'
<1>1. /\ CharBits \in Nat /\ SocBit \in Nat \ {0}
      /\ console \in ConsoleType /\ soc \in SocStates
  BY UartAssumption, HarnessAssumption DEF UartType
<1>2. /\ Sends(soc) /\ (console.rx = "RXDATA" => Hearing(console, soc))
      /\ (console.rx = "RXIDLE" => Heard)
  BY DEF HearInv
<1>3. soc'.ch = soc.ch /\ Spent(soc) + 1 = (CharBits + 2) * SocBit
  BY <1>1, <1>2, SocTick
<1>4. /\ console.rx \in {"RXIDLE", "RXDATA"} /\ console.rxBaud \in Nat
      /\ console.rxData \in Seq({0, 1}) /\ Spent(soc) \in Nat
  BY <1>1, <1>2, UartAssumption, SpentInBit DEF ConsoleType, Counter, Bits
<1>5. CASE console.rx = "RXDATA"
  <2> DEFINE n == Len(console.rxData)
  <2>1. n \in 0 .. CharBits /\ console.rxBaud = Due(n + 1) - 1 - Spent(soc)
    BY <1>1, <1>2, <1>4, <1>5 DEF Hearing
  <2> HIDE DEF n
  <2>2. Due(n + 1) \in Nat /\ Due(n + 1) < (n + 2) * SocBit
    BY <2>1, DueInBit
  <2>3. (n + 2) * SocBit <= (CharBits + 2) * SocBit
    <3>1. CASE n = CharBits
      <4>1. (CharBits + 2) * SocBit \in Nat
        BY <1>1, NextMultiple
      <4> QED BY <3>1, <4>1
    <3>2. CASE n < CharBits
      <4>1. n + 1 \in Nat /\ CharBits + 2 \in Nat /\ n + 1 < CharBits + 2 /\ (n + 1) + 1 = n + 2
        BY <1>1, <2>1, <3>2
      <4>2. ((n + 1) + 1) * SocBit <= (CharBits + 2) * SocBit
        BY <1>1, <4>1, MoreBits
      <4> QED BY <4>1, <4>2
    <3> QED BY <1>1, <2>1, <3>1, <3>2
  <2>4. FALSE
    <3>1. (n + 2) * SocBit \in Nat /\ (CharBits + 2) * SocBit \in Nat
      BY <1>1, <2>1, NextMultiple
    <3> QED BY <1>3, <1>4, <2>1, <2>2, <2>3, <3>1
  <2> QED BY <2>4
<1>6. CASE console.rx = "RXIDLE"
  <2>1. SocLine(soc') = 1 /\ ~Puts(console)
    BY <1>6 DEF SocLine, Puts
  <2>2. console'.rx = "RXIDLE"
    BY <1>1, <1>6, <2>1, HearStep
  <2>3. Heard'
    BY <1>2, <1>3, <1>6, <2>1, PutsStep DEF Heard
  <2> QED BY <2>2, <2>3 DEF HearInv
<1> QED BY <1>4, <1>5, <1>6

LEMMA HearRests ==
    ASSUME UartType, HearInv, soc.left = <<>>, soc' = soc, NEW key,
           ConsoleStep(SocLine(soc'), key)
    PROVE  HearInv'
<1>1. SocLine(soc') = 1 /\ console.rx = "RXIDLE" /\ ~Puts(console) /\ console \in ConsoleType
  BY DEF HearInv, SocLine, Puts, UartType
<1>2. console'.rx = "RXIDLE"
  BY <1>1, HearStep
<1>3. said' = said /\ puts' = puts
  BY <1>1, PutsStep
<1> QED BY <1>2, <1>3 DEF HearInv, Heard

LEMMA HearEval ==
    ASSUME RatesAgree, ClockInv, UartType, HearInv, Eval PROVE HearInv'
<1>1. /\ tick \in Nat /\ build' = build /\ (tick > 80 => tick' > 80)
      /\ tick' = IF tick = TickTop THEN TickTop - 1 ELSE tick + 1
  BY DEF Eval, ClockInv, TickTop
<1>2. soc' \in SocNext \/ soc' = soc
  BY DEF Eval
<1>3. CASE "UART" \in build /\ tick > 80
  <2>1. PICK key \in Keys \cup {NoKey} : ConsoleStep(SocLine(soc'), key)
    BY <1>3 DEF Eval
  <2>2. soc' \in SocNext /\ SocLine(soc') \in {0, 1}
    BY <1>3, SocLineBit DEF Eval
  <2>3. "UART" \in build' /\ tick' > 80
    BY <1>1, <1>3
  <2>4. CASE soc.left = <<>>
    BY <2>1, <2>2, <2>3, <2>4, HearBegins, HearRests
  <2>5. CASE soc.left # <<>>
    BY <2>1, <2>2, <2>3, <2>5, HearGoesOn, HearEnds
  <2> QED BY <2>4, <2>5
<1>4. CASE ~("UART" \in build /\ tick > 80)
  <2>1. soc.left = <<>>
    BY <1>4 DEF HearInv
  <2>2. soc' = soc
    BY <1>4, <2>1 DEF Eval, SocNext
  <2>3. UNCHANGED <<console, said, puts>>
    BY <1>4 DEF Eval
  <2> QED BY <2>1, <2>2, <2>3 DEF HearInv, Heard
<1> QED BY <1>3, <1>4

LEMMA HearInit == Init => HearInv
  BY DEF Init, ConsoleInit, SocIdle, HearInv

LEMMA HearInvStep ==
    ASSUME RatesAgree PROVE ClockInv /\ UartType /\ HearInv /\ [Next]_vars => HearInv'
<1> SUFFICES ASSUME ClockInv, UartType, HearInv, [Next]_vars PROVE HearInv'
  OBVIOUS
<1>1. CASE LoadFails \/ Exit \/ Abort
  BY <1>1 DEF LoadFails, Exit, Abort, ProcessEnds, ConsoleInit, SocIdle, HearInv
<1>2. CASE Eval
  BY <1>2, HearEval
<1>3. CASE Drive \/ Spin \/ UNCHANGED vars \/ Accept \/ Execute \/ Answer \/ Debugger
  <2>1. UNCHANGED <<tick, build, uart>>
    BY <1>3 DEF Drive, Spin, vars, Accept, Execute, Answer,
                Debugger, Connect, SendCmd, ReadAnswer, ClientClose, jtag, sim
  <2> QED BY <2>1 DEF uart, HearInv, Heard, Hearing, Sends, Spent, Past
<1> QED BY <1>1, <1>2, <1>3 DEF Next, Simulator

\* Whenever the rate of the SoC's UART is near enough to the console's, the
\* console prints each character the SoC sends, once and as it was sent,
\* however many bits a character has.
THEOREM CharactersHeard == ASSUME RatesAgree PROVE Spec => []ConsoleHears
<1>1. Spec => []LinkInv
  BY LinkInvInit, LinkInvStep, PTL DEF Spec
<1>2. Spec => []ClockInv
  BY <1>1, ClockInit, ClockStep, PTL DEF Spec
<1>3. Spec => [](UartType /\ SockType)
  BY UartTyped
<1>4. ClockInv /\ UartType /\ HearInv /\ [Next]_vars => HearInv'
  BY HearInvStep
<1>5. Spec => []HearInv
  BY <1>2, <1>3, <1>4, HearInit, PTL DEF Spec
<1>6. HearInv => ConsoleHears
  BY DEF HearInv, ConsoleHears, Heard
<1> QED BY <1>5, <1>6, PTL

\* Equal rates agree, at every number of ticks per bit the console can be set
\* up with.
LEMMA EqualRatesAgree == ASSUME SocBit = BaudCounts PROVE RatesAgree
<1> SUFFICES ASSUME NEW n \in 1 .. CharBits + 1
             PROVE  n * SocBit <= Due(n) /\ Due(n) < (n + 1) * SocBit
  BY DEF RatesAgree
<1>1. CharBits \in Nat /\ BaudCounts \in Nat \ {0, 1} /\ n \in Nat
  BY UartAssumption
<1>2. Half \in 0 .. BaudCounts - 1
  BY <1>1 DEF Half
<1>3. (n + 1) * BaudCounts = n * BaudCounts + BaudCounts /\ n * BaudCounts \in Nat
  BY <1>1, NextMultiple
<1> QED BY <1>1, <1>2, <1>3 DEF Due

\* With the divisor the console was set up for, it hears every character.
COROLLARY EqualRatesHeard == ASSUME SocBit = BaudCounts PROVE Spec => []ConsoleHears
  BY EqualRatesAgree, CharactersHeard
=============================================================================
