------------------------------ MODULE Harness ------------------------------
(* The Verilator simulation of the SoC (sim/sim_main.cc): the main loop,    *)
(* the JTAG server it calls (sim/remote_bitbang.cc), the debugger at the    *)
(* other end of the socket, and the console (UartSim) on the serial line.   *)
(* The loop, the server and the console are one thread; the debugger is     *)
(* another process and the socket between them is the kernel's.             *)
EXTENDS UartSim

CONSTANTS PinCmds,     \* the commands '0' .. '7' the debugger uses; each is
                       \* the level of (tck, tms, tdi) it sets
          OtherCmds,   \* quit 'Q', and blink, reset or unknown letters 'B'
          Builds,      \* the #ifdefs: subsets of {"JTAG", "UART"}
          SockCap,     \* bytes a socket buffer holds in each direction
          Chars, Keys, \* the characters the SoC sends; those typed
          SocBit       \* ticks of a bit of the SoC's UART (16 * divisor)

ASSUME HarnessAssumption ==
    /\ PinCmds \subseteq {"0", "1", "2", "3", "4", "5", "6", "7"} /\ "7" \in PinCmds
    /\ OtherCmds \subseteq {"Q", "B"} /\ SockCap \in Nat \ {0}
    /\ Builds \subseteq {{}, {"JTAG"}, {"JTAG", "UART"}}
    /\ Chars \subseteq Char /\ Keys \subseteq Char /\ SocBit \in Nat \ {0}

\* Bounds of the model: the tick counter runs to TickTop and then around the
\* last two values: only its parity is used by then; the JTAG counter
\* stays at its first value past every threshold.
TickTop == 85
JtagTop == 22

VARIABLES build,              \* the #ifdefs of this build
          pc,                 \* where the simulator's thread is
          tick, jtick,        \* m_cpu_tickcount, m_jtag_tickcount
          rst, trst,          \* i_pad_rst_b, i_pad_jtg_trst_b
          loads,              \* times the program was loaded
          pad, padSeen, padTdo, \* the JTAG pins, as last evaluated, and o_pad_jtg_tdo
          pins, tdo, quit, fd,  \* the server: tck/tms/tdi, tdo, quit, client_fd > 0
          conn,               \* the debugger's connection
          toServer, toClient, \* bytes on their way in the socket
          console,            \* the UARTSIM
          soc,                \* the SoC's UART transmitter
          said, puts,         \* the last putchar, and how many since soc began
          typed, age          \* the character being typed and its ticks so far

sim   == <<build, pc, tick, jtick, rst, trst, loads>>
jtag  == <<pad, padSeen, padTdo, pins, tdo, quit, fd>>
sock  == <<conn, toServer, toClient>>
uart  == <<console, soc, said, puts, typed, age>>
vars  == <<sim, jtag, sock, uart>>

Cmds == PinCmds \cup {"R"} \cup OtherCmds

SocIdle == [ch |-> NoKey, left |-> <<>>, cnt |-> 0]

\* The server listens; an error before that aborts before the first tick.
ServerInit == pins = "7" /\ tdo = 0 /\ quit = FALSE /\ fd = FALSE

Init ==
    /\ build \in Builds /\ pc = "loop"
    /\ tick = 0 /\ jtick = 0 /\ loads = 0
    /\ rst \in {0, 1} /\ trst \in {0, 1}    \* randReset(2)
    /\ pad \in PinCmds /\ padSeen = pad /\ padTdo \in {0, 1}
    /\ ServerInit
    /\ conn = "none" /\ toServer = <<>> /\ toClient = <<>>
    /\ console = ConsoleInit /\ soc = SocIdle /\ said = NoKey /\ puts = 0
    /\ typed = NoKey /\ age = 0

----------------------------------------------------------------------------
(* The main loop. *)

\* The level of a reset that is low from count 10 up to count 20.
ResetLevel(count) == IF count \in 10 .. 19 THEN 0 ELSE 1

JtagCount == IF tick % 4 # 0 THEN jtick ELSE IF jtick < JtagTop THEN jtick + 1 ELSE jtick

\* Mutant: any time after the JTAG reset.
LoadDueAlways == JtagCount >= 20

\* The end of the JTAG reset is when the program is loaded.
LoadDue == JtagCount >= 20 /\ trst = 0

\* One turn up to the call of the JTAG server or of eval.
Drive ==
    /\ pc = "loop"
    /\ rst' = ResetLevel(tick) /\ trst' = ResetLevel(JtagCount)
    /\ jtick' = JtagCount
    /\ loads' = IF LoadDue THEN loads + 1 ELSE loads
    /\ pc' = IF "JTAG" \in build /\ tick % 2 = 0 /\ JtagCount > 20
             THEN "jtag" ELSE "eval"
    /\ UNCHANGED <<build, tick, jtag, sock, uart>>

\* The process ends; the chips it simulated go with it.
ProcessEnds(how) ==
    /\ pc' = how
    /\ console' = ConsoleInit /\ soc' = SocIdle /\ said' = NoKey /\ puts' = 0
    /\ typed' = NoKey /\ age' = 0
    /\ UNCHANGED <<build, tick, jtick, rst, trst, loads, jtag, sock>>

\* fopen of the program fails: exit(-1).
LoadFails == pc = "loop" /\ LoadDue /\ ProcessEnds("exited")

\* The loop ends after $finish; a build with the console deletes jtag twice.
Exit == /\ pc = "finish"
        /\ \E how \in IF "UART" \in build THEN {"exited", "aborted"} ELSE {"exited"} :
               ProcessEnds(how)

\* The SoC's transmitter: the start bit, the character, one stop bit, each
\* for SocBit ticks.  A program can only use it once it has been loaded.
SocNext ==
    IF soc.left # <<>>
    THEN {IF soc.cnt > 1 THEN [soc EXCEPT !.cnt = @ - 1]
          ELSE [soc EXCEPT !.left = Tail(@), !.cnt = IF Len(soc.left) = 1 THEN 0 ELSE SocBit]}
    ELSE {soc} \cup (IF tick > 80 /\ rst = 1
                     THEN {[ch |-> c, left |-> <<0>> \o c \o <<1>>, cnt |-> SocBit] : c \in Chars}
                     ELSE {})

SocLine(s) == IF s.left = <<>> THEN 1 ELSE Head(s.left)

\* One call of the console, with the SoC's line and perhaps a typed character.
ConsoleStep(i_tx, key) ==
    LET began == console.tx = "TXIDLE" /\ key # NoKey
    IN  /\ console' = Type(Hear(console, i_tx), key)
        /\ IF Puts(console)
           THEN said' = console.rxData /\ puts' = IF puts < 2 THEN puts + 1 ELSE puts
           ELSE IF soc.left = <<>> /\ soc'.left # <<>>
           THEN said' = NoKey /\ puts' = 0 ELSE UNCHANGED <<said, puts>>
        /\ typed' = IF began THEN key ELSE IF console'.tx = "TXIDLE" THEN NoKey ELSE typed
        /\ age' = IF began \/ console'.tx = "TXIDLE" THEN 0 ELSE age + 1

\* The two evaluations of a clock cycle and the console's call in between.
\* The processor sees the pins, TDO is what its debug logic makes of them.
Eval ==
    /\ pc = "eval" /\ pc' \in {"loop", "finish"}     \* finish: the design called $finish
    /\ padSeen' = pad /\ padTdo' \in {0, 1}
    /\ soc' \in IF "UART" \in build THEN SocNext ELSE {soc}
    /\ IF "UART" \in build /\ tick > 80
       THEN \E key \in Keys \cup {NoKey} :
                (console.tx = "TXDATA" => key = NoKey) /\ ConsoleStep(SocLine(soc'), key)
       ELSE UNCHANGED <<console, said, puts, typed, age>>
    /\ tick' = IF tick = TickTop THEN TickTop - 1 ELSE tick + 1
    /\ UNCHANGED <<build, jtick, rst, trst, loads, pad, pins, tdo, quit, fd, sock>>

----------------------------------------------------------------------------
(* The JTAG server, called as tick() at pc = "jtag". *)

\* Mutant: more commands are taken before the next evaluation.
TickReturnsAgain == pc' = "jtag" /\ pad' = pins'

\* tick() returns with the server's levels on the pins.
TickReturns == pc' = "eval" /\ pad' = pins'

\* close(client_fd) when quit is set, which nothing clears.  Unread commands
\* make the kernel reset the connection, which may destroy unread answers.
CloseIfQuit(rest, replies) ==
    IF quit'
    THEN /\ fd' = FALSE /\ conn' = "none" /\ toServer' = <<>>
         /\ toClient' \in IF rest = <<>> THEN {replies} ELSE {replies, <<>>}
    ELSE /\ UNCHANGED fd /\ toServer' = rest /\ toClient' = replies

\* Mutant: nobody is accepted after a quit.
AcceptOnce == /\ pc = "jtag" /\ ~fd /\ conn # "none" /\ ~quit
              /\ fd' = TRUE /\ UNCHANGED pins /\ TickReturns
              /\ UNCHANGED <<build, tick, jtick, rst, trst, loads>>
              /\ UNCHANGED <<padSeen, padTdo, tdo, quit, sock, uart>>

\* accept(): loops until a client connects.
Accept == /\ pc = "jtag" /\ ~fd /\ conn # "none"
          /\ fd' = TRUE /\ UNCHANGED pins /\ TickReturns
          /\ UNCHANGED <<build, tick, jtick, rst, trst, loads>>
          /\ UNCHANGED <<padSeen, padTdo, tdo, quit, sock, uart>>

\* execute_command() with a byte to read.  The answer to 'R' is sent in a
\* step of its own; every other command ends the call.
Execute ==
    /\ pc = "jtag" /\ fd /\ toServer # <<>>
    /\ LET c == Head(toServer)
       IN  /\ tdo' = padTdo
           /\ pins' = IF c \in PinCmds THEN c ELSE pins
           /\ quit' = (quit \/ c = "Q")
           /\ IF c = "R"
              THEN /\ pc' = "send" /\ toServer' = Tail(toServer)
                   /\ UNCHANGED <<pad, fd, conn, toClient>>
              ELSE /\ TickReturns /\ CloseIfQuit(Tail(toServer), toClient)
                   /\ ~quit' => UNCHANGED conn
    /\ UNCHANGED <<build, tick, jtick, rst, trst, loads, padSeen, padTdo, uart>>

\* The write of the answer succeeds.  A client that has closed its end makes
\* the kernel reset the connection.
Answer ==
    /\ pc = "send" /\ conn # "reset" /\ Len(toClient) < SockCap
    /\ UNCHANGED <<pins, quit>> /\ TickReturns
    /\ CloseIfQuit(toServer, Append(toClient, tdo))
    /\ ~quit => conn' = IF conn = "closed" THEN "reset" ELSE conn
    /\ UNCHANGED <<build, tick, jtick, rst, trst, loads, padSeen, padTdo, tdo, uart>>

\* read or write fails for another reason than an empty socket: abort(), or
\* SIGPIPE.  A full socket buffer (EAGAIN) is such a reason for write.
Abort ==
    /\ \/ pc = "jtag" /\ fd /\ conn = "reset"
       \/ pc = "send" /\ (conn = "reset" \/ Len(toClient) = SockCap)
    /\ ProcessEnds("aborted")

\* No client, no byte, or a client that has closed its end: accept() and
\* execute_command() try again inside the same call.
Silent == \/ ~fd /\ conn = "none"
          \/ fd /\ toServer = <<>> /\ conn # "reset"

Spin == pc = "jtag" /\ Silent /\ UNCHANGED vars

----------------------------------------------------------------------------
(* The debugger, while the server lives. *)

Ended == pc \in {"exited", "aborted"}

Connect == /\ "JTAG" \in build /\ conn = "none" /\ ~Ended
           /\ conn' = "open" /\ toServer' = <<>> /\ toClient' = <<>>
           /\ UNCHANGED <<sim, jtag, uart>>

SendCmd == /\ conn = "open" /\ ~Ended /\ Len(toServer) < SockCap
           /\ \E c \in Cmds : toServer' = Append(toServer, c)
           /\ UNCHANGED <<sim, jtag, conn, toClient, uart>>

ReadAnswer == /\ conn \in {"open", "none"} /\ ~Ended /\ toClient # <<>>
              /\ toClient' = Tail(toClient)
              /\ UNCHANGED <<sim, jtag, conn, toServer, uart>>

\* Closing with unread answers resets the connection.
ClientClose == /\ conn = "open" /\ ~Ended
               /\ conn' = IF toClient = <<>> THEN "closed" ELSE "reset"
               /\ toClient' = <<>>
               /\ UNCHANGED <<sim, jtag, toServer, uart>>

----------------------------------------------------------------------------
Simulator == \/ Drive \/ LoadFails \/ Exit \/ Eval
             \/ Accept \/ Execute \/ Answer \/ Abort
Debugger == Connect \/ SendCmd \/ ReadAnswer \/ ClientClose

Next == Simulator \/ Spin \/ Debugger

\* The simulator's thread always takes its next step; nothing is assumed of
\* the debugger.
Spec == Init /\ [][Next]_vars /\ WF_vars(Simulator)

----------------------------------------------------------------------------
\* Every register and counter keeps its values; the program is loaded at most
\* once and the socket holds no more than it can.
TypeOK ==
    /\ build \in Builds
    /\ pc \in {"loop", "finish", "jtag", "send", "eval", "exited", "aborted"}
    /\ tick \in 0 .. TickTop /\ jtick \in 0 .. JtagTop /\ loads \in {0, 1}
    /\ rst \in {0, 1} /\ trst \in {0, 1}
    /\ pad \in PinCmds /\ padSeen \in PinCmds /\ padTdo \in {0, 1}
    /\ pins \in PinCmds /\ tdo \in {0, 1} /\ quit \in BOOLEAN /\ fd \in BOOLEAN
    /\ conn \in {"none", "open", "closed", "reset"}
    /\ toServer \in Seq(Cmds) /\ Len(toServer) <= SockCap
    /\ toClient \in Seq({0, 1}) /\ Len(toClient) <= SockCap
    /\ console \in ConsoleType
    /\ soc \in [ch : Char \cup {NoKey}, left : Bits(CharBits + 2), cnt : 0 .. SocBit]
    /\ said \in Char \cup {NoKey} /\ puts \in 0 .. 2
    /\ typed \in Char \cup {NoKey} /\ age \in Nat

\* The debugger is served only when the program has been loaded, once, and
\* both resets are over: three counters in sim_main.cc decide this, the two
\* windows of ten counts and the start of the server after count 20.
LoadFirst ==
    (pc \in {"jtag", "send"} \/ fd) => loads = 1 /\ trst = 1 /\ rst = 1

\* Simulated time stops for good only when the process has ended or the
\* debugger is absent, silent or gone; a debugger that keeps sending, even one
\* that was dropped after a quit and connects again, never stops it.
TimeAdvances ==
    []<>(pc = "eval") \/ <>[]Ended \/ <>[](pc = "jtag" /\ Silent)

\* When the SoC's transmitter has finished a character, the console has put
\* that character on the standard output, exactly once.
ConsoleHears ==
    soc.left = <<>> /\ soc.ch # NoKey => puts = 1 /\ said = soc.ch

\* During a typed character the line to the SoC is low for one bit time, shows
\* the bits of the character, lowest first, one bit time each, and is low
\* again for a last bit time; otherwise it is high.  In the last bit time
\* uart_receive.v expects the stop bit, which is high: it raises fram_error for
\* a low one and does not assert receive_ctrl_redata_over (uart_receive.v:308, 326).
TypedFrame ==
    /\ console.tx = "TXIDLE" => Line(console) = 1
    /\ console.tx = "TXDATA" =>
          LET slot == age \div BaudCounts
          IN  /\ slot <= CharBits + 1
              /\ slot \in {0, CharBits + 1} => Line(console) = 0
              /\ slot \in 1 .. CharBits => Line(console) = typed[slot]

\* Seen from the debugger: commands in order, each seen by the processor
\* before the next one, answers that reflect all the commands before.
Link == INSTANCE JtagLink WITH
            queue    <- IF Ended THEN <<>>
                        ELSE IF pc = "send" THEN <<"R">> \o toServer ELSE toServer,
            answers  <- toClient,
            attached <- fd /\ ~Ended,
            wires    <- pad,
            seen     <- padSeen,
            out      <- padTdo
LinkSpec == Link!Spec
=============================================================================
