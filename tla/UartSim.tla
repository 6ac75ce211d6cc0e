------------------------------ MODULE UartSim ------------------------------
(* The console's end of the serial line (sim/uartsim.cc, class UARTSIM): a  *)
(* receiver that samples the SoC's line and a transmitter that plays typed  *)
(* characters, each advanced once per call of operator().  The state is a   *)
(* record; the module has no variables of its own.                          *)
EXTENDS Integers, Sequences

CONSTANTS CharBits,     \* data bits of a character: 8 in the code
          BaudCounts    \* m_baud_counts: calls per bit, the argument of setup

ASSUME UartAssumption == CharBits \in Nat \ {0} /\ BaudCounts \in Nat \ {0, 1}

Char == [1 .. CharBits -> {0, 1}]       \* least significant bit first
NoKey == <<>>

Counter == 0 .. 2 * BaudCounts

\* Characters under way: up to n bits.
Bits(n) == {b \in Seq({0, 1}) : Len(b) <= n}

ConsoleType ==
    [ rx : {"RXIDLE", "RXDATA"}, rxBaud : Counter,
      rxData : Bits(CharBits),
      tx : {"TXIDLE", "TXDATA"}, txBaud : Counter,
      txData : Bits(CharBits + 2) ]

\* UARTSIM::UARTSIM followed by setup.
ConsoleInit == [ rx |-> "RXIDLE", rxBaud |-> 0, rxData |-> <<>>,
                 tx |-> "TXIDLE", txBaud |-> 0, txData |-> <<>> ]

\* The tick that sends what was received to the standard output.
Puts(c) == c.rx = "RXDATA" /\ c.rxBaud = 0 /\ Len(c.rxData) = CharBits

\* Mutant: the first bit is sampled at its edge.
HearAtEdge(c, i_tx) ==
    IF c.rx = "RXIDLE"
    THEN IF i_tx = 1 THEN c
         ELSE [c EXCEPT !.rx = "RXDATA", !.rxData = <<>>, !.rxBaud = BaudCounts \div 2 - 1]
    ELSE IF c.rxBaud > 0 THEN [c EXCEPT !.rxBaud = @ - 1]
    ELSE IF Puts(c) THEN [c EXCEPT !.rx = "RXIDLE", !.rxData = <<>>]
    ELSE [c EXCEPT !.rxBaud = BaudCounts - 1, !.rxData = Append(@, i_tx)]

\* The receiving half of operator(): a low line starts a character, its bits
\* are sampled one and a half bit times later and then once per bit time.
\* (The counter and the data left behind by a character are not read again.)
Hear(c, i_tx) ==
    IF c.rx = "RXIDLE"
    THEN IF i_tx = 1 THEN c
         ELSE [c EXCEPT !.rx = "RXDATA", !.rxData = <<>>,
                        !.rxBaud = BaudCounts + BaudCounts \div 2 - 1]
    ELSE IF c.rxBaud > 0
    THEN [c EXCEPT !.rxBaud = @ - 1]
    ELSE IF Puts(c)
    THEN [c EXCEPT !.rx = "RXIDLE", !.rxData = <<>>]
    ELSE [c EXCEPT !.rxBaud = BaudCounts - 1, !.rxData = Append(@, i_tx)]

\* Mutant: no start bit.
FrameNoStart(key) == key \o <<0>>

\* What m_tx_data holds for a character: the start bit, the character, and a
\* tenth bit that is 0 (-1<<10 leaves it clear), all ones above.
Frame(key) == <<0>> \o key \o <<0>>

\* The transmitting half; key is the character poll and read found, or NoKey.
Type(c, key) ==
    IF c.tx = "TXIDLE"
    THEN IF key = NoKey THEN c
         ELSE [c EXCEPT !.tx = "TXDATA", !.txData = Frame(key),
                        !.txBaud = BaudCounts - 1]
    ELSE IF c.txBaud > 0
    THEN [c EXCEPT !.txBaud = @ - 1]
    ELSE [c EXCEPT !.txData = Tail(@),
                   !.tx     = IF Len(c.txData) = 1 THEN "TXIDLE" ELSE @,
                   !.txBaud = IF Len(c.txData) = 1 THEN @ ELSE BaudCounts - 1]

\* The returned o_rx: the lowest bit of m_tx_data, 1 when nothing is left.
Line(c) == IF c.txData = <<>> THEN 1 ELSE Head(c.txData)
=============================================================================
