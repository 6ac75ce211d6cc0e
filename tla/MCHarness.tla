----------------------------- MODULE MCHarness -----------------------------
(* Instances of Harness for TLC. *)
EXTENDS Harness

\* Two characters, told apart by their first and by their last bit.
TwoChars == {[i \in 1 .. CharBits |-> IF i = 1 THEN b ELSE 1 - b] : b \in {0, 1}}

OneKey == {[i \in 1 .. CharBits |-> IF i = 1 THEN 1 ELSE 0]}

BothBuilds == {{}, {"JTAG", "UART"}}
ConsoleBuild == {{"JTAG", "UART"}}
=============================================================================
