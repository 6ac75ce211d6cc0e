--------------------------- MODULE MCRetireCommit ---------------------------
(***************************************************************************)
(* TLC instance of RetireCommit: the scenarios of its runs.                *)
(***************************************************************************)
EXTENDS RetireCommit

\* Interrupts and asynchronous exceptions among calls, branches and exceptions;
\* with cache maintenance among instructions that flush; the debugger's
\* requests and speculation failures among split instructions.
MixedScenarios ==
    {[kinds  |-> {"normal", "ras", "mispred", "expt"}, events |-> {"async", "int"}],
     [kinds  |-> {"normal", "flush"}, events |-> {"async", "int", "ctc"}],
     [kinds  |-> {"normal", "split"}, events |-> {"dr", "jdb", "ssf"}]}

FairScenarios == {[kinds |-> {"normal", "split"}, events |-> {"async", "int"}]}

PinScenarios == {[kinds |-> {"normal"}, events |-> {"sdb"}]}

ForgottenScenarios == {[kinds |-> {"normal", "ras"}, events |-> {"dr", "async"}]}
=============================================================================
