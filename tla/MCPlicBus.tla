----------------------------- MODULE MCPlicBus -----------------------------
(* TLC instance of PlicBus.                                                 *)
EXTENDS PlicBus, TLC

\* A hart enables nothing or everything at first; a later write changes it.
NoneOrAll == {{}, Sources}

Symmetry == Permutations(Harts)
=============================================================================
