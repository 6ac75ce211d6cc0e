----------------------------- MODULE MCPregPst ------------------------------
(***************************************************************************)
(* TLC instance of PregPst.                                                *)
(***************************************************************************)
EXTENDS PregPst, TLC

Symmetry == Permutations(Pregs) \cup Permutations(ARegs)
=============================================================================
