---------------------------- MODULE MCPregAlloc -----------------------------
(***************************************************************************)
(* TLC instance of PregAlloc.  One architectural register and the six      *)
(* spare pregs its assumption asks for: the smallest pool in which every   *)
(* combination of empty registers meets every number of free pregs.        *)
(***************************************************************************)
EXTENDS PregAlloc
=============================================================================
