----------------------------- MODULE MCCoreMark -----------------------------
(* Instances of CoreMark for TLC: the three runs, with smaller blocks. *)
EXTENDS CoreMark
=============================================================================
