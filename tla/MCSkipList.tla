----------------------------- MODULE MCSkipList -----------------------------
(* Small instances of SkipList: keys are numbers, which gives their order. *)
EXTENDS SkipList

CONSTANT r1
=============================================================================
