----------------------------- MODULE MCLevelDB ------------------------------
(* Small instances of DBIterator: keys are numbers, which gives their order. *)
EXTENDS DBIterator
=============================================================================
