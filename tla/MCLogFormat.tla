---------------------------- MODULE MCLogFormat -----------------------------
(* Small blocks, so that records fill one, cross one and span three. *)
EXTENDS LogFormat
MCSizes == 0..7
=============================================================================
