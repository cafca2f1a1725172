--------------------------- MODULE MCFirebaseSync ---------------------------
(* Two devices and two leaves with two values each, any write at any time.   *)
EXTENDS FirebaseSync

CONSTANTS c1, c2, status, volunteer, a, b

MCClient == {c1, c2}
MCLeaf == {status, volunteer}
MCValue == {a, b}
MCBlank == [l \in MCLeaf |-> a]
\* The second device has no observer on the second leaf.
MCPartListens == [c \in MCClient |-> IF c = c1 THEN MCLeaf ELSE {status}]
=============================================================================
