----------------------------- MODULE MCDirectory ----------------------------
EXTENDS Directory

CONSTANTS v, e, n, morning, evening

MCRole == [u \in {v, e} |-> IF u = v THEN Volunteer ELSE Elder]
MCOnRecord == [u \in {v, e} |-> IF u = v THEN <<morning, evening>> ELSE <<>>]
=============================================================================
