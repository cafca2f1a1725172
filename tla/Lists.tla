------------------------------- MODULE Lists --------------------------------
(***************************************************************************)
(* Operators on lists; the recursive ones are written as recursive         *)
(* functions so that proofs can unfold them.                               *)
(***************************************************************************)
EXTENDS Naturals, Sequences, FiniteSets

\* The elements of s at the positions of I, in their order.
Sift(s, I) ==
  LET sifted[n \in 0 .. Len(s)] ==
        IF n = 0 THEN <<>>
        ELSE IF n \in I THEN Append(sifted[n - 1], s[n]) ELSE sifted[n - 1]
  IN  sifted[Len(s)]

\* The sum of a list of numbers.
Total(s) ==
  LET total[n \in 0 .. Len(s)] == IF n = 0 THEN 0 ELSE total[n - 1] + s[n]
  IN  total[Len(s)]

\* How often x is on a list.
Copies(x, s) == Cardinality({i \in DOMAIN s : s[i] = x})
=============================================================================
