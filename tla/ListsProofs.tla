---------------------------- MODULE ListsProofs -----------------------------
(***************************************************************************)
(* What the operators of Lists return, for lists of any length.  Every     *)
(* induction is over the positions of a list, by a least counterexample.   *)
(***************************************************************************)
EXTENDS Lists, Integers, SequencesExt, SequenceTheorems, FiniteSetTheorems,
        WellFoundedInduction, TLAPS

LEMMA LeastNat ==
  ASSUME NEW S \in SUBSET Nat, S # {}
  PROVE  \E i \in S : \A j \in S : i =< j
<1>1. PICK i \in S : \A j \in S : <<j, i>> \notin OpToRel(<, Nat)
  BY NatLessThanWellFounded, WFMin
<1>2. \A j \in S : ~ (j < i)
  BY <1>1 DEF OpToRel
<1> QED
  BY <1>2

\* Induction up to m, for a set.
LEMMA UpTo ==
  ASSUME NEW m \in Nat, NEW P, 0 \in P, \A n \in 1 .. m : n - 1 \in P => n \in P
  PROVE  \A n \in 0 .. m : n \in P
<1> DEFINE Bad == {n \in 0 .. m : n \notin P}
<1>1. SUFFICES ASSUME Bad # {} PROVE FALSE
  OBVIOUS
<1>2. PICK k \in Bad : \A j \in Bad : k =< j
  <2>1. Bad \in SUBSET Nat
    OBVIOUS
  <2> HIDE DEF Bad
  <2> QED
    BY <1>1, <2>1, LeastNat
<1>3. k \in 1 .. m /\ k - 1 \in 0 .. m /\ k - 1 \notin Bad
  BY <1>2
<1> QED
  BY <1>2, <1>3

\* The function sifted of Sift, for positions up to m.
IsSifted(f, s, I, m) ==
  f = [n \in 0 .. m |-> IF n = 0 THEN <<>>
                        ELSE IF n \in I THEN Append(f[n - 1], s[n]) ELSE f[n - 1]]

LEMMA SiftedExists ==
  ASSUME NEW s, NEW I, NEW m \in Nat
  PROVE  \E f : IsSifted(f, s, I, m)
<1> DEFINE Bad == {k \in Nat : ~ \E f : IsSifted(f, s, I, k)}
<1>1. SUFFICES ASSUME Bad # {} PROVE FALSE
  OBVIOUS
<1>2. PICK k \in Bad : \A j \in Bad : k =< j
  <2>1. Bad \in SUBSET Nat
    OBVIOUS
  <2> HIDE DEF Bad
  <2> QED
    BY <1>1, <2>1, LeastNat
<1>3. k # 0
  <2>1. IsSifted([n \in 0 .. 0 |-> <<>>], s, I, 0)
    BY DEF IsSifted
  <2> QED
    BY <1>2, <2>1
<1>4. PICK f : IsSifted(f, s, I, k - 1)
  BY <1>2, <1>3
<1>5. PICK g : g = [n \in 0 .. k |->
                      IF n = k THEN IF k \in I THEN Append(f[k - 1], s[k]) ELSE f[k - 1]
                      ELSE f[n]]
  OBVIOUS
<1>6. \A n \in 0 .. (k - 1) : g[n] = f[n]
  BY <1>5
<1>7. \A n \in 0 .. (k - 1) : f[n] = IF n = 0 THEN <<>>
                        ELSE IF n \in I THEN Append(f[n - 1], s[n]) ELSE f[n - 1]
  BY <1>4 DEF IsSifted
<1>8. \A n \in 0 .. k : g[n] = IF n = 0 THEN <<>>
                        ELSE IF n \in I THEN Append(g[n - 1], s[n]) ELSE g[n - 1]
  <2> SUFFICES ASSUME NEW n \in 0 .. k
               PROVE  g[n] = IF n = 0 THEN <<>>
                        ELSE IF n \in I THEN Append(g[n - 1], s[n]) ELSE g[n - 1]
    OBVIOUS
  <2>1. n # 0 => g[n - 1] = f[n - 1]
    BY <1>6
  <2>2. CASE n = k
    BY <1>3, <1>5, <2>1, <2>2
  <2>3. CASE n # k
    BY <1>6, <1>7, <2>1, <2>3
  <2> QED
    BY <2>2, <2>3
<1>9. IsSifted(g, s, I, k)
  BY <1>5, <1>8 DEF IsSifted
<1> QED
  BY <1>2, <1>9

\* Sift is the last value of such a function.
LEMMA SiftUnfolds ==
  ASSUME NEW s, NEW I, Len(s) \in Nat
  PROVE  \E f : /\ Sift(s, I) = f[Len(s)] /\ f[0] = <<>>
                /\ \A n \in 1 .. Len(s) :
                     f[n] = IF n \in I THEN Append(f[n - 1], s[n]) ELSE f[n - 1]
<1> DEFINE f == CHOOSE f : IsSifted(f, s, I, Len(s))
<1>1. IsSifted(f, s, I, Len(s))
  BY SiftedExists
<1>2. Sift(s, I) = f[Len(s)]
  BY DEF Sift, IsSifted
<1> HIDE DEF f
<1>3. \A n \in 0 .. Len(s) : f[n] = IF n = 0 THEN <<>>
                        ELSE IF n \in I THEN Append(f[n - 1], s[n]) ELSE f[n - 1]
  BY <1>1 DEF IsSifted
<1> QED
  BY <1>2, <1>3

\* What is sifted from a list are elements of it.
LEMMA SiftType ==
  ASSUME NEW A, NEW s \in Seq(A), NEW I, NEW B, \A i \in DOMAIN s : i \in I => s[i] \in B
  PROVE  Sift(s, I) \in Seq(B)
<1>1. PICK f : /\ Sift(s, I) = f[Len(s)] /\ f[0] = <<>>
               /\ \A n \in 1 .. Len(s) :
                    f[n] = IF n \in I THEN Append(f[n - 1], s[n]) ELSE f[n - 1]
  BY SiftUnfolds
<1> DEFINE P == {n \in Nat : f[n] \in Seq(B)}
<1>2. 0 \in P
  BY <1>1, EmptySeq
<1>3. ASSUME NEW n \in 1 .. Len(s), n - 1 \in P
      PROVE  n \in P
  <2>1. n \in I => s[n] \in B
    OBVIOUS
  <2>2. f[n - 1] \in Seq(B)
    BY <1>3
  <2>3. n \in I => Append(f[n - 1], s[n]) \in Seq(B)
    BY <2>1, <2>2, AppendProperties
  <2>4. f[n] \in Seq(B)
    BY <1>1, <2>2, <2>3
  <2> QED
    BY <2>4
<1>4. Len(s) \in P
  <2>1. Len(s) \in Nat
    OBVIOUS
  <2> HIDE DEF P
  <2>2. \A n \in 0 .. Len(s) : n \in P
    BY <1>2, <1>3, <2>1, UpTo
  <2> QED
    BY <2>1, <2>2
<1> QED
  BY <1>1, <1>4

LEMMA SiftNone ==
  ASSUME NEW I
  PROVE  Sift(<<>>, I) = <<>>
<1>1. PICK e : e = <<>>
  OBVIOUS
<1>2. Len(e) = 0
  BY <1>1
<1>3. PICK f : Sift(e, I) = f[Len(e)] /\ f[0] = <<>>
  BY <1>2, SiftUnfolds
<1> QED
  BY <1>1, <1>2, <1>3

\* A list of some of its elements.
LEMMA SiftPart ==
  ASSUME NEW A, NEW s \in Seq(A), NEW I
  PROVE  Sift(s, I) \in Seq(A)
<1>1. \A i \in DOMAIN s : i \in I => s[i] \in A
  OBVIOUS
<1> QED
  BY <1>1, SiftType

\* Only what the list holds at the positions matters.
LEMMA SiftSame ==
  ASSUME NEW s, NEW t, NEW I, NEW J, NEW m \in Nat, Len(s) = m, Len(t) = m,
         \A i \in 1 .. m : s[i] = t[i] /\ (i \in I <=> i \in J)
  PROVE  Sift(s, I) = Sift(t, J)
<1>1. PICK f : /\ Sift(s, I) = f[Len(s)] /\ f[0] = <<>>
               /\ \A n \in 1 .. Len(s) :
                    f[n] = IF n \in I THEN Append(f[n - 1], s[n]) ELSE f[n - 1]
  BY SiftUnfolds
<1>2. PICK g : /\ Sift(t, J) = g[Len(t)] /\ g[0] = <<>>
               /\ \A n \in 1 .. Len(t) :
                    g[n] = IF n \in J THEN Append(g[n - 1], t[n]) ELSE g[n - 1]
  BY SiftUnfolds
<1> DEFINE P == {n \in Nat : f[n] = g[n]}
<1>3. 0 \in P /\ \A n \in 1 .. m : n - 1 \in P => n \in P
  BY <1>1, <1>2
<1>4. m \in P
  <2> HIDE DEF P
  <2> QED
    BY <1>3, UpTo
<1> QED
  BY <1>1, <1>2, <1>4

\* ... of a list that grows by one,
LEMMA SiftAppend ==
  ASSUME NEW A, NEW s \in Seq(A), NEW x \in A, NEW I
  PROVE  Sift(Append(s, x), I) =
           IF Len(s) + 1 \in I THEN Append(Sift(s, I), x) ELSE Sift(s, I)
<1>1. /\ Len(s) \in Nat /\ Len(Append(s, x)) = Len(s) + 1
      /\ Append(s, x)[Len(s) + 1] = x
      /\ \A i \in 1 .. Len(s) : Append(s, x)[i] = s[i]
  OBVIOUS
<1>2. PICK f : /\ Sift(s, I) = f[Len(s)] /\ f[0] = <<>>
               /\ \A n \in 1 .. Len(s) :
                    f[n] = IF n \in I THEN Append(f[n - 1], s[n]) ELSE f[n - 1]
  BY <1>1, SiftUnfolds
<1> DEFINE t == Append(s, x)
<1> HIDE DEF t
<1>3. PICK g : /\ Sift(t, I) = g[Len(t)] /\ g[0] = <<>>
               /\ \A n \in 1 .. Len(t) :
                    g[n] = IF n \in I THEN Append(g[n - 1], t[n]) ELSE g[n - 1]
  <2>1. Len(t) \in Nat
    BY <1>1 DEF t
  <2> QED
    BY <2>1, SiftUnfolds
<1>4. Len(t) = Len(s) + 1 /\ t[Len(s) + 1] = x /\ \A i \in 1 .. Len(s) : t[i] = s[i]
  BY <1>1 DEF t
<1> DEFINE P == {n \in Nat : f[n] = g[n]}
<1>5. 0 \in P /\ \A n \in 1 .. Len(s) : n - 1 \in P => n \in P
  BY <1>1, <1>2, <1>3, <1>4
<1>6. Len(s) \in P
  <2> HIDE DEF P
  <2>1. \A n \in 0 .. Len(s) : n \in P
    BY <1>1, <1>5, UpTo
  <2> QED
    BY <1>1, <2>1
<1>7. g[Len(s) + 1] = IF Len(s) + 1 \in I THEN Append(g[Len(s)], x) ELSE g[Len(s)]
  BY <1>1, <1>3, <1>4
<1> QED
  BY <1>2, <1>3, <1>4, <1>6, <1>7 DEF t

\* ... and of one that loses its first element.
LEMMA SiftTail ==
  ASSUME NEW A, NEW s \in Seq(A), s # <<>>, NEW I, NEW J,
         \A i \in 1 .. Len(s) - 1 : i \in J <=> i + 1 \in I
  PROVE  Sift(s, I) = IF 1 \in I THEN <<Head(s)>> \o Sift(Tail(s), J) ELSE Sift(Tail(s), J)
<1>1. PICK t : t = Tail(s)
  OBVIOUS
<1>2. PICK first : first = IF 1 \in I THEN <<s[1]>> ELSE <<>>
  OBVIOUS
<1>3. /\ Len(s) \in Nat \ {0} /\ t \in Seq(A) /\ Len(t) = Len(s) - 1
      /\ \A i \in 1 .. Len(s) - 1 : t[i] = s[i + 1] /\ t[i] \in A
      /\ Head(s) = s[1] /\ s[1] \in A
  BY <1>1, HeadTailProperties
<1>4. first \in Seq(A)
  BY <1>2, <1>3
<1>5. PICK f : /\ Sift(s, I) = f[Len(s)] /\ f[0] = <<>>
               /\ \A n \in 1 .. Len(s) :
                    f[n] = IF n \in I THEN Append(f[n - 1], s[n]) ELSE f[n - 1]
  BY <1>3, SiftUnfolds
<1>6. PICK g : /\ Sift(t, J) = g[Len(t)] /\ g[0] = <<>>
               /\ \A n \in 1 .. Len(t) :
                    g[n] = IF n \in J THEN Append(g[n - 1], t[n]) ELSE g[n - 1]
  <2>1. Len(t) \in Nat
    BY <1>3
  <2> QED
    BY <2>1, SiftUnfolds
<1> DEFINE P == {n \in Nat : g[n] \in Seq(A) /\ f[n + 1] = first \o g[n]}
<1>7. 0 \in P
  <2>1. Append(<<>>, s[1]) = <<s[1]>>
    OBVIOUS
  <2>2. f[1] = IF 1 \in I THEN Append(f[0], s[1]) ELSE f[0]
    <3>1. 1 \in 1 .. Len(s) /\ 1 - 1 = 0
      BY <1>3
    <3>2. f[1] = IF 1 \in I THEN Append(f[1 - 1], s[1]) ELSE f[1 - 1]
      BY <1>5, <3>1
    <3> QED
      BY <3>1, <3>2
  <2>3. f[1] = first
    BY <1>2, <1>5, <2>1, <2>2
  <2>4. first \o <<>> = first /\ g[0] \in Seq(A)
    BY <1>4, <1>6, ConcatEmptySeq, EmptySeq
  <2>5. f[0 + 1] = first \o g[0]
    BY <1>6, <2>3, <2>4
  <2> QED
    BY <2>4, <2>5
<1>8. ASSUME NEW n \in 1 .. Len(t), n - 1 \in P
      PROVE  n \in P
  <2>1. g[n - 1] \in Seq(A) /\ f[(n - 1) + 1] = first \o g[n - 1]
    BY <1>8
  <2>2. t[n] = s[n + 1] /\ t[n] \in A /\ n + 1 \in 1 .. Len(s) /\ (n - 1) + 1 = n
        /\ (n + 1) - 1 = n
    BY <1>3
  <2>3. g[n] = IF n \in J THEN Append(g[n - 1], t[n]) ELSE g[n - 1]
    BY <1>6
  <2>4. n \in J <=> n + 1 \in I
    BY <1>3
  <2>5. f[n + 1] = IF n \in J THEN Append(f[n], t[n]) ELSE f[n]
    BY <1>5, <2>2, <2>4
  <2>6. Append(first \o g[n - 1], t[n]) = first \o Append(g[n - 1], t[n])
    <3>1. /\ Append(g[n - 1], t[n]) = g[n - 1] \o <<t[n]>>
          /\ Append(first \o g[n - 1], t[n]) = (first \o g[n - 1]) \o <<t[n]>>
          /\ <<t[n]>> \in Seq(A)
      <4>1. <<t[n]>> \in Seq(A)
        BY <2>2
      <4>2. first \o g[n - 1] \in Seq(A)
        BY <1>4, <2>1, ConcatProperties
      <4> QED
        BY <2>1, <2>2, <4>1, <4>2, AppendIsConcat
    <3>2. \A x, y \in Seq(A) : (first \o x) \o y = first \o (x \o y)
      <4> TAKE x \in Seq(A), y \in Seq(A)
      <4> QED
        BY <1>4, ConcatAssociative
    <3> QED
      BY <2>1, <3>1, <3>2
  <2>7. g[n] \in Seq(A)
    BY <2>1, <2>2, <2>3, AppendProperties
  <2>8. f[n + 1] = first \o g[n]
    BY <2>1, <2>2, <2>3, <2>5, <2>6
  <2> QED
    BY <2>7, <2>8
<1>9. Len(t) \in P
  <2> HIDE DEF P
  <2>1. Len(t) \in Nat
    BY <1>3
  <2>2. \A n \in 0 .. Len(t) : n \in P
    BY <1>7, <1>8, <2>1, UpTo
  <2> QED
    BY <2>1, <2>2
<1>10. g[Len(t)] \in Seq(A) /\ f[Len(t) + 1] = first \o g[Len(t)] /\ Len(t) + 1 = Len(s)
  BY <1>3, <1>9
<1>11. Sift(s, I) = first \o Sift(t, J) /\ Sift(t, J) \in Seq(A)
  BY <1>5, <1>6, <1>10
<1>12. <<>> \o Sift(t, J) = Sift(t, J)
  BY <1>11, ConcatEmptySeq
<1> QED
  BY <1>1, <1>2, <1>3, <1>11, <1>12

-----------------------------------------------------------------------------
\* The function total of Total, for positions up to m.
IsTotalled(f, s, m) == f = [n \in 0 .. m |-> IF n = 0 THEN 0 ELSE f[n - 1] + s[n]]

LEMMA TotalledExists ==
  ASSUME NEW s, NEW m \in Nat
  PROVE  \E f : IsTotalled(f, s, m)
<1> DEFINE P == {k \in Nat : \E f : IsTotalled(f, s, k)}
<1>1. 0 \in P
  <2>1. IsTotalled([n \in 0 .. 0 |-> 0], s, 0)
    BY DEF IsTotalled
  <2> QED
    BY <2>1
<1>2. ASSUME NEW k \in 1 .. m, k - 1 \in P
      PROVE  k \in P
  <2>1. PICK f : IsTotalled(f, s, k - 1)
    BY <1>2
  <2>2. PICK g : g = [n \in 0 .. k |-> IF n = k THEN f[k - 1] + s[k] ELSE f[n]]
    OBVIOUS
  <2>3. \A n \in 0 .. (k - 1) : g[n] = f[n]
    BY <2>2
  <2>4. \A n \in 0 .. (k - 1) : f[n] = IF n = 0 THEN 0 ELSE f[n - 1] + s[n]
    BY <2>1 DEF IsTotalled
  <2>5. ASSUME NEW n \in 0 .. k
        PROVE  g[n] = IF n = 0 THEN 0 ELSE g[n - 1] + s[n]
    <3>1. n # 0 => g[n - 1] = f[n - 1]
      BY <2>3
    <3>2. CASE n = k
      BY <2>2, <3>1, <3>2
    <3>3. CASE n # k
      BY <2>3, <2>4, <3>1, <3>3
    <3> QED
      BY <3>2, <3>3
  <2>6. IsTotalled(g, s, k)
    BY <2>2, <2>5 DEF IsTotalled
  <2> QED
    BY <2>6
<1>3. m \in P
  <2> HIDE DEF P
  <2>1. \A n \in 0 .. m : n \in P
    BY <1>1, <1>2, UpTo
  <2> QED
    BY <2>1
<1> QED
  BY <1>3

\* A list of numbers within bounds adds up to as many times those bounds.
LEMMA TotalBounds ==
  ASSUME NEW lo \in Nat, NEW hi \in Nat, NEW s \in Seq(lo .. hi)
  PROVE  Total(s) \in Nat /\ Len(s) * lo =< Total(s) /\ Total(s) =< Len(s) * hi
<1> DEFINE f == CHOOSE f : IsTotalled(f, s, Len(s))
<1>1. Len(s) \in Nat /\ \A n \in 1 .. Len(s) : s[n] \in lo .. hi
  OBVIOUS
<1>2. IsTotalled(f, s, Len(s))
  BY <1>1, TotalledExists
<1>3. Total(s) = f[Len(s)]
  BY DEF Total, IsTotalled
<1> HIDE DEF f
<1>4. \A n \in 0 .. Len(s) : f[n] = IF n = 0 THEN 0 ELSE f[n - 1] + s[n]
  BY <1>2 DEF IsTotalled
<1> DEFINE P == {n \in Nat : f[n] \in Nat /\ n * lo =< f[n] /\ f[n] =< n * hi}
<1>5. 0 \in P
  BY <1>1, <1>4
<1>6. ASSUME NEW n \in 1 .. Len(s), n - 1 \in P
      PROVE  n \in P
  <2>1. \A x \in Nat : n * x = (n - 1) * x + x /\ (n - 1) * x \in Nat
    <3> TAKE x \in Nat
    <3>1. PICK i \in Nat : i = n - 1 /\ n = i + 1
      BY <1>1
    <3> QED
      BY <3>1
  <2>2. f[n - 1] \in Nat /\ (n - 1) * lo =< f[n - 1] /\ f[n - 1] =< (n - 1) * hi
    BY <1>6
  <2>3. f[n] = f[n - 1] + s[n]
    BY <1>1, <1>4
  <2>4. s[n] \in Nat /\ lo =< s[n] /\ s[n] =< hi
    BY <1>1
  <2>5. f[n] \in Nat
    BY <2>2, <2>3, <2>4
  <2>6. (n - 1) * lo \in Nat /\ (n - 1) * hi \in Nat
        /\ n * lo = (n - 1) * lo + lo /\ n * hi = (n - 1) * hi + hi
    BY <2>1
  <2>7. n * lo =< f[n] /\ f[n] =< n * hi
    BY <2>2, <2>3, <2>4, <2>6
  <2> QED
    BY <2>5, <2>7, <1>1
<1>7. Len(s) \in P
  <2> HIDE DEF P
  <2>1. \A n \in 0 .. Len(s) : n \in P
    BY <1>1, <1>5, <1>6, UpTo
  <2> QED
    BY <1>1, <2>1
<1> QED
  BY <1>3, <1>7
-----------------------------------------------------------------------------
\* The positions of x on s are finitely many.
LEMMA CopiesType ==
  ASSUME NEW A, NEW s \in Seq(A), NEW x
  PROVE  Copies(x, s) \in Nat /\ IsFiniteSet({i \in DOMAIN s : s[i] = x})
<1>1. IsFiniteSet(1 .. Len(s))
  <2>1. Len(s) \in Int
    OBVIOUS
  <2> QED
    BY <2>1, FS_Interval
<1>2. {i \in DOMAIN s : s[i] = x} \in SUBSET (1 .. Len(s))
  OBVIOUS
<1>3. IsFiniteSet({i \in DOMAIN s : s[i] = x})
  BY <1>1, <1>2, FS_Subset
<1> QED
  BY <1>3, FS_CardinalityType DEF Copies

LEMMA CopiesNone ==
  ASSUME NEW x
  PROVE  Copies(x, <<>>) = 0
<1>1. {i \in DOMAIN <<>> : <<>>[i] = x} = {}
  OBVIOUS
<1> QED
  BY <1>1, FS_EmptySet DEF Copies

\* Two lists, one after the other.
LEMMA CopiesConcat ==
  ASSUME NEW A, NEW s \in Seq(A), NEW t \in Seq(A), NEW x
  PROVE  Copies(x, s \o t) = Copies(x, s) + Copies(x, t)
<1>1. PICK m, n, u : m = Len(s) /\ n = Len(t) /\ u = s \o t
  OBVIOUS
<1>2. /\ m \in Nat /\ n \in Nat /\ DOMAIN s = 1 .. m /\ DOMAIN t = 1 .. n
      /\ DOMAIN u = 1 .. (m + n)
      /\ \A i \in 1 .. m : u[i] = s[i]
      /\ \A i \in 1 .. n : u[m + i] = t[i]
  BY <1>1
<1>3. PICK S, T, U : /\ S = {i \in DOMAIN s : s[i] = x}
                     /\ T = {i \in DOMAIN t : t[i] = x}
                     /\ U = {m + i : i \in T}
  OBVIOUS
<1>4. {i \in DOMAIN u : u[i] = x} = S \cup U
  <2>1. ASSUME NEW i \in DOMAIN u, u[i] = x
        PROVE  i \in S \cup U
    <3>1. CASE i =< m
      BY <1>2, <1>3, <2>1, <3>1
    <3>2. CASE i > m
      <4>1. i - m \in 1 .. n /\ m + (i - m) = i
        BY <1>2, <3>2
      <4> QED
        BY <1>2, <1>3, <2>1, <4>1
    <3> QED
      BY <1>2, <3>1, <3>2
  <2>2. ASSUME NEW i \in S \cup U
        PROVE  i \in DOMAIN u /\ u[i] = x
    BY <1>2, <1>3
  <2> QED
    BY <2>1, <2>2
<1>5. S \cap U = {}
  BY <1>2, <1>3
<1>6. IsFiniteSet(S) /\ IsFiniteSet(T) /\ Cardinality(S) \in Nat /\ Cardinality(T) \in Nat
  BY <1>3, CopiesType, FS_CardinalityType
<1>7. ExistsBijection(T, U)
  <2>1. PICK f : f = [i \in T |-> m + i]
    OBVIOUS
  <2>2. f \in Bijection(T, U)
    BY <1>2, <1>3, <2>1 DEF Bijection, Injection, Surjection, IsInjective
  <2> QED
    BY <2>2 DEF ExistsBijection
<1>8. IsFiniteSet(U) /\ Cardinality(U) = Cardinality(T)
  BY <1>6, <1>7, FS_Bijection
<1>9. Cardinality(S \cup U) = Cardinality(S) + Cardinality(U)
  <2>1. Cardinality(S \cup U) = Cardinality(S) + Cardinality(U) - Cardinality({})
    BY <1>5, <1>6, <1>8, FS_Union
  <2> QED
    BY <1>6, <1>8, <2>1, FS_EmptySet
<1> QED
  BY <1>1, <1>3, <1>4, <1>8, <1>9 DEF Copies

LEMMA CopiesOne ==
  ASSUME NEW x, NEW y
  PROVE  Copies(x, <<y>>) = IF x = y THEN 1 ELSE 0
<1>1. {i \in DOMAIN <<y>> : <<y>>[i] = x} = IF x = y THEN {1} ELSE {}
  OBVIOUS
<1> QED
  BY <1>1, FS_EmptySet, FS_Singleton DEF Copies

LEMMA CopiesAppend ==
  ASSUME NEW A, NEW s \in Seq(A), NEW x, NEW y \in A
  PROVE  Copies(x, Append(s, y)) = IF x = y THEN Copies(x, s) + 1 ELSE Copies(x, s)
<1>1. <<y>> \in Seq(A) /\ Append(s, y) = s \o <<y>>
  BY AppendIsConcat
<1>2. Copies(x, Append(s, y)) = Copies(x, s) + Copies(x, <<y>>)
  BY <1>1, CopiesConcat
<1>3. Copies(x, <<y>>) = IF x = y THEN 1 ELSE 0
  BY CopiesOne
<1>4. Copies(x, s) \in Nat
  BY CopiesType
<1> QED
  BY <1>2, <1>3, <1>4

\* An element counts as long as it is on the list.
LEMMA CopiesPositive ==
  ASSUME NEW A, NEW s \in Seq(A), NEW x
  PROVE  Copies(x, s) # 0 <=> \E i \in DOMAIN s : s[i] = x
<1>1. IsFiniteSet({i \in DOMAIN s : s[i] = x})
  BY CopiesType
<1> QED
  BY <1>1, FS_EmptySet DEF Copies

\* One element taken out of s, from between a and b.
TakenFrom(s, j, a, b) == s = (a \o <<s[j]>>) \o b /\ RemoveAt(s, j) = a \o b

LEMMA RemoveAtSplits ==
  ASSUME NEW A, NEW s \in Seq(A), NEW j \in DOMAIN s
  PROVE  \E a, b \in Seq(A) : TakenFrom(s, j, a, b)
<1>1. PICK n : n = Len(s)
  OBVIOUS
<1>2. n \in Nat /\ j \in 1 .. n /\ DOMAIN s = 1 .. n /\ \A i \in 1 .. n : s[i] \in A
  BY <1>1
<1>3. PICK a, b : a = SubSeq(s, 1, j - 1) /\ b = SubSeq(s, j + 1, n)
  OBVIOUS
<1>4. PICK k, m : k = j - 1 /\ m = j + 1 /\ k \in Int /\ m \in Int
  BY <1>2
<1>5. /\ a \in Seq(A) /\ Len(a) = k
      /\ \A i \in 1 .. k : a[i] = s[i]
  <2>1. \A i \in 1 .. k : s[i] \in A
    BY <1>2, <1>4
  <2>2. /\ SubSeq(s, 1, k) \in Seq(A)
        /\ Len(SubSeq(s, 1, k)) = IF 1 =< k THEN k - 1 + 1 ELSE 0
        /\ \A i \in 1 .. k - 1 + 1 : SubSeq(s, 1, k)[i] = s[1 + i - 1]
    BY <1>4, <2>1, SubSeqProperties
  <2> QED
    BY <1>2, <1>3, <1>4, <2>2
<1>6. /\ b \in Seq(A) /\ Len(b) = n - j
      /\ \A i \in 1 .. n - j : b[i] = s[j + i]
  <2>1. (\A i \in m .. n : s[i] \in A) /\ n \in Int
    BY <1>2, <1>4
  <2>2. /\ SubSeq(s, m, n) \in Seq(A)
        /\ Len(SubSeq(s, m, n)) = IF m =< n THEN n - m + 1 ELSE 0
        /\ \A i \in 1 .. n - m + 1 : SubSeq(s, m, n)[i] = s[m + i - 1]
    BY <1>4, <2>1, SubSeqProperties
  <2> QED
    BY <1>2, <1>3, <1>4, <2>2
<1>7. PICK c : c = a \o <<s[j]>>
  OBVIOUS
<1>8. <<s[j]>> \in Seq(A)
  BY <1>2
<1>9. /\ c \in Seq(A) /\ Len(c) = j /\ c[j] = s[j]
      /\ \A i \in 1 .. k : c[i] = s[i]
  <2>1. c \in Seq(A) /\ Len(c) = Len(a) + 1
    BY <1>5, <1>7, <1>8, ConcatProperties
  <2>2. \A i \in 1 .. Len(a) + 1 : c[i] = IF i =< Len(a) THEN a[i] ELSE <<s[j]>>[i - Len(a)]
    BY <1>5, <1>7, <1>8, ConcatProperties
  <2> QED
    BY <1>2, <1>4, <1>5, <2>1, <2>2
<1>10. PICK u : u = c \o b
  OBVIOUS
<1>11. u \in Seq(A) /\ Len(u) = n /\ \A i \in 1 .. n : u[i] = s[i]
  <2>1. /\ u \in Seq(A) /\ Len(u) = Len(c) + Len(b)
        /\ \A i \in 1 .. Len(c) + Len(b) : u[i] = IF i =< Len(c) THEN c[i] ELSE b[i - Len(c)]
    BY <1>6, <1>9, <1>10, ConcatProperties
  <2>2. Len(c) + Len(b) = n /\ Len(c) = j
    BY <1>2, <1>6, <1>9
  <2>3. ASSUME NEW i \in 1 .. n
        PROVE  u[i] = s[i]
    <3>1. u[i] = IF i =< j THEN c[i] ELSE b[i - j]
      BY <2>1, <2>2
    <3>2. CASE i =< j
      <4>1. i = j \/ i \in 1 .. k
        BY <1>2, <1>4, <3>2
      <4> QED
        BY <1>9, <3>1, <3>2, <4>1
    <3>3. CASE ~ (i =< j)
      <4>1. i - j \in 1 .. n - j /\ j + (i - j) = i
        BY <1>2, <3>3
      <4> QED
        BY <1>6, <3>1, <3>3, <4>1
    <3> QED
      BY <3>2, <3>3
  <2> QED
    BY <2>1, <2>2, <2>3
<1>12. s = c \o b
  BY <1>1, <1>10, <1>11, SeqEqual
<1>13. RemoveAt(s, j) = a \o b
  BY <1>1, <1>3 DEF RemoveAt
<1> QED
  BY <1>5, <1>6, <1>7, <1>12, <1>13 DEF TakenFrom

LEMMA CopiesRemoveAt ==
  ASSUME NEW A, NEW s \in Seq(A), NEW j \in DOMAIN s, NEW x
  PROVE  /\ RemoveAt(s, j) \in Seq(A) /\ Len(RemoveAt(s, j)) = Len(s) - 1
         /\ Copies(x, RemoveAt(s, j)) = IF x = s[j] THEN Copies(x, s) - 1 ELSE Copies(x, s)
<1>1. PICK a, b \in Seq(A) : TakenFrom(s, j, a, b)
  BY RemoveAtSplits
<1>2. <<s[j]>> \in Seq(A)
  OBVIOUS
<1>3. PICK e, c : e = <<s[j]>> /\ c = a \o e
  OBVIOUS
<1>4. e \in Seq(A) /\ c \in Seq(A) /\ Len(e) = 1 /\ Len(c) = Len(a) + Len(e)
  <2>1. e \in Seq(A)
    BY <1>2, <1>3
  <2>2. Len(e) = 1
    BY <1>3
  <2> QED
    BY <1>3, <2>1, <2>2, ConcatProperties
<1>5. s = c \o b /\ RemoveAt(s, j) = a \o b
  BY <1>1, <1>3 DEF TakenFrom
<1>6. /\ Copies(x, c) = Copies(x, a) + Copies(x, e)
      /\ Copies(x, s) = Copies(x, c) + Copies(x, b)
      /\ Copies(x, RemoveAt(s, j)) = Copies(x, a) + Copies(x, b)
  BY <1>3, <1>4, <1>5, CopiesConcat
<1>7. Copies(x, e) = IF x = s[j] THEN 1 ELSE 0
  BY <1>3, CopiesOne
<1>8. Copies(x, a) \in Nat /\ Copies(x, b) \in Nat
  BY CopiesType
<1>9. /\ RemoveAt(s, j) \in Seq(A) /\ Len(RemoveAt(s, j)) = Len(a) + Len(b)
      /\ Len(s) = Len(c) + Len(b)
  BY <1>4, <1>5, ConcatProperties
<1>10. Len(a) \in Nat /\ Len(b) \in Nat
  OBVIOUS
<1> QED
  BY <1>4, <1>6, <1>7, <1>8, <1>9, <1>10

\* The first element taken out, if there is one.
LEMMA CopiesRest ==
  ASSUME NEW A, NEW s \in Seq(A), NEW x
  PROVE  /\ SubSeq(s, 2, Len(s)) \in Seq(A)
         /\ Copies(x, SubSeq(s, 2, Len(s))) =< Copies(x, s)
<1>1. PICK m, n, b : m = 2 /\ n = Len(s) /\ b = SubSeq(s, 2, Len(s))
  OBVIOUS
<1>2. m \in Int /\ n \in Int /\ (\A i \in m .. n : s[i] \in A) /\ b = SubSeq(s, m, n)
  BY <1>1
<1>3. b \in Seq(A)
  BY <1>2, SubSeqProperties
<1>4. Copies(x, s) \in Nat
  BY CopiesType
<1>5. CASE s = <<>>
  <2>1. b = s
    BY <1>1, <1>5
  <2>2. Copies(x, b) =< Copies(x, s)
    BY <1>4, <2>1
  <2> QED
    BY <1>1, <1>3, <2>2
<1>6. CASE s # <<>>
  <2>1. 1 \in DOMAIN s
    BY <1>6
  <2>2. PICK a, r : a = SubSeq(s, 1, 1 - 1) /\ r = RemoveAt(s, 1)
    OBVIOUS
  <2>3. a = <<>>
    BY <2>2
  <2>4. r = b
    <3>1. r = a \o b
      BY <1>1, <2>2 DEF RemoveAt
    <3> QED
      BY <1>3, <2>3, <3>1, ConcatEmptySeq
  <2>5. Copies(x, r) = IF x = s[1] THEN Copies(x, s) - 1 ELSE Copies(x, s)
    BY <2>1, <2>2, CopiesRemoveAt
  <2>6. Copies(x, b) =< Copies(x, s)
    BY <1>4, <2>4, <2>5
  <2> QED
    BY <1>1, <1>3, <2>6
<1> QED
  BY <1>5, <1>6

\* A list that changes at its end keeps the same counts up to there.
LEMMA SubSeqAll ==
  ASSUME NEW A, NEW s \in Seq(A)
  PROVE  SubSeq(s, 1, Len(s)) = s
<1>1. PICK n, t : n = Len(s) /\ t = SubSeq(s, 1, n)
  OBVIOUS
<1>2. n \in Nat /\ n \in Int /\ 1 \in Int /\ \A i \in 1 .. n : s[i] \in A
  BY <1>1
<1>3. /\ t \in Seq(A) /\ Len(t) = IF 1 =< n THEN n - 1 + 1 ELSE 0
      /\ \A i \in 1 .. n - 1 + 1 : t[i] = s[1 + i - 1]
  BY <1>1, <1>2, SubSeqProperties
<1>4. Len(t) = n /\ \A i \in 1 .. n : t[i] = s[i]
  <2>1. n - 1 + 1 = n /\ \A i \in 1 .. n : 1 + i - 1 = i
    BY <1>2
  <2> QED
    BY <1>2, <1>3, <2>1
<1>5. t = s
  BY <1>1, <1>3, <1>4, SeqEqual
<1> QED
  BY <1>1, <1>5

LEMMA SubSeqBeyond ==
  ASSUME NEW s, NEW n \in Nat
  PROVE  SubSeq(s, n + 1, n) = <<>>
<1>1. PICK m : m = n + 1 /\ m \in Int /\ n \in Int /\ n < m
  OBVIOUS
<1> QED
  BY <1>1, SubSeqEmpty

LEMMA SubSeqLast ==
  ASSUME NEW A, NEW s \in Seq(A), s # <<>>
  PROVE  SubSeq(s, Len(s), Len(s)) = <<s[Len(s)]>>
<1>1. PICK n, t, u : n = Len(s) /\ t = SubSeq(s, n, n) /\ u = <<s[n]>>
  OBVIOUS
<1>2. n \in Nat \ {0} /\ n \in Int /\ \A i \in n .. n : s[i] \in A
  BY <1>1
<1>3. /\ t \in Seq(A) /\ Len(t) = IF n =< n THEN n - n + 1 ELSE 0
      /\ \A i \in 1 .. n - n + 1 : t[i] = s[n + i - 1]
  BY <1>1, <1>2, SubSeqProperties
<1>4. Len(t) = 1 /\ t[1] = s[n]
  <2>1. n - n + 1 = 1 /\ n =< n /\ n + 1 - 1 = n
    BY <1>2
  <2> QED
    BY <1>3, <2>1
<1>5. u \in Seq(A) /\ Len(u) = 1 /\ u[1] = s[n]
  BY <1>1, <1>2
<1>6. t = u
  BY <1>3, <1>4, <1>5, SeqEqual
<1> QED
  BY <1>1, <1>6

-----------------------------------------------------------------------------
\* The members of a finite set in some order.
LEMMA SetToSeqType ==
  ASSUME NEW S, IsFiniteSet(S)
  PROVE  /\ SetToSeq(S) \in [1 .. Cardinality(S) -> S]
         /\ SetToSeq(S) \in Seq(S) /\ Len(SetToSeq(S)) = Cardinality(S)
         /\ Cardinality(S) \in Nat
<1>1. PICK n, f : n = Cardinality(S) /\ f = SetToSeq(S)
  OBVIOUS
<1>2. n \in Nat /\ ExistsBijection(1 .. n, S)
  BY <1>1, FS_CardinalityType
<1>3. \E g \in [1 .. n -> S] : IsInjective(g)
  BY <1>2 DEF ExistsBijection, Bijection, Injection
<1>4. f \in [1 .. n -> S]
  BY <1>1, <1>3 DEF SetToSeq
<1>5. f \in Seq(S) /\ Len(f) = n
  BY <1>2, <1>4
<1> QED
  BY <1>1, <1>2, <1>4, <1>5

\* A list ends in what was put at its end.
LEMMA SuffixOfConcat ==
  ASSUME NEW A, NEW s \in Seq(A), NEW t \in Seq(A)
  PROVE  IsSuffix(t, s \o t)
<1>1. PICK u, m, n : u = s \o t /\ m = Len(s) /\ n = Len(t)
  OBVIOUS
<1>2. /\ m \in Nat /\ n \in Nat /\ u \in Seq(A) /\ Len(u) = m + n
      /\ \A i \in 1 .. n : u[m + i] = t[i]
  BY <1>1
<1>3. PICK p, q : p = Reverse(t) /\ q = Reverse(u)
  OBVIOUS
<1>4. /\ p \in Seq(A) /\ Len(p) = n /\ \A i \in 1 .. n : p[i] = t[n - i + 1]
      /\ q \in Seq(A) /\ Len(q) = m + n
      /\ \A i \in 1 .. m + n : q[i] = u[m + n - i + 1]
  BY <1>1, <1>2, <1>3 DEF Reverse
<1>5. \A i \in 1 .. n : q[i] = p[i]
  <2> TAKE i \in 1 .. n
  <2>1. n - i + 1 \in 1 .. n /\ m + (n - i + 1) = m + n - i + 1 /\ i \in 1 .. m + n
    BY <1>2
  <2> QED
    BY <1>2, <1>4, <2>1
<1>6. SubSeq(q, 1, n) = p
  <2>1. n \in Int /\ 1 \in Int /\ \A i \in 1 .. n : q[i] \in A
    BY <1>2, <1>4
  <2>2. PICK r : r = SubSeq(q, 1, n)
    OBVIOUS
  <2>3. /\ r \in Seq(A) /\ Len(r) = IF 1 =< n THEN n - 1 + 1 ELSE 0
        /\ \A i \in 1 .. n - 1 + 1 : r[i] = q[1 + i - 1]
    BY <2>1, <2>2, SubSeqProperties
  <2>4. Len(r) = n /\ \A i \in 1 .. n : r[i] = q[i]
    <3>1. n - 1 + 1 = n /\ \A i \in 1 .. n : 1 + i - 1 = i
      BY <1>2
    <3> QED
      BY <1>2, <2>3, <3>1
  <2>5. r = p
    BY <1>4, <1>5, <2>3, <2>4, SeqEqual
  <2> QED
    BY <2>2, <2>5
<1>7. SubSeq(p, 1, Len(p)) = p
  BY <1>4, SubSeqAll
<1>8. n =< m + n
  BY <1>2
<1> QED
  BY <1>1, <1>3, <1>4, <1>6, <1>7, <1>8 DEF IsSuffix, IsPrefix
=============================================================================
