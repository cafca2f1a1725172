--------------------------- MODULE LogFormatProofs ---------------------------
(***************************************************************************)
(* Proofs about LogFormat: where the writer is in its block; that reading  *)
(* a log cut anywhere gives the records that were complete; and that after *)
(* appends that failed the reader puts no record together that was not     *)
(* written.                                                                *)
(***************************************************************************)
EXTENDS LogFormat, ListsProofs

\* The function w of Turns, for at most m turns.
IsTurns(w, data, o, m) ==
  w = [k \in 0 .. m |-> IF k = 0
                        THEN [left |-> data, begin |-> TRUE, offset |-> o, bytes |-> <<>>]
                        ELSE TurnIfMore(w[k - 1])]

LEMMA TurnsExists ==
  ASSUME NEW data, NEW o, NEW m \in Nat
  PROVE  \E w : IsTurns(w, data, o, m)
<1> DEFINE init == [left |-> data, begin |-> TRUE, offset |-> o, bytes |-> <<>>]
           P == {k \in Nat : \E w : IsTurns(w, data, o, k)}
<1>1. 0 \in P
  <2>1. IsTurns([n \in 0 .. 0 |-> init], data, o, 0)
    BY DEF IsTurns
  <2> QED
    BY <2>1
<1>2. ASSUME NEW k \in 1 .. m, k - 1 \in P
      PROVE  k \in P
  <2>1. PICK w : IsTurns(w, data, o, k - 1)
    BY <1>2
  <2>2. PICK g : g = [n \in 0 .. k |-> IF n = k THEN TurnIfMore(w[k - 1]) ELSE w[n]]
    OBVIOUS
  <2>3. \A n \in 0 .. (k - 1) : g[n] = w[n]
    BY <2>2
  <2>4. \A n \in 0 .. (k - 1) : w[n] = IF n = 0 THEN init ELSE TurnIfMore(w[n - 1])
    BY <2>1 DEF IsTurns
  <2> HIDE DEF init
  <2>5. \A n \in 0 .. k : g[n] = IF n = 0 THEN init ELSE TurnIfMore(g[n - 1])
    <3> SUFFICES ASSUME NEW n \in 0 .. k
                 PROVE  g[n] = IF n = 0 THEN init ELSE TurnIfMore(g[n - 1])
      OBVIOUS
    <3>1. n # 0 => g[n - 1] = w[n - 1]
      BY <2>3
    <3>2. CASE n = k
      BY <2>2, <3>1, <3>2
    <3>3. CASE n # k
      BY <2>3, <2>4, <3>1, <3>3
    <3> QED
      BY <3>2, <3>3
  <2>6. IsTurns(g, data, o, k)
    BY <2>2, <2>5 DEF IsTurns, init
  <2> QED
    BY <2>6
<1> HIDE DEF P
<1>3. m \in P
  BY <1>1, <1>2, UpTo
<1> QED
  BY <1>3 DEF P

\* Turns, one turn at a time.
LEMMA TurnsUnfold ==
  ASSUME NEW data, NEW o, NEW m \in Nat
  PROVE  /\ Turns(data, o, 0) = [left |-> data, begin |-> TRUE, offset |-> o, bytes |-> <<>>]
         /\ Turns(data, o, m + 1) = TurnIfMore(Turns(data, o, m))
<1> DEFINE init == [left |-> data, begin |-> TRUE, offset |-> o, bytes |-> <<>>]
           f(k) == CHOOSE w : IsTurns(w, data, o, k)
<1>1. ASSUME NEW k \in Nat
      PROVE  /\ Turns(data, o, k) = f(k)[k]
             /\ \A n \in 0 .. k : f(k)[n] = IF n = 0 THEN init ELSE TurnIfMore(f(k)[n - 1])
  <2>1. IsTurns(f(k), data, o, k)
    BY TurnsExists
  <2>2. Turns(data, o, k) = f(k)[k]
    BY DEF Turns, IsTurns
  <2> HIDE DEF f
  <2> QED
    BY <2>1, <2>2 DEF IsTurns
<1> HIDE DEF init, f
<1>2. Turns(data, o, 0) = init
  BY <1>1
<1> DEFINE P == {n \in Nat : n =< m => f(m + 1)[n] = f(m)[n]}
<1>3. 0 \in P
  BY <1>1
<1>4. ASSUME NEW n \in 1 .. m, n - 1 \in P
      PROVE  n \in P
  <2>1. f(m + 1)[n - 1] = f(m)[n - 1]
    BY <1>4
  <2>2. f(m + 1)[n] = TurnIfMore(f(m + 1)[n - 1]) /\ f(m)[n] = TurnIfMore(f(m)[n - 1])
    BY <1>1
  <2> QED
    BY <2>1, <2>2
<1> HIDE DEF P
<1>5. m \in P
  BY <1>3, <1>4, UpTo
<1>6. f(m + 1)[m] = f(m)[m]
  BY <1>5 DEF P
<1>7. f(m + 1)[m + 1] = TurnIfMore(f(m + 1)[m])
  BY <1>1
<1> QED
  BY <1>1, <1>2, <1>6, <1>7 DEF init

\* The function r of Reading, for at most m turns.
IsReading(r, f, m) ==
  r = [k \in 0 .. m |-> IF k = 0
                        THEN [at |-> 0, scratch |-> <<>>, out |-> <<>>, alarms |-> 0]
                        ELSE Read(f, r[k - 1])]

LEMMA ReadingExists ==
  ASSUME NEW h, NEW m \in Nat
  PROVE  \E w : IsReading(w, h, m)
<1> DEFINE init == [at |-> 0, scratch |-> <<>>, out |-> <<>>, alarms |-> 0]
           P == {k \in Nat : \E w : IsReading(w, h, k)}
<1>1. 0 \in P
  <2>1. IsReading([n \in 0 .. 0 |-> init], h, 0)
    BY DEF IsReading
  <2> QED
    BY <2>1
<1>2. ASSUME NEW k \in 1 .. m, k - 1 \in P
      PROVE  k \in P
  <2>1. PICK w : IsReading(w, h, k - 1)
    BY <1>2
  <2>2. PICK g : g = [n \in 0 .. k |-> IF n = k THEN Read(h, w[k - 1]) ELSE w[n]]
    OBVIOUS
  <2>3. \A n \in 0 .. (k - 1) : g[n] = w[n]
    BY <2>2
  <2>4. \A n \in 0 .. (k - 1) : w[n] = IF n = 0 THEN init ELSE Read(h, w[n - 1])
    BY <2>1 DEF IsReading
  <2> HIDE DEF init
  <2>5. \A n \in 0 .. k : g[n] = IF n = 0 THEN init ELSE Read(h, g[n - 1])
    <3> SUFFICES ASSUME NEW n \in 0 .. k
                 PROVE  g[n] = IF n = 0 THEN init ELSE Read(h, g[n - 1])
      OBVIOUS
    <3>1. n # 0 => g[n - 1] = w[n - 1]
      BY <2>3
    <3>2. CASE n = k
      BY <2>2, <3>1, <3>2
    <3>3. CASE n # k
      BY <2>3, <2>4, <3>1, <3>3
    <3> QED
      BY <3>2, <3>3
  <2>6. IsReading(g, h, k)
    BY <2>2, <2>5 DEF IsReading, init
  <2> QED
    BY <2>6
<1> HIDE DEF P
<1>3. m \in P
  BY <1>1, <1>2, UpTo
<1> QED
  BY <1>3 DEF P

\* Reading, one turn at a time.
LEMMA ReadingUnfold ==
  ASSUME NEW h, NEW m \in Nat
  PROVE  /\ Reading(h, 0) = [at |-> 0, scratch |-> <<>>, out |-> <<>>, alarms |-> 0]
         /\ Reading(h, m + 1) = Read(h, Reading(h, m))
<1> DEFINE init == [at |-> 0, scratch |-> <<>>, out |-> <<>>, alarms |-> 0]
           f(k) == CHOOSE w : IsReading(w, h, k)
<1>1. ASSUME NEW k \in Nat
      PROVE  /\ Reading(h, k) = f(k)[k]
             /\ \A n \in 0 .. k : f(k)[n] = IF n = 0 THEN init ELSE Read(h, f(k)[n - 1])
  <2>1. IsReading(f(k), h, k)
    BY ReadingExists
  <2>2. Reading(h, k) = f(k)[k]
    BY DEF Reading, IsReading
  <2> HIDE DEF f
  <2> QED
    BY <2>1, <2>2 DEF IsReading
<1> HIDE DEF init, f
<1>2. Reading(h, 0) = init
  BY <1>1
<1> DEFINE P == {n \in Nat : n =< m => f(m + 1)[n] = f(m)[n]}
<1>3. 0 \in P
  BY <1>1
<1>4. ASSUME NEW n \in 1 .. m, n - 1 \in P
      PROVE  n \in P
  <2>1. f(m + 1)[n - 1] = f(m)[n - 1]
    BY <1>4
  <2>2. f(m + 1)[n] = Read(h, f(m + 1)[n - 1]) /\ f(m)[n] = Read(h, f(m)[n - 1])
    BY <1>1
  <2> QED
    BY <2>1, <2>2
<1> HIDE DEF P
<1>5. m \in P
  BY <1>3, <1>4, UpTo
<1>6. f(m + 1)[m] = f(m)[m]
  BY <1>5 DEF P
<1>7. f(m + 1)[m + 1] = Read(h, f(m + 1)[m])
  BY <1>1
<1> QED
  BY <1>1, <1>2, <1>6, <1>7 DEF init

-----------------------------------------------------------------------------
(* Blocks.                                                                 *)

LEMMA BlocksAre ==
  /\ BlockSize \in Nat /\ HeaderSize \in Nat /\ 0 < HeaderSize /\ HeaderSize < BlockSize
  /\ Sizes \subseteq Nat /\ MaxRecords \in Nat /\ MaxFails \in Nat
BY LogAssumption

\* Division by the size of a block, with nothing but sums in what follows from it.
LEMMA Divided ==
  ASSUME NEW a \in Nat, NEW b \in Nat, 0 < b
  PROVE  /\ a \div b \in Nat /\ a % b \in 0 .. (b - 1)
         /\ (a \div b) * b \in Nat
         /\ a = (a \div b) * b + (a % b)
         /\ (a \div b + 1) * b = (a \div b) * b + b
<1>1. a \div b \in Nat /\ a % b \in 0 .. (b - 1)
  OBVIOUS
<1>2. a = b * (a \div b) + (a % b)
  OBVIOUS
<1> DEFINE q == a \div b
           r == a % b
<1>3. q \in Nat /\ r \in 0 .. (b - 1) /\ a = b * q + r
  BY <1>1, <1>2
<1> HIDE DEF q, r
<1>4. q * b = b * q /\ q * b \in Nat /\ (q + 1) * b = q * b + b
  BY <1>3
<1> QED
  BY <1>3, <1>4 DEF q, r

LEMMA SameQuotient ==
  ASSUME NEW a \in Nat, NEW x \in Nat, NEW b \in Nat, 0 < b,
         a =< x, x < (a \div b + 1) * b
  PROVE  x \div b = a \div b
<1> DEFINE q == a \div b
           r == x \div b
<1>1. q \in Nat /\ r \in Nat /\ q * b =< a /\ x < (q + 1) * b /\ r * b =< x /\ x < (r + 1) * b
  BY Divided
<1> HIDE DEF q, r
<1>2. ~ q + 1 =< r
  <2> SUFFICES ASSUME q + 1 =< r PROVE FALSE
    OBVIOUS
  <2>1. (q + 1) * b =< r * b
    BY <1>1
  <2>2. (q + 1) * b \in Nat /\ r * b \in Nat
    BY <1>1
  <2> QED
    BY <1>1, <2>1, <2>2
<1>3. ~ r + 1 =< q
  <2> SUFFICES ASSUME r + 1 =< q PROVE FALSE
    OBVIOUS
  <2>1. (r + 1) * b =< q * b
    BY <1>1
  <2>2. (r + 1) * b \in Nat /\ q * b \in Nat
    BY <1>1
  <2> QED
    BY <1>1, <2>1, <2>2
<1> QED
  BY <1>1, <1>2, <1>3 DEF q, r

LEMMA Boundaries ==
  ASSUME NEW a \in Nat
  PROVE  /\ Boundary(a) \in Nat /\ a < Boundary(a) /\ Boundary(a) =< a + BlockSize
         /\ Boundary(a) - a = BlockSize - (a % BlockSize)
         /\ \A x \in Nat : a =< x /\ x < Boundary(a) => Boundary(x) = Boundary(a)
         /\ Boundary(Boundary(a)) = Boundary(a) + BlockSize
<1>1. BlockSize \in Nat /\ 0 < BlockSize
  BY BlocksAre
<1>2. a \div BlockSize \in Nat /\ a % BlockSize \in 0 .. (BlockSize - 1)
      /\ (a \div BlockSize) * BlockSize \in Nat
      /\ a = (a \div BlockSize) * BlockSize + (a % BlockSize)
      /\ Boundary(a) = (a \div BlockSize) * BlockSize + BlockSize
  BY <1>1, Divided DEF Boundary
<1>3. \A x \in Nat : a =< x /\ x < Boundary(a) => Boundary(x) = Boundary(a)
  BY <1>1, SameQuotient DEF Boundary
<1>4. Boundary(Boundary(a)) = Boundary(a) + BlockSize
  <2> DEFINE c == Boundary(a)
             q == a \div BlockSize + 1
             r == c \div BlockSize
  <2>1. c = q * BlockSize /\ q \in Nat /\ c \in Nat
    BY <1>1, <1>2 DEF Boundary
  <2>2. r \in Nat /\ r * BlockSize =< c /\ c < (r + 1) * BlockSize
    BY <1>1, <2>1, Divided
  <2>3. Boundary(c) = (r + 1) * BlockSize
    BY DEF Boundary
  <2> HIDE DEF c, q, r
  <2>4. ~ q + 1 =< r
    <3> SUFFICES ASSUME q + 1 =< r PROVE FALSE
      OBVIOUS
    <3>1. (q + 1) * BlockSize =< r * BlockSize
      BY <1>1, <2>1, <2>2
    <3>2. (q + 1) * BlockSize = q * BlockSize + BlockSize
      BY <1>1, <2>1
    <3> QED
      BY <1>1, <2>1, <2>2, <3>1, <3>2
  <2>5. ~ r + 1 =< q
    <3> SUFFICES ASSUME r + 1 =< q PROVE FALSE
      OBVIOUS
    <3>1. (r + 1) * BlockSize =< q * BlockSize
      BY <1>1, <2>1, <2>2
    <3> QED
      BY <1>1, <2>1, <2>2, <3>1
  <2>6. r = q
    BY <2>1, <2>2, <2>4, <2>5
  <2>7. (q + 1) * BlockSize = q * BlockSize + BlockSize
    BY <1>1, <2>1
  <2> QED
    BY <2>1, <2>3, <2>6, <2>7 DEF c
<1>5. Boundary(a) \in Nat /\ a < Boundary(a) /\ Boundary(a) =< a + BlockSize
      /\ Boundary(a) - a = BlockSize - (a % BlockSize)
  <2> DEFINE r == a % BlockSize
             q == (a \div BlockSize) * BlockSize
  <2>1. q \in Nat /\ r \in 0 .. (BlockSize - 1) /\ a = q + r /\ Boundary(a) = q + BlockSize
    BY <1>2
  <2> HIDE DEF q, r
  <2>2. Boundary(a) \in Nat /\ a < Boundary(a) /\ Boundary(a) =< a + BlockSize
        /\ Boundary(a) - a = BlockSize - r
    BY <1>1, <2>1
  <2> QED
    BY <2>2 DEF r
<1> QED
  BY <1>3, <1>4, <1>5

\* block_offset_ is o where L bytes are in the file.
Aligned(o, L) == /\ o \in 0 .. BlockSize
                 /\ o < BlockSize => Boundary(L) - L = BlockSize - o
                 /\ o = BlockSize => Boundary(L) - L = BlockSize

LEMMA AlignedIsModulo ==
  ASSUME NEW o \in 0 .. BlockSize, NEW L \in Nat
  PROVE  Aligned(o, L) <=> o % BlockSize = L % BlockSize
<1>1. BlockSize \in Nat /\ 0 < BlockSize
  BY BlocksAre
<1>2. Boundary(L) - L = BlockSize - (L % BlockSize) /\ L % BlockSize \in 0 .. (BlockSize - 1)
  BY <1>1, Boundaries, Divided
<1>3. o < BlockSize => o % BlockSize = o
  BY <1>1
<1>4. BlockSize % BlockSize = 0
  BY <1>1
<1> DEFINE r == L % BlockSize
           t == o % BlockSize
<1>5. Boundary(L) - L = BlockSize - r /\ r \in 0 .. (BlockSize - 1)
      /\ (o < BlockSize => t = o) /\ (o = BlockSize => t = 0)
  BY <1>2, <1>3, <1>4
<1> HIDE DEF r, t
<1>6. Aligned(o, L) <=> t = r
  BY <1>1, <1>5 DEF Aligned
<1> QED
  BY <1>6 DEF r, t

-----------------------------------------------------------------------------
(* A piece in a file, and what the reader makes of it.                     *)

Data == Seq(Nat \X Nat)
Headers == [type : {"full", "first", "middle", "last"}, data : Data]
Byte == [type : {"zero", "full", "first", "middle", "last"}, data : Data] \X Nat
File == Seq(Byte)

\* Where the piece begins that a reader at a, or a writer there, goes on with.
Start(a) == IF Boundary(a) - a < HeaderSize THEN Boundary(a) ELSE a
EndOf(a, p) == Start(a) + HeaderSize + Len(p.data)

HasPiece(f, a, p) == /\ p \in Headers
                     /\ EndOf(a, p) =< Boundary(Start(a))
                     /\ EndOf(a, p) =< Len(f)
                     /\ \A n \in 1 .. (HeaderSize + Len(p.data)) : f[Start(a) + n] = <<p, n>>

LEMMA StartAt ==
  ASSUME NEW a \in Nat
  PROVE  /\ Start(a) \in Nat /\ a =< Start(a) /\ Start(a) + HeaderSize =< Boundary(Start(a))
         /\ Start(a) # a => Start(a) = Boundary(a) /\ Boundary(a) - a < HeaderSize
         /\ Start(a) = a => HeaderSize =< Boundary(a) - a
<1>1. Boundary(a) \in Nat /\ a < Boundary(a) /\ Boundary(Boundary(a)) = Boundary(a) + BlockSize
  BY Boundaries
<1> QED
  BY <1>1, BlocksAre DEF Start

LEMMA EndsAt ==
  ASSUME NEW a \in Nat, NEW p \in Headers
  PROVE  Len(p.data) \in Nat /\ EndOf(a, p) \in Nat /\ a < EndOf(a, p)
<1>1. Len(p.data) \in Nat
  BY LenProperties DEF Headers, Data
<1>2. Start(a) \in Nat /\ a =< Start(a)
  BY StartAt
<1> QED
  BY <1>1, <1>2, BlocksAre DEF EndOf

LEMMA BytesAre ==
  ASSUME NEW p \in Headers
  PROVE  /\ Bytes(p) \in File
         /\ Len(Bytes(p)) = HeaderSize + Len(p.data)
         /\ \A n \in 1 .. (HeaderSize + Len(p.data)) : Bytes(p)[n] = <<p, n>>
<1> DEFINE m == HeaderSize + Len(p.data)
<1>1. m \in Nat
  BY BlocksAre, LenProperties DEF Headers, Data
<1>2. \A n \in 1 .. m : <<p, n>> \in Byte
  BY <1>1 DEF Headers, Byte
<1>3. Bytes(p) = [n \in 1 .. m |-> <<p, n>>]
  BY DEF Bytes
<1> HIDE DEF m
<1>4. Bytes(p) \in [1 .. m -> Byte]
  BY <1>2, <1>3
<1>5. Bytes(p) \in File /\ Len(Bytes(p)) = m
  BY <1>1, <1>4 DEF File
<1> QED
  BY <1>3, <1>5 DEF m

LEMMA PhysicalPiece ==
  ASSUME NEW f \in File, NEW a \in Nat, NEW p, HasPiece(f, a, p)
  PROVE  Physical(f, a) = [type |-> p.type, data |-> p.data, next |-> EndOf(a, p)]
<1> DEFINE s == Start(a)
           m == HeaderSize + Len(p.data)
<1>1. p \in Headers /\ Len(p.data) \in Nat /\ m \in Nat /\ HeaderSize =< m /\ Len(f) \in Nat
  <2>1. p \in Headers
    BY DEF HasPiece
  <2>2. Len(p.data) \in Nat /\ Len(f) \in Nat
    BY <2>1, EndsAt, LenProperties DEF File
  <2> QED
    BY <2>1, <2>2, BlocksAre
<1>2. s \in Nat /\ EndOf(a, p) = s + m /\ s + m =< Boundary(s) /\ s + m =< Len(f)
  <2>1. Start(a) \in Nat
    BY StartAt
  <2>2. EndOf(a, p) = Start(a) + (HeaderSize + Len(p.data))
    BY <1>1, <2>1, BlocksAre DEF EndOf
  <2> QED
    BY <2>1, <2>2 DEF HasPiece
<1>3. \A n \in 1 .. m : f[s + n] = <<p, n>>
  BY DEF HasPiece
<1>4. Boundary(a) \in Nat /\ Boundary(s) \in Nat
  BY <1>2, Boundaries
<1>5. (BlockEnd(f, a) - a < HeaderSize /\ ~AtEof(f, a)) <=> Boundary(a) - a < HeaderSize
  BY <1>1, <1>2, <1>4, BlocksAre DEF BlockEnd, AtEof, Start
<1>6. (IF BlockEnd(f, a) - a < HeaderSize /\ ~AtEof(f, a) THEN BlockEnd(f, a) ELSE a) = s
  <2>1. CASE Boundary(a) - a < HeaderSize
    <3>1. ~AtEof(f, a) /\ s = Boundary(a)
      BY <1>5, <2>1 DEF Start
    <3> QED
      BY <1>5, <2>1, <3>1 DEF BlockEnd
  <2>2. CASE ~ (Boundary(a) - a < HeaderSize)
    BY <1>5, <2>2 DEF Start
  <2> QED
    BY <2>1, <2>2
<1>7. m =< BlockEnd(f, s) - s /\ BlockEnd(f, s) \in Nat
  BY <1>1, <1>2, <1>4 DEF BlockEnd, AtEof
<1>8. HeadersAt(f, s) = {p}
  <2>1. f[s + 1][1] = p
    BY <1>1, <1>3, BlocksAre
  <2>2. \A n \in 1 .. HeaderSize : f[s + n] = <<p, n>>
    BY <1>1, <1>3, BlocksAre
  <2> QED
    BY <2>1, <2>2 DEF HeadersAt
<1>9. Whole(f, s, p)
  <2>1. \A i \in (s + 1) .. (s + m) : f[i] \in Byte
    BY <1>1, <1>2, LenProperties, ElementOfSeq DEF File
  <2> DEFINE t == SubSeq(f, s + 1, s + m)
  <2>2. t \in Seq(Byte) /\ Len(t) = m /\ \A i \in 1 .. m : t[i] = f[s + i]
    <3>1. s + 1 \in Int /\ s + m \in Int /\ s + 1 =< s + m /\ (s + m) - (s + 1) + 1 = m
      BY <1>1, <1>2, BlocksAre
    <3>2. t \in Seq(Byte) /\ Len(t) = m /\ \A i \in 1 .. m : t[i] = f[(s + 1) + i - 1]
      BY <2>1, <3>1, SubSeqProperties
    <3>3. \A i \in 1 .. m : (s + 1) + i - 1 = s + i
      BY <1>1, <1>2
    <3> QED
      BY <3>2, <3>3
  <2>3. Bytes(p) \in Seq(Byte) /\ Len(Bytes(p)) = m /\ \A n \in 1 .. m : Bytes(p)[n] = <<p, n>>
    BY <1>1, BytesAre DEF File
  <2> HIDE DEF t
  <2>4. t = Bytes(p)
    BY <1>3, <2>2, <2>3, SeqEqual
  <2> QED
    <3>1. s + m = s + HeaderSize + Len(p.data)
      BY <1>1, <1>2, BlocksAre
    <3> QED
      BY <2>4, <3>1 DEF Whole, t
<1>10. (CHOOSE q \in {p} : TRUE) = p
  OBVIOUS
<1> HIDE DEF s
<1>11. ~ (BlockEnd(f, s) - s < HeaderSize) /\ ~ (HeaderSize + Len(p.data) > BlockEnd(f, s) - s)
  BY <1>1, <1>2, <1>7, BlocksAre
<1>12. EndOf(a, p) = s + HeaderSize + Len(p.data)
  BY DEF EndOf, s
<1> QED
  BY <1>6, <1>8, <1>9, <1>10, <1>11, <1>12 DEF Physical

\* A file that ends in a piece has no more to read there, and nothing to report.
LEMMA PhysicalCut ==
  ASSUME NEW f \in File, NEW g \in File, NEW a \in Nat, NEW p, HasPiece(f, a, p),
         a =< Len(g), Len(g) < EndOf(a, p), \A i \in 1 .. Len(g) : g[i] = f[i]
  PROVE  Physical(g, a) = Eof
<1> DEFINE s == Start(a)
           m == HeaderSize + Len(p.data)
           trailer == BlockEnd(g, a) - a < HeaderSize /\ ~AtEof(g, a)
           start == IF trailer THEN BlockEnd(g, a) ELSE a
<1>1. p \in Headers /\ Len(p.data) \in Nat /\ m \in Nat /\ HeaderSize =< m /\ Len(g) \in Nat
  <2>1. p \in Headers
    BY DEF HasPiece
  <2>2. Len(p.data) \in Nat /\ Len(g) \in Nat
    BY <2>1, EndsAt, LenProperties DEF File
  <2> QED
    BY <2>1, <2>2, BlocksAre
<1>2. s \in Nat /\ EndOf(a, p) = s + m /\ s + m =< Boundary(s) /\ a =< s
  <2>1. Start(a) \in Nat /\ a =< Start(a)
    BY StartAt
  <2>2. EndOf(a, p) = Start(a) + (HeaderSize + Len(p.data))
    BY <1>1, <2>1, BlocksAre DEF EndOf
  <2> QED
    BY <2>1, <2>2 DEF HasPiece
<1>3. \A n \in 1 .. m : f[s + n] = <<p, n>>
  BY DEF HasPiece
<1>4. Boundary(a) \in Nat /\ Boundary(s) \in Nat
  BY <1>2, Boundaries
<1>5. Len(g) < Boundary(s)
  BY <1>1, <1>2, <1>4
<1>6. CASE Len(g) < s
  <2>1. s = Boundary(a) /\ Boundary(a) - a < HeaderSize
    BY <1>6, StartAt
  <2>2. AtEof(g, a) /\ BlockEnd(g, a) = Len(g)
    BY <1>6, <2>1 DEF AtEof, BlockEnd
  <2>3. start = a
    BY <2>2
  <2>4. BlockEnd(g, start) - start < HeaderSize
    BY <1>1, <1>4, <1>6, <2>1, <2>2, <2>3, BlocksAre
  <2> HIDE DEF start
  <2>5. BlockEnd(g, IF trailer THEN BlockEnd(g, a) ELSE a)
          - (IF trailer THEN BlockEnd(g, a) ELSE a) < HeaderSize
    BY <2>4 DEF start
  <2> QED
    BY <2>5 DEF Physical
<1>7. CASE s =< Len(g)
  <2>1. start = s
    <3>1. CASE s = a
      <4>1. HeaderSize =< Boundary(a) - a
        BY <3>1, StartAt
      <4>2. ~trailer
        BY <4>1, <1>1, <1>4, BlocksAre DEF AtEof, BlockEnd
      <4> QED
        BY <3>1, <4>2
    <3>2. CASE s # a
      <4>1. s = Boundary(a) /\ Boundary(a) - a < HeaderSize
        BY <3>2, StartAt
      <4>2. ~AtEof(g, a) /\ BlockEnd(g, a) = s
        BY <1>1, <1>2, <1>7, <4>1 DEF AtEof, BlockEnd
      <4> QED
        BY <4>1, <4>2
    <3> QED
      BY <3>1, <3>2
  <2>2. AtEof(g, s) /\ BlockEnd(g, s) = Len(g)
    BY <1>5 DEF AtEof, BlockEnd
  <2>3. CASE Len(g) - s < HeaderSize
    <3> HIDE DEF start, s
    <3>1. BlockEnd(g, start) - start < HeaderSize
      BY <2>1, <2>2, <2>3
    <3> QED
      BY <3>1 DEF Physical, start
  <2>4. CASE ~ (Len(g) - s < HeaderSize)
    <3>1. \A n \in 1 .. HeaderSize : g[s + n] = <<p, n>>
      <4> SUFFICES ASSUME NEW n \in 1 .. HeaderSize PROVE g[s + n] = <<p, n>>
        OBVIOUS
      <4>1. s + n \in 1 .. Len(g) /\ n \in 1 .. m
        BY <1>1, <1>2, <2>4, BlocksAre
      <4> QED
        BY <4>1, <1>3
    <3>2. HeadersAt(g, s) = {p}
      <4>1. g[s + 1][1] = p
        BY <3>1, BlocksAre
      <4> QED
        BY <3>1, <4>1 DEF HeadersAt
    <3>3. (CHOOSE q \in {p} : TRUE) = p
      OBVIOUS
    <3>4. HeaderSize + Len(p.data) > BlockEnd(g, s) - s
      BY <1>1, <1>2, <2>2, BlocksAre
    <3>5. Short(g, s) = Eof
      BY <2>2 DEF Short
    <3>6. ~ (BlockEnd(g, s) - s < HeaderSize)
      BY <2>2, <2>4
    <3> HIDE DEF s
    <3> QED
      BY <2>1, <3>2, <3>3, <3>4, <3>5, <3>6 DEF Physical
  <2> QED
    BY <2>3, <2>4
<1> QED
  BY <1>1, <1>2, <1>6, <1>7

\* So has one that ends between pieces.
LEMMA PhysicalEnd ==
  ASSUME NEW g \in File
  PROVE  Physical(g, Len(g)) = Eof
<1> DEFINE a == Len(g)
<1>1. a \in Nat
  BY LenProperties DEF File
<1>2. a < Boundary(a)
  BY <1>1, Boundaries
<1>3. AtEof(g, a) /\ BlockEnd(g, a) = a
  BY <1>2 DEF AtEof, BlockEnd
<1>4. BlockEnd(g, a) - a < HeaderSize
  BY <1>1, <1>3, BlocksAre
<1> HIDE DEF a
<1>5. Physical(g, a) = Eof
  BY <1>3, <1>4 DEF Physical
<1> QED
  BY <1>5 DEF a

-----------------------------------------------------------------------------
(* Reading a file piece by piece.                                          *)

State == [at : Nat, scratch : Seq(Data), out : Seq(Data), alarms : Nat]
Found(p, next) == [type |-> p.type, data |-> p.data, next |-> next]

LEMMA TookPiece ==
  ASSUME NEW s \in State, NEW p \in Headers, NEW e \in Nat
  PROVE  Took(s, Found(p, e)) \in State /\ Took(s, Found(p, e)).at = e
<1> DEFINE q == Found(p, e)
           begun == s.scratch # <<>>
           unended == IF begun /\ s.scratch[1] # <<>> THEN 1 ELSE 0
<1>1. s.alarms \in Nat /\ s.scratch \in Seq(Data) /\ s.out \in Seq(Data) /\ s.at \in Nat
  BY DEF State
<1>2. p.data \in Data /\ p.type \in {"full", "first", "middle", "last"}
  BY DEF Headers
<1>3. q.type = p.type /\ q.data = p.data /\ q.next = e
  BY DEF Found
<1>4. unended \in Nat /\ s.alarms + unended \in Nat /\ s.alarms + 0 \in Nat /\ s.alarms + 1 \in Nat
  BY <1>1
<1>5. begun => s.scratch[1] \in Data /\ s.scratch[1] \o p.data \in Data
  <2> SUFFICES ASSUME begun PROVE s.scratch[1] \in Data /\ s.scratch[1] \o p.data \in Data
    OBVIOUS
  <2>1. Len(s.scratch) \in Nat \ {0}
    BY <1>1, EmptySeq
  <2>2. s.scratch[1] \in Data
    BY <1>1, <2>1, ElementOfSeq
  <2> QED
    BY <1>2, <2>2, ConcatProperties DEF Data
<1>6. \A d \in Data : <<d>> \in Seq(Data) /\ Append(s.out, d) \in Seq(Data)
  BY <1>1, AppendProperties
<1>7. <<>> \in Seq(Data)
  BY EmptySeq
<1> DEFINE to(scratch, out, alarms) ==
             [at |-> q.next, scratch |-> scratch, out |-> out, alarms |-> s.alarms + alarms]
<1>8. \A scratch \in Seq(Data), out \in Seq(Data), alarms \in {0, 1, unended} :
        to(scratch, out, alarms) \in State /\ to(scratch, out, alarms).at = e
  BY <1>3, <1>4 DEF State
<1> HIDE DEF q, unended
<1>9. CASE p.type = "full"
  <2>1. Took(s, q) = to(<<>>, Append(s.out, q.data), unended)
    BY <1>3, <1>9 DEF Took, unended
  <2>2. <<>> \in Seq(Data) /\ Append(s.out, q.data) \in Seq(Data)
    BY <1>2, <1>3, <1>6, <1>7
  <2> HIDE DEF to
  <2>3. Took(s, q) \in State /\ Took(s, q).at = e
    BY <1>8, <2>1, <2>2
  <2> QED
    BY <2>3 DEF q
<1>10. CASE p.type = "first"
  <2>1. Took(s, q) = to(<<q.data>>, s.out, unended)
    BY <1>3, <1>10 DEF Took, unended
  <2> HIDE DEF to
  <2> QED
    BY <1>1, <1>2, <1>3, <1>6, <1>8, <2>1 DEF q
<1>11. CASE p.type \in {"middle", "last"} /\ ~begun
  <2>1. Took(s, q) = to(<<>>, s.out, 1)
    BY <1>3, <1>11 DEF Took
  <2> HIDE DEF to
  <2> QED
    BY <1>1, <1>7, <1>8, <2>1 DEF q
<1>12. CASE p.type = "middle" /\ begun
  <2>1. Took(s, q) = to(<<s.scratch[1] \o q.data>>, s.out, 0)
    BY <1>3, <1>12 DEF Took
  <2>2. <<s.scratch[1] \o q.data>> \in Seq(Data)
    BY <1>3, <1>5, <1>6, <1>12
  <2> HIDE DEF to
  <2>3. Took(s, q) \in State /\ Took(s, q).at = e
    BY <1>1, <1>8, <2>1, <2>2
  <2> QED
    BY <2>3 DEF q
<1>13. CASE p.type = "last" /\ begun
  <2>1. Took(s, q) = to(<<>>, Append(s.out, s.scratch[1] \o q.data), 0)
    BY <1>3, <1>13 DEF Took
  <2>2. <<>> \in Seq(Data) /\ Append(s.out, s.scratch[1] \o q.data) \in Seq(Data)
    BY <1>3, <1>5, <1>6, <1>7, <1>13
  <2> HIDE DEF to
  <2>3. Took(s, q) \in State /\ Took(s, q).at = e
    BY <1>8, <2>1, <2>2
  <2> QED
    BY <2>3 DEF q
<1> QED
  BY <1>2, <1>9, <1>10, <1>11, <1>12, <1>13 DEF q

\* The first m turns of a reader of f each find a piece.
Reads(f, m) == \A k \in 0 .. (m - 1) : \E p : HasPiece(f, Reading(f, k).at, p)

\* One of them.
LEMMA ReadingPiece ==
  ASSUME NEW f \in File, NEW k \in Nat, NEW p, HasPiece(f, Reading(f, k).at, p),
         Reading(f, k) \in State
  PROVE  LET r == Reading(f, k)
         IN  /\ Reading(f, k + 1) = Took(r, Found(p, EndOf(r.at, p)))
             /\ Reading(f, k + 1) \in State
             /\ Reading(f, k + 1).at = EndOf(r.at, p)
             /\ r.at < EndOf(r.at, p)
<1> DEFINE r == Reading(f, k)
<1>1. r.at \in Nat /\ p \in Headers
  BY DEF State, HasPiece
<1>2. EndOf(r.at, p) \in Nat /\ r.at < EndOf(r.at, p)
  BY <1>1, EndsAt
<1>3. Physical(f, r.at) = Found(p, EndOf(r.at, p))
  BY <1>1, PhysicalPiece DEF Found
<1>4. Reading(f, k + 1) = Read(f, r)
  BY ReadingUnfold
<1> HIDE DEF r
<1>5. Reading(f, k + 1) = Took(r, Found(p, EndOf(r.at, p)))
  BY <1>3, <1>4 DEF Read
<1>6. r \in State
  BY DEF r
<1>7. Took(r, Found(p, EndOf(r.at, p))) \in State
      /\ Took(r, Found(p, EndOf(r.at, p))).at = EndOf(r.at, p)
  BY <1>1, <1>2, <1>6, TookPiece
<1> QED
  BY <1>2, <1>5, <1>7 DEF r

LEMMA ReadsType ==
  ASSUME NEW f \in File, NEW m \in Nat, Reads(f, m)
  PROVE  \A k \in 0 .. m : Reading(f, k) \in State /\ k =< Reading(f, k).at
<1> DEFINE P == {k \in Nat : Reading(f, k) \in State /\ k =< Reading(f, k).at}
<1>1. 0 \in P
  <2>1. Reading(f, 0) = [at |-> 0, scratch |-> <<>>, out |-> <<>>, alarms |-> 0]
    BY ReadingUnfold
  <2>2. <<>> \in Seq(Data)
    BY EmptySeq
  <2>3. Reading(f, 0) \in State
    <3>1. [at |-> 0, scratch |-> <<>>, out |-> <<>>, alarms |-> 0] \in State
      <4> DEFINE e == <<>>
      <4>1. e \in Seq(Data)
        BY <2>2
      <4> HIDE DEF e
      <4>2. [at |-> 0, scratch |-> e, out |-> e, alarms |-> 0] \in State
        BY <4>1 DEF State
      <4> QED
        BY <4>2 DEF e
    <3> QED
      BY <2>1, <3>1
  <2>4. Reading(f, 0).at = 0
    BY <2>1
  <2> QED
    BY <2>3, <2>4
<1>2. ASSUME NEW k \in 1 .. m, k - 1 \in P
      PROVE  k \in P
  <2> DEFINE j == k - 1
  <2>1. j \in Nat /\ j + 1 = k /\ Reading(f, j) \in State /\ j =< Reading(f, j).at
    BY <1>2
  <2>2. PICK p : HasPiece(f, Reading(f, j).at, p)
    BY <1>2 DEF Reads
  <2> HIDE DEF j
  <2>3. /\ Reading(f, j + 1) \in State
        /\ Reading(f, j + 1).at = EndOf(Reading(f, j).at, p)
        /\ Reading(f, j).at < EndOf(Reading(f, j).at, p)
    BY <2>1, <2>2, ReadingPiece
  <2>4. Reading(f, k) \in State /\ k =< Reading(f, k).at
    BY <2>1, <2>3 DEF State
  <2> QED
    BY <2>4
<1> HIDE DEF P
<1>3. \A k \in 0 .. m : k \in P
  BY <1>1, <1>2, UpTo
<1> QED
  BY <1>3 DEF P

\* The reader only moves on.
LEMMA ReadsMove ==
  ASSUME NEW f \in File, NEW m \in Nat, Reads(f, m), NEW j \in 0 .. m
  PROVE  \A k \in 0 .. m : j =< k => Reading(f, j).at =< Reading(f, k).at
<1>1. \A k \in 0 .. m : Reading(f, k) \in State /\ Reading(f, k).at \in Nat
  BY ReadsType DEF State
<1> DEFINE P == {k \in Nat : j =< k => Reading(f, j).at =< Reading(f, k).at}
<1>2. 0 \in P
  BY <1>1
<1>3. ASSUME NEW k \in 1 .. m, k - 1 \in P
      PROVE  k \in P
  <2> DEFINE i == k - 1
  <2>1. i \in 0 .. m /\ i + 1 = k /\ i \in Nat
    OBVIOUS
  <2>2. PICK p : HasPiece(f, Reading(f, i).at, p)
    BY DEF Reads
  <2>4. j =< i => Reading(f, j).at =< Reading(f, i).at
    BY <1>3
  <2> HIDE DEF i
  <2>3. Reading(f, i).at < Reading(f, i + 1).at
    BY <1>1, <2>1, <2>2, ReadingPiece
  <2>5. j =< k => Reading(f, j).at =< Reading(f, k).at
    <3>1. CASE j =< i
      BY <1>1, <2>1, <2>3, <2>4, <3>1
    <3>2. CASE ~ (j =< i)
      BY <1>1, <2>1, <3>2
    <3> QED
      BY <3>1, <3>2
  <2> QED
    BY <2>5
<1> HIDE DEF P
<1>4. \A k \in 0 .. m : k \in P
  BY <1>2, <1>3, UpTo
<1> QED
  BY <1>4 DEF P

\* Files that agree up to where the reader is are read alike up to there.
LEMMA ReadsAlike ==
  ASSUME NEW f \in File, NEW g \in File, NEW m \in Nat, Reads(f, m), NEW c \in Nat,
         c =< Len(g), \A i \in 1 .. c : g[i] = f[i], Reading(f, m).at =< c
  PROVE  Reads(g, m) /\ \A k \in 0 .. m : Reading(g, k) = Reading(f, k)
<1>1. \A k \in 0 .. m : Reading(f, k) \in State /\ Reading(f, k).at \in Nat
  BY ReadsType DEF State
<1>2. ASSUME NEW k \in 0 .. (m - 1), NEW p, HasPiece(f, Reading(f, k).at, p)
      PROVE  HasPiece(g, Reading(f, k).at, p)
  <2> DEFINE a == Reading(f, k).at
             e == EndOf(a, p)
  <2>1. a \in Nat /\ k \in Nat /\ k \in 0 .. m /\ k + 1 \in 0 .. m
    BY <1>1
  <2>2. Reading(f, k + 1).at = e
    BY <1>1, <1>2, <2>1, ReadingPiece
  <2>3. Reading(f, k + 1).at =< Reading(f, m).at
    BY <2>1, ReadsMove
  <2>4. e =< c
    BY <1>1, <2>1, <2>2, <2>3
  <2>5. p \in Headers
    BY <1>2 DEF HasPiece
  <2>6. Len(p.data) \in Nat /\ Start(a) \in Nat
    BY <2>1, <2>5, EndsAt, StartAt
  <2> HIDE DEF a
  <2>7. ASSUME NEW n \in 1 .. (HeaderSize + Len(p.data))
        PROVE  g[Start(a) + n] = <<p, n>>
    <3>1. Start(a) + n \in 1 .. c
      BY <2>4, <2>6, BlocksAre DEF EndOf
    <3>2. f[Start(a) + n] = <<p, n>>
      BY <1>2 DEF HasPiece, a
    <3> QED
      BY <3>1, <3>2
  <2>8. e =< Len(g)
    <3>1. e \in Nat /\ Len(g) \in Nat
      BY <2>1, <2>5, EndsAt, LenProperties DEF File, a
    <3> QED
      BY <2>4, <3>1
  <2>9. e =< Boundary(Start(a))
    BY <1>2 DEF HasPiece, a
  <2>10. HasPiece(g, a, p)
    BY <2>5, <2>7, <2>8, <2>9 DEF HasPiece
  <2> QED
    BY <2>10 DEF a
<1> DEFINE P == {k \in Nat : Reading(g, k) = Reading(f, k)}
<1>3. 0 \in P
  BY ReadingUnfold
<1>4. ASSUME NEW k \in 1 .. m, k - 1 \in P
      PROVE  k \in P
  <2> DEFINE i == k - 1
  <2>1. i \in 0 .. (m - 1) /\ i + 1 = k /\ i \in Nat /\ i \in 0 .. m
    OBVIOUS
  <2>2. PICK p : HasPiece(f, Reading(f, i).at, p)
    BY DEF Reads
  <2>3. Reading(g, i) = Reading(f, i)
    BY <1>4
  <2> HIDE DEF i
  <2>4. HasPiece(g, Reading(g, i).at, p)
    BY <1>2, <2>1, <2>2, <2>3
  <2>5. Reading(f, i + 1) = Took(Reading(f, i), Found(p, EndOf(Reading(f, i).at, p)))
    BY <1>1, <2>1, <2>2, ReadingPiece
  <2>6. Reading(g, i + 1) = Took(Reading(g, i), Found(p, EndOf(Reading(g, i).at, p)))
    BY <1>1, <2>1, <2>3, <2>4, ReadingPiece
  <2>7. Reading(g, k) = Reading(f, k)
    BY <2>1, <2>3, <2>5, <2>6
  <2> QED
    BY <2>7
<1> HIDE DEF P
<1>5. \A k \in 0 .. m : k \in P
  BY <1>3, <1>4, UpTo
<1>6. \A k \in 0 .. m : Reading(g, k) = Reading(f, k)
  BY <1>5 DEF P
<1>7. Reads(g, m)
  <2> SUFFICES ASSUME NEW k \in 0 .. (m - 1)
               PROVE  \E p : HasPiece(g, Reading(g, k).at, p)
    BY DEF Reads
  <2>1. PICK p : HasPiece(f, Reading(f, k).at, p)
    BY DEF Reads
  <2>2. HasPiece(g, Reading(f, k).at, p) /\ k \in 0 .. m
    BY <1>2, <2>1
  <2> QED
    BY <1>6, <2>2
<1> QED
  BY <1>6, <1>7

-----------------------------------------------------------------------------
(* A turn of the writer.                                                   *)

WState == [left : Data, begin : BOOLEAN, offset : 0 .. BlockSize, bytes : File]

\* Turn of w appends x: t bytes of a trailer, and p with n of the bytes left.
Appends(w, x, p, n, t) ==
  /\ x \in File /\ p \in Headers /\ n \in 0 .. Len(w.left) /\ t \in Nat
  /\ Turn(w) \in WState
  /\ Turn(w).bytes = w.bytes \o x
  /\ Turn(w).begin = FALSE
  /\ Turn(w).left = SubSeq(w.left, n + 1, Len(w.left))
  /\ p.data = SubSeq(w.left, 1, n)
  /\ p.type = CASE w.begin /\ n = Len(w.left) -> "full" [] w.begin /\ n # Len(w.left) -> "first"
                [] ~w.begin /\ n = Len(w.left) -> "last" [] OTHER -> "middle"
  /\ Len(x) = t + HeaderSize + Len(p.data)
  /\ \A i \in 1 .. t : x[i] = Fill
  /\ \A i \in 1 .. (HeaderSize + Len(p.data)) : x[t + i] = <<p, i>>
  /\ n # Len(w.left) => Turn(w).offset = BlockSize
  /\ w.offset = BlockSize /\ w.left # <<>> => n > 0

\* The reader finds p in it, at the end of f, and w is where f ends then.
Writes(f, w, x, p) ==
  /\ HasPiece(f \o x, Len(f), p)
  /\ Len(f \o x) = EndOf(Len(f), p)
  /\ Aligned(Turn(w).offset, Len(f \o x))

LEMMA PrefixOf ==
  ASSUME NEW S, NEW s \in Seq(S), NEW m \in 1 .. (Len(s) + 1), NEW n \in 0 .. Len(s)
  PROVE  /\ SubSeq(s, m, n) \in Seq(S)
         /\ Len(SubSeq(s, m, n)) = IF m =< n THEN n - m + 1 ELSE 0
         /\ \A i \in 1 .. (n - m + 1) : SubSeq(s, m, n)[i] = s[m + i - 1]
<1>1. Len(s) \in Nat
  BY LenProperties
<1>2. \A i \in m .. n : s[i] \in S
  BY <1>1, ElementOfSeq
<1>3. m \in Int /\ n \in Int
  BY <1>1
<1> QED
  BY <1>2, <1>3, SubSeqProperties

\* The last of its elements, without the first n.
LEMMA RestOf ==
  ASSUME NEW s \in Data, NEW n \in 0 .. Len(s)
  PROVE  /\ SubSeq(s, n + 1, Len(s)) \in Data /\ SubSeq(s, 1, n) \in Data
         /\ Len(SubSeq(s, n + 1, Len(s))) = Len(s) - n
         /\ Len(SubSeq(s, 1, n)) = n
         /\ SubSeq(s, 1, n) \o SubSeq(s, n + 1, Len(s)) = s
<1>1. s \in Seq(Nat \X Nat) /\ Len(s) \in Nat
  BY LenProperties DEF Data
<1>2. 1 \in 1 .. (Len(s) + 1) /\ n + 1 \in 1 .. (Len(s) + 1) /\ Len(s) \in 0 .. Len(s)
      /\ n \in (1 - 1) .. Len(s) /\ Len(s) \in n .. Len(s)
  BY <1>1
<1>3. /\ SubSeq(s, 1, n) \in Seq(Nat \X Nat) /\ SubSeq(s, n + 1, Len(s)) \in Seq(Nat \X Nat)
      /\ Len(SubSeq(s, n + 1, Len(s))) = IF n + 1 =< Len(s) THEN Len(s) - (n + 1) + 1 ELSE 0
      /\ Len(SubSeq(s, 1, n)) = IF 1 =< n THEN n - 1 + 1 ELSE 0
  BY <1>1, <1>2, PrefixOf
<1>4. SubSeq(s, 1, n) \o SubSeq(s, n + 1, Len(s)) = SubSeq(s, 1, Len(s))
  BY <1>1, <1>2, ConcatAdjacentSubSeq
<1>5. SubSeq(s, 1, Len(s)) = s
  BY <1>1, SubSeqFull
<1>6. Len(SubSeq(s, n + 1, Len(s))) = Len(s) - n /\ Len(SubSeq(s, 1, n)) = n
  BY <1>1, <1>3
<1> QED
  BY <1>3, <1>4, <1>5, <1>6 DEF Data

LEMMA FillIsByte == Fill \in Byte
<1> DEFINE e == <<>>
<1>1. e \in Data
  BY EmptySeq DEF Data
<1> HIDE DEF e
<1>2. <<[type |-> "zero", data |-> e], 0>> \in Byte
  BY <1>1 DEF Byte
<1> QED
  BY <1>2 DEF Fill, e

LEMMA TurnWrites ==
  ASSUME NEW f \in File, NEW w \in WState, Aligned(w.offset, Len(f))
  PROVE  \E x, p, n, t : Appends(w, x, p, n, t) /\ Writes(f, w, x, p)
<1> DEFINE o == w.offset
           leftover == BlockSize - o
           skip == leftover < HeaderSize
           start == IF skip THEN 0 ELSE o
           avail == BlockSize - start - HeaderSize
           n == IF Len(w.left) < avail THEN Len(w.left) ELSE avail
           end == n = Len(w.left)
           type == CASE w.begin /\ end -> "full" [] w.begin /\ ~end -> "first"
                     [] ~w.begin /\ end -> "last" [] OTHER -> "middle"
           fill == IF skip THEN [i \in 1 .. leftover |-> Fill] ELSE <<>>
           p == [type |-> type, data |-> SubSeq(w.left, 1, n)]
           x == fill \o Bytes(p)
           L == Len(f)
           s == L + Len(fill)
<1>1. /\ w.left \in Data /\ w.begin \in BOOLEAN /\ o \in 0 .. BlockSize /\ w.bytes \in File
      /\ Len(w.left) \in Nat /\ L \in Nat
  BY LenProperties DEF WState, Data, File
<1>2. leftover \in Nat /\ start \in 0 .. (BlockSize - HeaderSize) /\ avail \in Nat
      /\ start + HeaderSize + avail = BlockSize
  BY <1>1, BlocksAre
<1>3. n \in 0 .. Len(w.left) /\ n =< avail /\ (n # Len(w.left) => n = avail)
  BY <1>1, <1>2
<1>4. Fill \in Byte
  BY FillIsByte
<1>5. fill \in File /\ Len(fill) = IF skip THEN leftover ELSE 0
  <2>1. CASE skip
    <3>1. [i \in 1 .. leftover |-> Fill] \in [1 .. leftover -> Byte]
      BY <1>4
    <3> HIDE DEF leftover, skip
    <3> QED
      BY <1>2, <2>1, <3>1 DEF File
  <2>2. CASE ~skip
    BY <2>2, EmptySeq DEF File
  <2> QED
    BY <2>1, <2>2
<1>6. s = Start(L) /\ s \in Nat /\ Boundary(s) - s = BlockSize - start
  <2>1. /\ Boundary(L) \in Nat /\ L < Boundary(L)
        /\ Boundary(Boundary(L)) = Boundary(L) + BlockSize
    BY <1>1, Boundaries
  <2>2. CASE o = BlockSize
    <3>1. skip /\ leftover = 0 /\ s = L /\ start = 0
      BY <1>1, <1>5, <2>2, BlocksAre
    <3>2. Boundary(L) - L = BlockSize
      BY <2>2 DEF Aligned
    <3>3. Start(L) = L
      BY <3>2, BlocksAre DEF Start
    <3> QED
      BY <1>1, <3>1, <3>2, <3>3, BlocksAre
  <2>3. CASE o # BlockSize
    <3>1. Boundary(L) - L = leftover
      BY <1>1, <2>3, BlocksAre DEF Aligned
    <3>2. CASE skip
      <4>1. s = L + leftover /\ start = 0 /\ Start(L) = Boundary(L)
        BY <1>5, <3>1, <3>2 DEF Start
      <4>2. Boundary(L) = L + leftover
        BY <1>1, <1>2, <2>1, <3>1
      <4> HIDE DEF s, start, leftover
      <4> QED
        BY <1>1, <1>2, <2>1, <4>1, <4>2, BlocksAre
    <3>3. CASE ~skip
      <4>1. s = L /\ start = o /\ Start(L) = L
        BY <1>1, <1>5, <3>1, <3>3 DEF Start
      <4> QED
        BY <1>1, <3>1, <4>1
    <3> QED
      BY <3>2, <3>3
  <2> QED
    BY <2>2, <2>3
<1>7. Turn(w) = [left |-> SubSeq(w.left, n + 1, Len(w.left)), begin |-> FALSE,
                 offset |-> start + HeaderSize + n, bytes |-> w.bytes \o fill \o Bytes(p)]
  BY DEF Turn, PieceOffset
<1>8. p.data = SubSeq(w.left, 1, n) /\ p.type = type
  OBVIOUS
<1>9. /\ SubSeq(w.left, 1, n) \in Data /\ Len(SubSeq(w.left, 1, n)) = n
      /\ SubSeq(w.left, n + 1, Len(w.left)) \in Data
  <2>1. w.left \in Seq(Nat \X Nat) /\ 1 \in 1 .. (Len(w.left) + 1) /\ n + 1 \in 1 .. (Len(w.left) + 1)
        /\ Len(w.left) \in 0 .. Len(w.left) /\ n \in 0 .. Len(w.left) /\ n \in Nat
    BY <1>1, <1>3 DEF Data
  <2> HIDE DEF n
  <2>2. SubSeq(w.left, 1, n) \in Seq(Nat \X Nat) /\ SubSeq(w.left, n + 1, Len(w.left)) \in Seq(Nat \X Nat)
        /\ Len(SubSeq(w.left, 1, n)) = IF 1 =< n THEN n - 1 + 1 ELSE 0
    BY <2>1, PrefixOf
  <2> QED
    BY <2>1, <2>2 DEF Data
<1>10. type \in {"full", "first", "middle", "last"}
  OBVIOUS
<1>11. p \in Headers
  BY <1>9, <1>10 DEF Headers
<1> HIDE DEF type, p, n, fill, start, avail
<1>12. /\ Bytes(p) \in File /\ Len(Bytes(p)) = HeaderSize + n
       /\ \A i \in 1 .. (HeaderSize + n) : Bytes(p)[i] = <<p, i>>
  BY <1>8, <1>9, <1>11, BytesAre
<1>13. /\ x \in File /\ Len(x) = Len(fill) + HeaderSize + n
       /\ \A i \in 1 .. (HeaderSize + n) : x[Len(fill) + i] = <<p, i>>
  <2>1. Len(fill) \in Nat /\ n \in Nat /\ HeaderSize \in Nat
    BY <1>1, <1>3, <1>5, LenProperties, BlocksAre DEF File
  <2>2. /\ x \in Seq(Byte) /\ Len(x) = Len(fill) + Len(Bytes(p))
        /\ \A i \in 1 .. (Len(fill) + Len(Bytes(p))) :
             x[i] = IF i <= Len(fill) THEN fill[i] ELSE Bytes(p)[i - Len(fill)]
    BY <1>5, <1>12, ConcatProperties DEF File
  <2> HIDE DEF x
  <2>3. ASSUME NEW i \in 1 .. (HeaderSize + n) PROVE x[Len(fill) + i] = <<p, i>>
    <3>1. Len(fill) + i \in 1 .. (Len(fill) + Len(Bytes(p))) /\ ~ (Len(fill) + i <= Len(fill))
          /\ (Len(fill) + i) - Len(fill) = i
      BY <1>12, <2>1
    <3> QED
      BY <1>12, <2>2, <3>1
  <2>4. Len(x) = Len(fill) + HeaderSize + n
    BY <1>12, <2>1, <2>2
  <2>5. x \in File
    BY <2>2 DEF File
  <2> QED
    BY <2>3, <2>4, <2>5
<1>14. /\ f \o x \in File /\ Len(f \o x) = L + Len(x)
       /\ \A i \in 1 .. (HeaderSize + n) : (f \o x)[s + i] = <<p, i>>
  <2>1. Len(fill) \in Nat /\ n \in Nat /\ HeaderSize \in Nat
    BY <1>1, <1>3, <1>5, LenProperties, BlocksAre DEF File
  <2> HIDE DEF x
  <2>2. /\ f \o x \in Seq(Byte) /\ Len(f \o x) = L + Len(x)
        /\ \A i \in 1 .. (L + Len(x)) : (f \o x)[i] = IF i <= L THEN f[i] ELSE x[i - L]
    BY <1>13, ConcatProperties DEF File
  <2>3. ASSUME NEW i \in 1 .. (HeaderSize + n) PROVE (f \o x)[s + i] = <<p, i>>
    <3>1. s + i \in 1 .. (L + Len(x)) /\ ~ (s + i <= L) /\ (s + i) - L = Len(fill) + i
      BY <1>1, <1>13, <2>1
    <3> QED
      BY <1>13, <2>2, <3>1
  <2> QED
    BY <2>2, <2>3 DEF File
<1> HIDE DEF x, s, leftover, L, o
<1>15. Len(f \o x) = s + HeaderSize + n /\ n \in Nat
  BY <1>1, <1>3, <1>5, <1>13, <1>14, LenProperties, BlocksAre DEF File, s, L
<1>16. EndOf(L, p) = s + HeaderSize + n
  BY <1>6, <1>8, <1>9 DEF EndOf
<1>17. Boundary(s) \in Nat /\ s + HeaderSize + n =< Boundary(s)
  <2>1. Boundary(s) \in Nat
    BY <1>6, Boundaries
  <2> QED
    BY <1>2, <1>3, <1>6, <1>15, <2>1, BlocksAre
<1>18. HasPiece(f \o x, L, p)
  <2>1. Len(p.data) = n /\ Start(L) = s
    BY <1>6, <1>8, <1>9
  <2>2. EndOf(L, p) =< Boundary(Start(L)) /\ EndOf(L, p) =< Len(f \o x)
    BY <1>6, <1>15, <1>16, <1>17, <2>1, BlocksAre
  <2> QED
    BY <1>11, <1>14, <2>1, <2>2 DEF HasPiece
<1>19. Turn(w).offset = start + HeaderSize + n /\ start + HeaderSize + n \in 0 .. BlockSize
  BY <1>2, <1>3, <1>7, <1>15, BlocksAre
<1>20. Aligned(start + HeaderSize + n, s + HeaderSize + n)
  <2> DEFINE e == s + HeaderSize + n
             b == start + HeaderSize + n
  <2>1. e \in Nat /\ s =< e /\ b \in 0 .. BlockSize /\ Boundary(s) - e = BlockSize - b
    BY <1>2, <1>6, <1>15, <1>17, <1>19, BlocksAre
  <2>2. \A y \in Nat : s =< y /\ y < Boundary(s) => Boundary(y) = Boundary(s)
    BY <1>6, Boundaries
  <2>3. Boundary(Boundary(s)) = Boundary(s) + BlockSize
    BY <1>6, Boundaries
  <2> HIDE DEF e, b
  <2>4. CASE b < BlockSize
    <3>1. e < Boundary(s)
      BY <1>17, <2>1, <2>4, BlocksAre
    <3>2. Boundary(e) = Boundary(s)
      BY <2>1, <2>2, <3>1
    <3> QED
      BY <2>1, <2>4, <3>2 DEF Aligned, e, b
  <2>5. CASE b = BlockSize
    <3>1. e = Boundary(s)
      BY <1>17, <2>1, <2>5, BlocksAre
    <3>2. Boundary(e) - e = BlockSize
      BY <1>17, <2>3, <3>1, BlocksAre
    <3> QED
      BY <2>1, <2>5, <3>2 DEF Aligned, e, b
  <2> QED
    BY <2>1, <2>4, <2>5, BlocksAre
<1>21. n # Len(w.left) => Turn(w).offset = BlockSize
  BY <1>2, <1>3, <1>19, BlocksAre
<1>22. o = BlockSize /\ w.left # <<>> => n > 0
  <2> SUFFICES ASSUME o = BlockSize, w.left # <<>> PROVE n > 0
    OBVIOUS
  <2>1. Len(w.left) > 0
    BY <1>1, EmptySeq DEF Data
  <2>2. start = 0 /\ avail > 0
    BY BlocksAre DEF start, avail, skip, leftover
  <2> QED
    BY <1>1, <2>1, <2>2 DEF n
<1>23. /\ Turn(w).bytes = w.bytes \o x /\ w.bytes \o x \in File
       /\ w.bytes \o fill \o Bytes(p) = w.bytes \o x
  <2>1. (w.bytes \o fill) \o Bytes(p) = w.bytes \o x
    <3>1. w.bytes \in Seq(Byte) /\ fill \in Seq(Byte) /\ Bytes(p) \in Seq(Byte)
      BY <1>1, <1>5, <1>12 DEF File
    <3> DEFINE b == w.bytes
               y == Bytes(p)
    <3>2. b \in Seq(Byte) /\ fill \in Seq(Byte) /\ y \in Seq(Byte)
      BY <3>1
    <3> HIDE DEF b, y
    <3>3. (b \o fill) \o y = b \o (fill \o y)
      BY <3>2, ConcatAssociative
    <3> QED
      BY <3>3 DEF x, b, y
  <2>2. w.bytes \o x \in File
    BY <1>1, <1>13, ConcatProperties DEF File
  <2> QED
    BY <1>7, <2>1, <2>2
<1>24. /\ Turn(w).begin = FALSE /\ Turn(w).left = SubSeq(w.left, n + 1, Len(w.left))
       /\ Turn(w) \in WState
  <2>1. Turn(w) = [left |-> SubSeq(w.left, n + 1, Len(w.left)), begin |-> FALSE,
                   offset |-> start + HeaderSize + n, bytes |-> w.bytes \o x]
    BY <1>7, <1>23
  <2>2. Turn(w) \in WState
    BY <1>9, <1>19, <1>23, <2>1 DEF WState
  <2>3. Turn(w).begin = FALSE /\ Turn(w).left = SubSeq(w.left, n + 1, Len(w.left))
    <3> DEFINE rest == SubSeq(w.left, n + 1, Len(w.left))
               offset == start + HeaderSize + n
               bytes == w.bytes \o x
               t == Turn(w)
    <3>1. t = [left |-> rest, begin |-> FALSE, offset |-> offset, bytes |-> bytes]
      BY <2>1
    <3> HIDE DEF rest, offset, bytes, t
    <3>2. t.begin = FALSE /\ t.left = rest
      BY <3>1
    <3> QED
      BY <3>2 DEF t, rest
  <2> QED
    BY <2>2, <2>3
<1>25. p.type = CASE w.begin /\ n = Len(w.left) -> "full" [] w.begin /\ n # Len(w.left) -> "first"
                  [] ~w.begin /\ n = Len(w.left) -> "last" [] OTHER -> "middle"
  BY <1>8 DEF type
<1>26. \A i \in 1 .. Len(fill) : x[i] = Fill
  <2>1. \A i \in 1 .. Len(fill) : fill[i] = Fill
    BY <1>2, <1>5 DEF fill
  <2>2. fill \in Seq(Byte) /\ Bytes(p) \in Seq(Byte)
    BY <1>5, <1>12 DEF File
  <2>3. Len(fill) \in Nat /\ Len(Bytes(p)) \in Nat
    BY <2>2, LenProperties
  <2>4. \A i \in 1 .. (Len(fill) + Len(Bytes(p))) :
          (fill \o Bytes(p))[i] = IF i <= Len(fill) THEN fill[i] ELSE Bytes(p)[i - Len(fill)]
    BY <2>2, ConcatProperties
  <2> QED
    BY <2>1, <2>3, <2>4 DEF x
<1>27. Len(p.data) = n /\ Len(fill) \in Nat
  BY <1>5, <1>8, <1>9, LenProperties DEF File
<1>28. Appends(w, x, p, n, Len(fill))
  BY <1>3, <1>8, <1>11, <1>13, <1>21, <1>22, <1>23, <1>24, <1>25, <1>26, <1>27 DEF Appends, o
<1>29. Writes(f, w, x, p)
  BY <1>15, <1>16, <1>18, <1>19, <1>20 DEF Writes, L
<1> QED
  BY <1>28, <1>29

\* A turn appends as much wherever the file ends.
LEMMA TurnAppends ==
  ASSUME NEW w \in WState
  PROVE  \E x, p, n, t : Appends(w, x, p, n, t)
<1> DEFINE b == w.offset
           f == [j \in 1 .. b |-> Fill]
<1>1. b \in 0 .. BlockSize /\ b \in Nat
  BY BlocksAre DEF WState
<1>2. Fill \in Byte
  BY FillIsByte
<1> HIDE DEF b
<1>3. f \in File /\ Len(f) = b
  BY <1>1, <1>2 DEF File
<1> HIDE DEF f
<1>4. Aligned(b, Len(f))
  BY <1>1, <1>3, AlignedIsModulo
<1> QED
  BY <1>3, <1>4, TurnWrites DEF b

\* Only the first turn may take nothing, so MaxTurns are enough.
LEMMA TurnsEnd ==
  ASSUME NEW data \in Data, NEW o \in 0 .. BlockSize
  PROVE  /\ \A n \in 0 .. MaxTurns(Len(data)) : Turns(data, o, n) \in WState
         /\ ~More(Turns(data, o, MaxTurns(Len(data))))
<1> DEFINE M == MaxTurns(Len(data))
           Fine(w, n) == /\ w \in WState
                         /\ n = 0 => w.left = data
                         /\ n > 0 => ~w.begin
                         /\ n > 0 /\ More(w) => /\ w.offset = BlockSize
                                                /\ Len(w.left) + n =< Len(data) + 1
           P == {n \in Nat : Fine(Turns(data, o, n), n)}
<1>1. Len(data) \in Nat /\ M = Len(data) + 2 /\ M \in Nat
  BY LenProperties DEF Data, MaxTurns
<1> HIDE DEF M
<1>2. 0 \in P
  <2> DEFINE e == <<>>
             w == Turns(data, o, 0)
  <2>1. e \in File
    BY EmptySeq DEF File
  <2>2. w = [left |-> data, begin |-> TRUE, offset |-> o, bytes |-> e]
    BY TurnsUnfold
  <2> HIDE DEF e, w
  <2>3. w \in WState /\ w.left = data
    BY <2>1, <2>2 DEF WState
  <2>4. Fine(w, 0)
    BY <2>3
  <2> QED
    BY <2>4 DEF w
<1>3. ASSUME NEW n \in 1 .. M, n - 1 \in P
      PROVE  n \in P
  <2> DEFINE i == n - 1
             w == Turns(data, o, i)
             v == Turns(data, o, n)
  <2>1. i \in Nat /\ i + 1 = n /\ n \in Nat /\ Fine(w, i)
    BY <1>3
  <2> HIDE DEF i
  <2>2. v = TurnIfMore(w)
    BY <2>1, TurnsUnfold
  <2> HIDE DEF w, v
  <2>3. CASE ~More(w)
    <3>1. v = w
      BY <2>2, <2>3 DEF TurnIfMore
    <3>2. ~w.begin
      BY <2>3 DEF More
    <3>3. Fine(v, n)
      BY <2>1, <2>3, <3>1, <3>2
    <3> QED
      BY <2>1, <3>3 DEF v
  <2>4. CASE More(w)
    <3>1. v = Turn(w)
      BY <2>2, <2>4 DEF TurnIfMore
    <3>2. PICK x, p, l, t : Appends(w, x, p, l, t)
      BY <2>1, TurnAppends
    <3>3. /\ l \in 0 .. Len(w.left) /\ v \in WState /\ v.begin = FALSE
          /\ v.left = SubSeq(w.left, l + 1, Len(w.left))
          /\ (l # Len(w.left) => v.offset = BlockSize)
          /\ (w.offset = BlockSize /\ w.left # <<>> => l > 0)
      BY <3>1, <3>2 DEF Appends
    <3>4. w.left \in Data /\ Len(w.left) \in Nat
      BY <2>1, LenProperties DEF WState, Data
    <3>5. Len(v.left) = Len(w.left) - l
      BY <3>3, <3>4, RestOf
    <3>6. More(v) => l # Len(w.left)
      <4> SUFFICES ASSUME More(v), l = Len(w.left) PROVE FALSE
        OBVIOUS
      <4>1. Len(v.left) = 0
        BY <3>4, <3>5
      <4>2. v.left \in Data /\ v.left # <<>>
        BY <3>3 DEF More, WState
      <4> QED
        BY <4>1, <4>2, EmptySeq DEF Data
    <3> DEFINE a == Len(w.left)
               b == Len(data)
               c == Len(v.left)
    <3>7. i > 0 => a + i =< b + 1 /\ l > 0
      <4> SUFFICES ASSUME i > 0 PROVE a + i =< b + 1 /\ l > 0
        OBVIOUS
      <4>1. w.offset = BlockSize /\ ~w.begin /\ a + i =< b + 1
        BY <2>1, <2>4
      <4> QED
        BY <2>4, <3>3, <4>1 DEF More
    <3>8. i = 0 => a = b
      BY <2>1
    <3>9. a \in Nat /\ b \in Nat /\ c = a - l /\ l \in 0 .. a
      BY <1>1, <3>3, <3>4, <3>5
    <3> HIDE DEF a, b, c
    <3>10. c + n =< b + 1
      BY <2>1, <3>7, <3>8, <3>9
    <3>11. Fine(v, n)
      BY <2>1, <3>3, <3>6, <3>10 DEF b, c
    <3> QED
      BY <2>1, <3>11 DEF v
  <2> QED
    BY <2>3, <2>4
<1> HIDE DEF P
<1>4. \A n \in 0 .. M : n \in P
  BY <1>1, <1>2, <1>3, UpTo
<1>5. \A n \in 0 .. M : Turns(data, o, n) \in WState
  BY <1>4 DEF P
<1>6. ASSUME More(Turns(data, o, M))
      PROVE  FALSE
  <2> DEFINE w == Turns(data, o, M)
             a == Len(w.left)
             b == Len(data)
  <2>1. M \in P /\ M > 0
    BY <1>1, <1>4
  <2>2. a + M =< b + 1
    BY <1>6, <2>1 DEF P
  <2>3. w.left \in Data
    BY <1>1, <1>5 DEF WState
  <2> HIDE DEF w
  <2>4. a \in Nat /\ b \in Nat /\ M = b + 2
    BY <1>1, <2>3, LenProperties DEF Data
  <2> HIDE DEF a, b
  <2> QED
    BY <2>2, <2>4
<1> QED
  BY <1>5, <1>6 DEF M

-----------------------------------------------------------------------------
(* A file that the reader gets through.                                    *)

Entries == Seq([data : Data, end : Nat])

\* m turns read all of f: the data of W, each complete where W says it ends.
Told(f, m, W) ==
  /\ m \in Nat
  /\ Reads(f, m)
  /\ \A k \in 0 .. m : /\ Reading(f, k).alarms = 0
                       /\ Len(Reading(f, k).out) =< Len(W)
                       /\ \A i \in 1 .. Len(Reading(f, k).out) : Reading(f, k).out[i] = W[i].data
                       /\ \A i \in 1 .. Len(W) : i =< Len(Reading(f, k).out)
                                                   <=> W[i].end =< Reading(f, k).at
  /\ \A i \in 1 .. Len(W) : \E k \in 0 .. m : W[i].end = Reading(f, k).at
  /\ Reading(f, m).at = Len(f)
  /\ Len(Reading(f, m).out) = Len(W)

\* One piece more.
LEMMA OnePieceMore ==
  ASSUME NEW f \in File, NEW x \in File, NEW m \in Nat, Reads(f, m), Reading(f, m).at = Len(f),
         NEW p, HasPiece(f \o x, Len(f), p), Len(f \o x) = EndOf(Len(f), p)
  PROVE  /\ f \o x \in File /\ Len(f) < Len(f \o x)
         /\ Reads(f \o x, m + 1)
         /\ \A k \in 0 .. m : Reading(f \o x, k) = Reading(f, k)
         /\ Reading(f \o x, m + 1) = Took(Reading(f, m), Found(p, Len(f \o x)))
         /\ Reading(f \o x, m + 1).at = Len(f \o x)
         /\ Reading(f \o x, m + 1) \in State
<1> DEFINE g == f \o x
<1>1. g \in File /\ Len(f) \in Nat /\ Len(f) =< Len(g) /\ \A i \in 1 .. Len(f) : g[i] = f[i]
  <2>1. f \in Seq(Byte) /\ x \in Seq(Byte)
    BY DEF File
  <2>2. Len(f) \in Nat /\ Len(x) \in Nat
    BY <2>1, LenProperties
  <2>3. g \in Seq(Byte) /\ Len(g) = Len(f) + Len(x)
        /\ \A i \in 1 .. (Len(f) + Len(x)) : g[i] = IF i <= Len(f) THEN f[i] ELSE x[i - Len(f)]
    BY <2>1, ConcatProperties
  <2> HIDE DEF g
  <2> QED
    BY <2>2, <2>3 DEF File
<1> HIDE DEF g
<1>2. Reads(g, m) /\ \A k \in 0 .. m : Reading(g, k) = Reading(f, k)
  BY <1>1, ReadsAlike
<1>3. HasPiece(g, Len(f), p) /\ Len(g) = EndOf(Len(f), p)
  BY DEF g
<1>4. Reading(g, m) = Reading(f, m) /\ Reading(f, m) \in State
  BY <1>2, ReadsType
<1>5. HasPiece(g, Reading(g, m).at, p)
  BY <1>3, <1>4
<1>6. /\ Reading(g, m + 1) = Took(Reading(f, m), Found(p, Len(g)))
      /\ Reading(g, m + 1) \in State /\ Reading(g, m + 1).at = Len(g) /\ Len(f) < Len(g)
  BY <1>1, <1>3, <1>4, <1>5, ReadingPiece
<1>7. Reads(g, m + 1)
  <2> SUFFICES ASSUME NEW k \in 0 .. m PROVE \E q : HasPiece(g, Reading(g, k).at, q)
    BY DEF Reads
  <2>1. CASE k = m
    BY <1>5, <2>1
  <2>2. CASE k # m
    <3>1. k \in 0 .. (m - 1)
      BY <2>2
    <3> QED
      BY <1>2, <3>1 DEF Reads
  <2> QED
    BY <2>1, <2>2
<1> QED
  BY <1>1, <1>2, <1>6, <1>7 DEF g

\* It does not end a record.
LEMMA ToldPiece ==
  ASSUME NEW f \in File, NEW x \in File, NEW m, NEW W \in Entries, Told(f, m, W),
         NEW p, HasPiece(f \o x, Len(f), p), Len(f \o x) = EndOf(Len(f), p),
         \/ p.type = "first" /\ Reading(f, m).scratch = <<>>
         \/ p.type = "middle" /\ Reading(f, m).scratch # <<>>
  PROVE  /\ Told(f \o x, m + 1, W)
         /\ Reading(f \o x, m + 1).scratch =
              <<IF p.type = "first" THEN p.data ELSE Reading(f, m).scratch[1] \o p.data>>
<1> DEFINE g == f \o x
           r == Reading(f, m)
           t == Reading(g, m + 1)
           data == IF p.type = "first" THEN p.data ELSE r.scratch[1] \o p.data
<1>1. m \in Nat /\ Reads(f, m) /\ r.at = Len(f) /\ r \in State
  <2>1. m \in Nat /\ Reads(f, m) /\ r.at = Len(f)
    BY DEF Told
  <2> QED
    BY <2>1, ReadsType
<1>2. /\ Reads(g, m + 1) /\ \A k \in 0 .. m : Reading(g, k) = Reading(f, k)
      /\ t = Took(r, Found(p, Len(g))) /\ t.at = Len(g) /\ Len(f) < Len(g) /\ g \in File
  BY <1>1, OnePieceMore
<1> HIDE DEF g
<1>3. t = [at |-> Len(g), scratch |-> <<data>>, out |-> r.out, alarms |-> r.alarms + 0]
  <2> HIDE DEF r, t
  <2>1. CASE p.type = "first" /\ r.scratch = <<>>
    <3>1. data = p.data
      BY <2>1
    <3> QED
      BY <1>2, <2>1, <3>1 DEF Took, Found
  <2>2. CASE p.type = "middle" /\ r.scratch # <<>>
    <3>1. data = r.scratch[1] \o p.data
      BY <2>2
    <3> QED
      BY <1>2, <2>2, <3>1 DEF Took, Found
  <2> QED
    BY <2>1, <2>2 DEF r
<1>4. t.out = r.out /\ t.alarms = r.alarms /\ t.scratch = <<data>>
  <2>1. r.alarms \in Nat
    BY <1>1 DEF State
  <2> HIDE DEF r, t, data
  <2>2. t.out = r.out /\ t.alarms = r.alarms + 0 /\ t.scratch = <<data>>
    BY <1>3
  <2> QED
    BY <2>1, <2>2
<1> HIDE DEF data
<1>5. Len(f) \in Nat /\ Len(g) \in Nat /\ Len(W) \in Nat
      /\ \A i \in 1 .. Len(W) : W[i].end \in Nat
  <2>1. Len(f) \in Nat /\ Len(g) \in Nat /\ Len(W) \in Nat
    BY <1>2, LenProperties DEF File, Entries
  <2>2. \A i \in 1 .. Len(W) : W[i] \in [data : Data, end : Nat]
    BY ElementOfSeq DEF Entries
  <2> QED
    BY <2>1, <2>2
<1>6. /\ r.alarms = 0 /\ Len(r.out) = Len(W)
      /\ \A i \in 1 .. Len(r.out) : r.out[i] = W[i].data
      /\ \A i \in 1 .. Len(W) : W[i].end =< Len(f)
  BY <1>1, <1>5 DEF Told
<1>7. ASSUME NEW k \in 0 .. (m + 1)
      PROVE  /\ Reading(g, k).alarms = 0 /\ Len(Reading(g, k).out) =< Len(W)
             /\ \A i \in 1 .. Len(Reading(g, k).out) : Reading(g, k).out[i] = W[i].data
             /\ \A i \in 1 .. Len(W) : i =< Len(Reading(g, k).out)
                                         <=> W[i].end =< Reading(g, k).at
  <2>1. CASE k = m + 1
    <3>1. Reading(g, k) = t
      BY <2>1
    <3> HIDE DEF t, r
    <3> QED
      BY <1>2, <1>4, <1>5, <1>6, <3>1
  <2>2. CASE k # m + 1
    <3>1. k \in 0 .. m
      BY <1>1, <2>2
    <3>2. Reading(g, k) = Reading(f, k)
      BY <1>2, <3>1
    <3> QED
      BY <3>1, <3>2 DEF Told
  <2> QED
    BY <2>1, <2>2
<1>8. ASSUME NEW i \in 1 .. Len(W)
      PROVE  \E k \in 0 .. (m + 1) : W[i].end = Reading(g, k).at
  <2>1. PICK k \in 0 .. m : W[i].end = Reading(f, k).at
    BY DEF Told
  <2>2. k \in 0 .. (m + 1) /\ Reading(g, k) = Reading(f, k)
    BY <1>1, <1>2
  <2> QED
    BY <2>1, <2>2
<1>9. t.at = Len(g) /\ Len(t.out) = Len(W)
  BY <1>2, <1>4, <1>6
<1>10. Told(g, m + 1, W)
  BY <1>1, <1>2, <1>7, <1>8, <1>9 DEF Told
<1> QED
  BY <1>4, <1>10 DEF g, t, r, data

\* It ends one.
LEMMA ToldRecord ==
  ASSUME NEW f \in File, NEW x \in File, NEW m, NEW W \in Entries, Told(f, m, W),
         NEW p, HasPiece(f \o x, Len(f), p), Len(f \o x) = EndOf(Len(f), p),
         NEW data \in Data,
         \/ p.type = "full" /\ Reading(f, m).scratch = <<>> /\ data = p.data
         \/ p.type = "last" /\ Reading(f, m).scratch # <<>>
              /\ data = Reading(f, m).scratch[1] \o p.data
  PROVE  /\ Told(f \o x, m + 1, Append(W, [data |-> data, end |-> Len(f \o x)]))
         /\ Reading(f \o x, m + 1).scratch = <<>>
<1> DEFINE g == f \o x
           r == Reading(f, m)
           t == Reading(g, m + 1)
           V == Append(W, [data |-> data, end |-> Len(g)])
<1>1. m \in Nat /\ Reads(f, m) /\ r.at = Len(f) /\ r \in State
  <2>1. m \in Nat /\ Reads(f, m) /\ r.at = Len(f)
    BY DEF Told
  <2> QED
    BY <2>1, ReadsType
<1>2. /\ Reads(g, m + 1) /\ \A k \in 0 .. m : Reading(g, k) = Reading(f, k)
      /\ t = Took(r, Found(p, Len(g))) /\ t.at = Len(g) /\ Len(f) < Len(g) /\ g \in File
  BY <1>1, OnePieceMore
<1> HIDE DEF g
<1>3. t = [at |-> Len(g), scratch |-> <<>>, out |-> Append(r.out, data), alarms |-> r.alarms + 0]
  <2> HIDE DEF r, t
  <2>1. CASE p.type = "full" /\ r.scratch = <<>> /\ data = p.data
    BY <1>2, <2>1 DEF Took, Found
  <2>2. CASE p.type = "last" /\ r.scratch # <<>> /\ data = r.scratch[1] \o p.data
    BY <1>2, <2>2 DEF Took, Found
  <2> QED
    BY <2>1, <2>2 DEF r
<1>4. t.out = Append(r.out, data) /\ t.alarms = r.alarms /\ t.scratch = <<>>
  <2>1. r.alarms \in Nat
    BY <1>1 DEF State
  <2> DEFINE out == Append(r.out, data)
  <2> HIDE DEF r, t, out
  <2>2. t.out = out /\ t.alarms = r.alarms + 0 /\ t.scratch = <<>>
    BY <1>3 DEF out
  <2> QED
    BY <2>1, <2>2 DEF out
<1>5. Len(f) \in Nat /\ Len(g) \in Nat /\ Len(W) \in Nat
      /\ \A i \in 1 .. Len(W) : W[i].end \in Nat
  <2>1. Len(f) \in Nat /\ Len(g) \in Nat /\ Len(W) \in Nat
    BY <1>2, LenProperties DEF File, Entries
  <2>2. \A i \in 1 .. Len(W) : W[i] \in [data : Data, end : Nat]
    BY ElementOfSeq DEF Entries
  <2> QED
    BY <2>1, <2>2
<1>6. /\ r.alarms = 0 /\ Len(r.out) = Len(W)
      /\ \A i \in 1 .. Len(r.out) : r.out[i] = W[i].data
      /\ \A i \in 1 .. Len(W) : W[i].end =< Len(f)
  BY <1>1, <1>5 DEF Told
<1>7. /\ Len(V) = Len(W) + 1 /\ \A i \in 1 .. Len(W) : V[i] = W[i]
      /\ V[Len(W) + 1].data = data /\ V[Len(W) + 1].end = Len(g)
  <2> DEFINE e == [data |-> data, end |-> Len(g)]
  <2>1. e \in [data : Data, end : Nat] /\ e.data = data /\ e.end = Len(g)
    BY <1>5
  <2> HIDE DEF e
  <2>2. /\ Len(V) = Len(W) + 1 /\ \A i \in 1 .. Len(W) : V[i] = W[i]
        /\ V[Len(W) + 1] = e
    BY <2>1, AppendProperties DEF Entries, e
  <2> QED
    BY <2>1, <2>2
<1>8. /\ Len(t.out) = Len(W) + 1 /\ \A i \in 1 .. Len(W) : t.out[i] = r.out[i]
      /\ t.out[Len(W) + 1] = data
  <2>1. r.out \in Seq(Data)
    BY <1>1 DEF State
  <2> HIDE DEF r, t
  <2> QED
    BY <1>4, <1>6, <2>1, AppendProperties
<1> HIDE DEF V
<1>9. ASSUME NEW k \in 0 .. (m + 1)
      PROVE  /\ Reading(g, k).alarms = 0 /\ Len(Reading(g, k).out) =< Len(V)
             /\ \A i \in 1 .. Len(Reading(g, k).out) : Reading(g, k).out[i] = V[i].data
             /\ \A i \in 1 .. Len(V) : i =< Len(Reading(g, k).out)
                                         <=> V[i].end =< Reading(g, k).at
  <2>1. CASE k = m + 1
    <3>1. Reading(g, k) = t
      BY <2>1
    <3> HIDE DEF t, r
    <3>2. ASSUME NEW i \in 1 .. Len(V)
          PROVE  t.out[i] = V[i].data /\ V[i].end =< t.at
      <4>1. CASE i = Len(W) + 1
        BY <1>2, <1>5, <1>7, <1>8, <4>1
      <4>2. CASE i # Len(W) + 1
        <5>1. i \in 1 .. Len(W)
          BY <1>5, <1>7, <4>2
        <5> QED
          BY <1>2, <1>5, <1>6, <1>7, <1>8, <5>1
      <4> QED
        BY <4>1, <4>2
    <3>3. Len(t.out) = Len(V) /\ Len(V) \in Nat /\ t.alarms = 0
      BY <1>4, <1>5, <1>6, <1>7, <1>8
    <3> QED
      BY <3>1, <3>2, <3>3
  <2>2. CASE k # m + 1
    <3>1. k \in 0 .. m
      BY <1>1, <2>2
    <3> DEFINE q == Reading(f, k)
    <3>2. Reading(g, k) = q
      BY <1>2, <3>1
    <3>3. /\ q.alarms = 0 /\ Len(q.out) =< Len(W)
          /\ \A i \in 1 .. Len(q.out) : q.out[i] = W[i].data
          /\ \A i \in 1 .. Len(W) : i =< Len(q.out) <=> W[i].end =< q.at
      BY <3>1 DEF Told
    <3>4. q.at =< Len(f) /\ q.at \in Nat /\ q.out \in Seq(Data)
      <4>1. q.at =< r.at
        BY <1>1, <3>1, ReadsMove
      <4>2. q \in State
        BY <1>1, <3>1, ReadsType
      <4> QED
        BY <1>1, <4>1, <4>2 DEF State
    <3>5. Len(q.out) \in Nat
      BY <3>4, LenProperties
    <3> HIDE DEF q, t, r
    <3>6. ASSUME NEW i \in 1 .. Len(V)
          PROVE  i =< Len(q.out) <=> V[i].end =< q.at
      <4>1. CASE i = Len(W) + 1
        BY <1>2, <1>5, <1>7, <3>3, <3>4, <3>5, <4>1
      <4>2. CASE i # Len(W) + 1
        <5>1. i \in 1 .. Len(W)
          BY <1>5, <1>7, <4>2
        <5> QED
          BY <1>7, <3>3, <5>1
      <4> QED
        BY <4>1, <4>2
    <3>7. ASSUME NEW i \in 1 .. Len(q.out)
          PROVE  q.out[i] = V[i].data
      <4>1. i \in 1 .. Len(W)
        BY <1>5, <3>3, <3>5
      <4> QED
        BY <1>7, <3>3, <4>1
    <3>8. Len(q.out) =< Len(V)
      BY <1>5, <1>7, <3>3, <3>5
    <3> QED
      BY <3>2, <3>3, <3>6, <3>7, <3>8
  <2> QED
    BY <2>1, <2>2
<1>10. ASSUME NEW i \in 1 .. Len(V)
       PROVE  \E k \in 0 .. (m + 1) : V[i].end = Reading(g, k).at
  <2>1. CASE i = Len(W) + 1
    <3>1. V[i].end = t.at /\ m + 1 \in 0 .. (m + 1)
      BY <1>1, <1>2, <1>7, <2>1
    <3> QED
      BY <3>1
  <2>2. CASE i # Len(W) + 1
    <3>1. i \in 1 .. Len(W)
      BY <1>5, <1>7, <2>2
    <3>2. PICK k \in 0 .. m : W[i].end = Reading(f, k).at
      BY <3>1 DEF Told
    <3>3. k \in 0 .. (m + 1) /\ Reading(g, k) = Reading(f, k) /\ V[i] = W[i]
      BY <1>1, <1>2, <1>7, <3>1
    <3> QED
      BY <3>2, <3>3
  <2> QED
    BY <2>1, <2>2
<1>11. t.at = Len(g) /\ Len(t.out) = Len(V)
  BY <1>2, <1>7, <1>8
<1>12. Told(g, m + 1, V)
  BY <1>1, <1>2, <1>9, <1>10, <1>11 DEF Told
<1> QED
  BY <1>4, <1>12 DEF g, t, V

-----------------------------------------------------------------------------
(* AddRecord.                                                              *)

\* What is begun of data when w has its bytes left.
Begun(w, data, scratch) ==
  IF w.begin THEN scratch = <<>> /\ w.left = data
  ELSE \E d \in Data : scratch = <<d>> /\ d \o w.left = data

\* Between two turns, with g the file, and after the last.
Underway(w, data, g, W) ==
  /\ More(w)
  /\ \E m : Told(g, m, W) /\ Begun(w, data, Reading(g, m).scratch)

Complete(w, data, g, W) ==
  /\ ~More(w)
  /\ \E m : /\ Told(g, m, Append(W, [data |-> data, end |-> Len(g)]))
            /\ Reading(g, m).scratch = <<>>

LEMMA NextTurn ==
  ASSUME NEW f \in File, NEW W \in Entries, NEW data \in Data,
         NEW w \in WState, Aligned(w.offset, Len(f \o w.bytes)),
         Underway(w, data, f \o w.bytes, W)
  PROVE  LET v == Turn(w)
             g == f \o v.bytes
         IN  /\ v \in WState /\ Aligned(v.offset, Len(g)) /\ g \in File
             /\ Underway(v, data, g, W) \/ Complete(v, data, g, W)
<1> DEFINE h == f \o w.bytes
           v == Turn(w)
           g == f \o v.bytes
<1>1. h \in File /\ w.bytes \in File /\ w.left \in Data /\ Len(w.left) \in Nat /\ Len(data) \in Nat
      /\ w.begin \in BOOLEAN
  <2>1. w.bytes \in File /\ w.left \in Data /\ w.begin \in BOOLEAN
    BY DEF WState
  <2>2. h \in File
    BY <2>1, ConcatProperties DEF File
  <2> QED
    BY <2>1, <2>2, LenProperties DEF Data
<1>2. PICK x, p, l, t : Appends(w, x, p, l, t) /\ Writes(h, w, x, p)
  BY <1>1, TurnWrites
<1>3. /\ x \in File /\ p \in Headers /\ l \in 0 .. Len(w.left) /\ v \in WState
      /\ v.bytes = w.bytes \o x /\ v.begin = FALSE
      /\ v.left = SubSeq(w.left, l + 1, Len(w.left)) /\ p.data = SubSeq(w.left, 1, l)
      /\ HasPiece(h \o x, Len(h), p) /\ Len(h \o x) = EndOf(Len(h), p)
      /\ Aligned(v.offset, Len(h \o x))
  BY <1>2 DEF Appends, Writes
<1>4. p.type = CASE w.begin /\ l = Len(w.left) -> "full" [] w.begin /\ l # Len(w.left) -> "first"
                 [] ~w.begin /\ l = Len(w.left) -> "last" [] OTHER -> "middle"
  BY <1>2 DEF Appends
<1>5. g = h \o x
  <2>1. f \in Seq(Byte) /\ w.bytes \in Seq(Byte) /\ x \in Seq(Byte)
    BY <1>1, <1>3 DEF File
  <2> DEFINE b == w.bytes
  <2>2. b \in Seq(Byte)
    BY <2>1
  <2> HIDE DEF b
  <2>3. (f \o b) \o x = f \o (b \o x)
    BY <2>1, <2>2, ConcatAssociative
  <2> QED
    BY <1>3, <2>3 DEF b
<1>6. /\ Len(v.left) = Len(w.left) - l /\ p.data \o v.left = w.left
      /\ v.left \in Data /\ p.data \in Data
  BY <1>1, <1>3, RestOf
<1>7. PICK m : Told(h, m, W) /\ Begun(w, data, Reading(h, m).scratch)
  BY DEF Underway
<1>8. v.left = <<>> <=> l = Len(w.left)
  <2>1. v.left = <<>> => Len(v.left) = 0
    OBVIOUS
  <2>2. v.left # <<>> => Len(v.left) # 0
    BY <1>6, EmptySeq DEF Data
  <2> QED
    BY <1>1, <1>3, <1>6, <2>1, <2>2
<1> DEFINE scratch == Reading(h, m).scratch
<1>9. w.begin => scratch = <<>> /\ w.left = data
  BY <1>7 DEF Begun
<1>10. ~w.begin => scratch # <<>> /\ scratch[1] \in Data /\ scratch[1] \o w.left = data
  <2> SUFFICES ASSUME ~w.begin
               PROVE  scratch # <<>> /\ scratch[1] \in Data /\ scratch[1] \o w.left = data
    OBVIOUS
  <2>1. PICK d \in Data : scratch = <<d>> /\ d \o w.left = data
    BY <1>7 DEF Begun
  <2> HIDE DEF scratch
  <2> QED
    BY <2>1
<1> HIDE DEF g, h, v
<1>11. CASE l = Len(w.left)
  <2>1. ~More(v)
    BY <1>3, <1>8, <1>11 DEF More
  <2>2. p.data = w.left
    <3>1. v.left = <<>>
      BY <1>8, <1>11
    <3>2. p.data \o <<>> = p.data
      BY <1>6, ConcatEmptySeq DEF Data
    <3> QED
      BY <1>6, <3>1, <3>2
  <2>3. \/ p.type = "full" /\ scratch = <<>> /\ data = p.data
        \/ p.type = "last" /\ scratch # <<>> /\ data = scratch[1] \o p.data
    <3> HIDE DEF scratch
    <3>1. CASE w.begin
      BY <1>4, <1>9, <1>11, <2>2, <3>1
    <3>2. CASE ~w.begin
      BY <1>4, <1>10, <1>11, <2>2, <3>2
    <3> QED
      BY <3>1, <3>2
  <2>4. /\ Told(h \o x, m + 1, Append(W, [data |-> data, end |-> Len(h \o x)]))
        /\ Reading(h \o x, m + 1).scratch = <<>>
    BY <1>1, <1>3, <1>7, <2>3, ToldRecord
  <2>5. Complete(v, data, g, W)
    BY <1>5, <2>1, <2>4 DEF Complete
  <2>6. g \in File
    BY <1>1, <1>3, <1>5, ConcatProperties DEF File
  <2> QED
    BY <1>3, <1>5, <2>5, <2>6 DEF g, v
<1>12. CASE l # Len(w.left)
  <2>1. More(v)
    BY <1>8, <1>12 DEF More
  <2>2. \/ p.type = "first" /\ scratch = <<>>
        \/ p.type = "middle" /\ scratch # <<>>
    <3> HIDE DEF scratch
    <3>1. CASE w.begin
      BY <1>4, <1>9, <1>12, <3>1
    <3>2. CASE ~w.begin
      BY <1>4, <1>10, <1>12, <3>2
    <3> QED
      BY <3>1, <3>2
  <2> DEFINE d == IF p.type = "first" THEN p.data ELSE scratch[1] \o p.data
  <2>3. Told(h \o x, m + 1, W) /\ Reading(h \o x, m + 1).scratch = <<d>>
    <3>1. \/ p.type = "first" /\ Reading(h, m).scratch = <<>>
          \/ p.type = "middle" /\ Reading(h, m).scratch # <<>>
      BY <2>2
    <3> HIDE DEF d
    <3>2. h \in File /\ x \in File /\ Told(h, m, W)
          /\ HasPiece(h \o x, Len(h), p) /\ Len(h \o x) = EndOf(Len(h), p)
      BY <1>1, <1>3, <1>7
    <3>3. /\ Told(h \o x, m + 1, W)
          /\ Reading(h \o x, m + 1).scratch =
               <<IF p.type = "first" THEN p.data ELSE Reading(h, m).scratch[1] \o p.data>>
      BY <3>1, <3>2, ToldPiece
    <3> QED
      BY <3>3 DEF d
  <2>4. d \in Data /\ d \o v.left = data
    <3> HIDE DEF scratch
    <3>1. CASE w.begin
      <4>1. d = p.data
        BY <1>4, <1>12, <3>1
      <4> HIDE DEF d
      <4> QED
        BY <1>6, <1>9, <3>1, <4>1
    <3>2. CASE ~w.begin
      <4>1. d = scratch[1] \o p.data
        BY <1>4, <1>12, <3>2
      <4> DEFINE a == scratch[1]
                 b == p.data
                 c == v.left
      <4>2. a \in Seq(Nat \X Nat) /\ b \in Seq(Nat \X Nat) /\ c \in Seq(Nat \X Nat)
        BY <1>6, <1>10, <3>2 DEF Data
      <4>3. b \o c = w.left /\ a \o w.left = data
        BY <1>6, <1>10, <3>2
      <4>4. d = a \o b
        BY <4>1
      <4> HIDE DEF a, b, c, d
      <4>5. (a \o b) \o c = a \o (b \o c) /\ a \o b \in Seq(Nat \X Nat)
        BY <4>2, ConcatAssociative, ConcatProperties
      <4>6. d \in Data /\ d \o c = data
        BY <4>3, <4>4, <4>5 DEF Data
      <4> QED
        BY <4>6 DEF c
    <3> QED
      BY <3>1, <3>2
  <2> HIDE DEF d
  <2>5. Begun(v, data, Reading(g, m + 1).scratch)
    BY <1>3, <1>5, <2>3, <2>4 DEF Begun
  <2>6. Underway(v, data, g, W)
    BY <1>5, <2>1, <2>3, <2>5 DEF Underway
  <2>7. g \in File
    BY <1>1, <1>3, <1>5, ConcatProperties DEF File
  <2> QED
    BY <1>3, <1>5, <2>6, <2>7 DEF g, v
<1> QED
  BY <1>11, <1>12

\* AddRecord of data to f after n turns.
LEMMA AfterTurns ==
  ASSUME NEW f \in File, NEW W \in Entries, NEW data \in Data, NEW o \in 0 .. BlockSize,
         Aligned(o, Len(f)), NEW m, Told(f, m, W), Reading(f, m).scratch = <<>>, NEW M \in Nat
  PROVE  \A n \in 0 .. M :
           LET w == Turns(data, o, n)
               g == f \o w.bytes
           IN  /\ w \in WState /\ Aligned(w.offset, Len(g)) /\ g \in File
               /\ Underway(w, data, g, W) \/ Complete(w, data, g, W)
<1> DEFINE Fine(w, n) == /\ w \in WState /\ Aligned(w.offset, Len(f \o w.bytes)) /\ f \o w.bytes \in File
                         /\ Underway(w, data, f \o w.bytes, W) \/ Complete(w, data, f \o w.bytes, W)
           P == {n \in Nat : Fine(Turns(data, o, n), n)}
<1>1. 0 \in P
  <2> DEFINE w == Turns(data, o, 0)
  <2>1. w = [left |-> data, begin |-> TRUE, offset |-> o, bytes |-> <<>>]
    BY TurnsUnfold
  <2>2. w.left = data /\ w.begin = TRUE /\ w.offset = o /\ w.bytes = <<>>
    BY <2>1
  <2>3. <<>> \in File /\ f \o <<>> = f
    BY EmptySeq, ConcatEmptySeq DEF File
  <2>4. w \in WState
    <3> DEFINE e == <<>>
    <3>1. e \in File
      BY <2>3
    <3> HIDE DEF e
    <3>2. [left |-> data, begin |-> TRUE, offset |-> o, bytes |-> e] \in WState
      BY <3>1 DEF WState
    <3> QED
      BY <2>1, <3>2 DEF e
  <2> HIDE DEF w
  <2>5. More(w)
    BY <2>2 DEF More
  <2>6. Begun(w, data, Reading(f, m).scratch)
    BY <2>2 DEF Begun
  <2>7. f \o w.bytes = f
    BY <2>2, <2>3
  <2>8. Underway(w, data, f \o w.bytes, W)
    BY <2>5, <2>6, <2>7 DEF Underway
  <2>9. Fine(w, 0)
    BY <2>2, <2>4, <2>7, <2>8
  <2> QED
    BY <2>9 DEF w
<1>2. ASSUME NEW n \in 1 .. M, n - 1 \in P
      PROVE  n \in P
  <2> DEFINE i == n - 1
             w == Turns(data, o, i)
             v == Turns(data, o, n)
  <2>1. i \in Nat /\ i + 1 = n /\ n \in Nat
    OBVIOUS
  <2>2. Fine(w, i)
    BY <1>2
  <2> HIDE DEF i
  <2>3. v = TurnIfMore(w)
    BY <2>1, TurnsUnfold
  <2> HIDE DEF w, v
  <2>4. CASE Underway(w, data, f \o w.bytes, W)
    <3>1. v = Turn(w)
      BY <2>3, <2>4 DEF TurnIfMore, Underway
    <3>2. Fine(v, n)
      BY <2>1, <2>2, <2>4, <3>1, NextTurn
    <3> QED
      BY <2>1, <3>2 DEF v
  <2>5. CASE Complete(w, data, f \o w.bytes, W)
    <3>1. v = w
      BY <2>3, <2>5 DEF TurnIfMore, Complete
    <3>2. Fine(v, n)
      BY <2>2, <2>5, <3>1
    <3> QED
      BY <2>1, <3>2 DEF v
  <2> QED
    BY <2>2, <2>4, <2>5
<1> HIDE DEF P
<1>3. \A n \in 0 .. M : n \in P
  BY <1>1, <1>2, UpTo
<1> QED
  BY <1>3 DEF P

\* It ends within MaxTurns.
LEMMA AllTurns ==
  ASSUME NEW f \in File, NEW W \in Entries, NEW data \in Data, NEW o \in 0 .. BlockSize,
         Aligned(o, Len(f)), NEW m, Told(f, m, W), Reading(f, m).scratch = <<>>
  PROVE  LET w == Turns(data, o, MaxTurns(Len(data)))
             g == f \o w.bytes
         IN  /\ w \in WState /\ Aligned(w.offset, Len(g)) /\ g \in File
             /\ Complete(w, data, g, W)
<1> DEFINE n == MaxTurns(Len(data))
           w == Turns(data, o, n)
           g == f \o w.bytes
<1>1. n = Len(data) + 2 /\ Len(data) \in Nat /\ n \in Nat
  BY LenProperties DEF Data, MaxTurns
<1>2. /\ w \in WState /\ Aligned(w.offset, Len(g)) /\ g \in File
      /\ Underway(w, data, g, W) \/ Complete(w, data, g, W)
  <2> HIDE DEF n
  <2>1. n \in 0 .. n
    BY <1>1
  <2> QED
    BY <1>1, <2>1, AfterTurns
<1>3. ~More(w)
  BY TurnsEnd
<1> HIDE DEF g, w
<1> QED
  BY <1>2, <1>3 DEF g, w, Underway

-----------------------------------------------------------------------------
(* What is in a file of which any appends failed.                          *)

\* A piece of which size bytes are in the file, of the record that is number of
\* of those written, with the data of that record up to here.
Chunk == [from : Nat, size : Nat, piece : Headers, body : Data, of : Nat]
EndsAfter(c) == c.from + c.size
IsWhole(c) == c.size = HeaderSize + Len(c.piece.data)
GoesOn(c) == IsWhole(c) /\ c.piece.type \in {"first", "middle"}
EndsRecord(c) == IsWhole(c) /\ c.piece.type \in {"full", "last"}

InFile(f, c) == /\ 0 < c.size /\ c.size =< HeaderSize + Len(c.piece.data)
                /\ EndsAfter(c) =< Len(f)
                /\ \A n \in 1 .. c.size : f[c.from + n] = <<c.piece, n>>

\* What c is, after the first j chunks of E.
Follows(E, j, c) ==
  IF c.piece.type \in {"full", "first"} THEN c.body = c.piece.data
  ELSE j # 0 /\ GoesOn(E[j]) /\ c.body = E[j].body \o c.piece.data

LaidOut(f, E, W) ==
  /\ E \in Seq(Chunk)
  /\ \A j \in 1 .. Len(E) : InFile(f, E[j]) /\ Follows(E, j - 1, E[j])
  /\ \A j \in 1 .. Len(E) : \A i \in 1 .. (j - 1) : EndsAfter(E[i]) =< E[j].from
  /\ \A i \in 1 .. Len(f) : \/ f[i][2] = 0
                            \/ \E j \in 1 .. Len(E) : E[j].from < i /\ i =< EndsAfter(E[j])
  /\ \A j \in 1 .. Len(E) : EndsRecord(E[j]) => E[j].of \in 1 .. Len(W) /\ E[j].body = W[E[j].of].data
  /\ \A j \in 1 .. Len(E) : \A i \in 1 .. (j - 1) :
       EndsRecord(E[i]) /\ EndsRecord(E[j]) => E[i].of < E[j].of

LEMMA Joined ==
  ASSUME NEW f \in File, NEW z \in File
  PROVE  /\ f \o z \in File /\ Len(f \o z) = Len(f) + Len(z)
         /\ \A i \in 1 .. Len(f) : (f \o z)[i] = f[i]
         /\ \A i \in 1 .. (Len(f) + Len(z)) :
              (f \o z)[i] = IF i <= Len(f) THEN f[i] ELSE z[i - Len(f)]
<1>1. f \in Seq(Byte) /\ z \in Seq(Byte)
  BY DEF File
<1>2. Len(f) \in Nat /\ Len(z) \in Nat
  BY <1>1, LenProperties
<1> DEFINE g == f \o z
<1>3. /\ g \in Seq(Byte) /\ Len(g) = Len(f) + Len(z)
      /\ \A i \in 1 .. (Len(f) + Len(z)) : g[i] = IF i <= Len(f) THEN f[i] ELSE z[i - Len(f)]
  BY <1>1, ConcatProperties
<1> HIDE DEF g
<1>4. \A i \in 1 .. Len(f) : g[i] = f[i]
  BY <1>2, <1>3
<1> QED
  BY <1>3, <1>4 DEF File, g

\* No chunk in what is added to a file.
LEMMA LaidFill ==
  ASSUME NEW f \in File, NEW E, NEW W, LaidOut(f, E, W), NEW z \in File,
         \A i \in 1 .. Len(z) : z[i][2] = 0
  PROVE  LaidOut(f \o z, E, W)
<1> DEFINE g == f \o z
<1>1. Len(f) \in Nat /\ Len(z) \in Nat /\ Len(E) \in Nat
  BY LenProperties DEF File, LaidOut
<1>2. /\ g \in File /\ Len(g) = Len(f) + Len(z)
      /\ \A i \in 1 .. (Len(f) + Len(z)) : g[i] = IF i <= Len(f) THEN f[i] ELSE z[i - Len(f)]
  BY Joined
<1> HIDE DEF g
<1>3. ASSUME NEW j \in 1 .. Len(E) PROVE InFile(g, E[j])
  <2> DEFINE c == E[j]
  <2>1. InFile(f, c) /\ c \in Chunk
    BY ElementOfSeq DEF LaidOut
  <2>2. c.from \in Nat /\ c.size \in Nat /\ EndsAfter(c) = c.from + c.size /\ EndsAfter(c) =< Len(f)
    BY <2>1 DEF Chunk, EndsAfter, InFile
  <2> HIDE DEF c
  <2>3. ASSUME NEW n \in 1 .. c.size PROVE g[c.from + n] = <<c.piece, n>>
    <3>1. c.from + n \in 1 .. Len(f)
      BY <1>1, <2>2
    <3> QED
      BY <1>1, <1>2, <2>1, <3>1 DEF InFile
  <2>4. EndsAfter(c) =< Len(g)
    BY <1>1, <1>2, <2>2
  <2> QED
    BY <2>1, <2>3, <2>4 DEF InFile, c
<1>4. ASSUME NEW i \in 1 .. Len(g)
      PROVE  g[i][2] = 0 \/ \E j \in 1 .. Len(E) : E[j].from < i /\ i =< EndsAfter(E[j])
  <2>1. CASE i <= Len(f)
    <3>1. g[i] = f[i] /\ i \in 1 .. Len(f)
      BY <1>1, <1>2, <2>1
    <3> QED
      BY <3>1 DEF LaidOut
  <2>2. CASE ~ (i <= Len(f))
    <3>1. g[i] = z[i - Len(f)] /\ i - Len(f) \in 1 .. Len(z)
      BY <1>1, <1>2, <2>2
    <3> QED
      BY <3>1
  <2> QED
    BY <2>1, <2>2
<1> QED
  BY <1>3, <1>4 DEF LaidOut, g

\* One chunk more, after t bytes of a trailer.
LEMMA LaidChunk ==
  ASSUME NEW f \in File, NEW E, NEW W \in Entries, LaidOut(f, E, W), NEW z \in File,
         NEW t \in Nat, NEW c \in Chunk, c.from = Len(f) + t, 0 < c.size,
         c.size =< HeaderSize + Len(c.piece.data),
         Len(z) = t + c.size, \A i \in 1 .. t : z[i][2] = 0,
         \A i \in 1 .. c.size : z[t + i] = <<c.piece, i>>,
         Follows(E, Len(E), c), c.of = Len(W) + 1,
         NEW V \in Entries, Len(W) =< Len(V), \A i \in 1 .. Len(W) : V[i] = W[i],
         EndsRecord(c) => Len(V) = Len(W) + 1 /\ V[Len(W) + 1].data = c.body
  PROVE  LaidOut(f \o z, Append(E, c), V)
<1> DEFINE g == f \o z
           D == Append(E, c)
           l == Len(E) + 1
<1>1. Len(f) \in Nat /\ Len(z) \in Nat /\ Len(E) \in Nat /\ E \in Seq(Chunk)
      /\ Len(W) \in Nat /\ Len(V) \in Nat
  BY LenProperties DEF File, LaidOut, Entries
<1>2. /\ g \in File /\ Len(g) = Len(f) + Len(z) /\ \A i \in 1 .. Len(f) : g[i] = f[i]
      /\ \A i \in 1 .. (Len(f) + Len(z)) : g[i] = IF i <= Len(f) THEN f[i] ELSE z[i - Len(f)]
  BY Joined
<1>3. D \in Seq(Chunk) /\ Len(D) = l /\ D[l] = c /\ \A j \in 1 .. Len(E) : D[j] = E[j]
  BY <1>1, AppendProperties
<1> HIDE DEF g, D
<1>12. l \in Nat /\ l = Len(E) + 1
      /\ \A j \in 1 .. l : j # l => j \in 1 .. Len(E) /\ D[j] = E[j] 
  BY <1>1, <1>3
<1> HIDE DEF l
<1>4. c.from \in Nat /\ c.size \in Nat /\ EndsAfter(c) = Len(g) /\ Len(f) =< c.from
  BY <1>1, <1>2 DEF Chunk, EndsAfter
<1>5. ASSUME NEW j \in 1 .. Len(E)
      PROVE  /\ InFile(g, E[j]) /\ E[j].from \in Nat /\ E[j].size \in Nat
             /\ EndsAfter(E[j]) =< Len(f) /\ EndsAfter(E[j]) \in Nat
  <2> DEFINE e == E[j]
  <2>1. InFile(f, e) /\ e \in Chunk
    BY <1>1, ElementOfSeq DEF LaidOut
  <2>2. e.from \in Nat /\ e.size \in Nat /\ EndsAfter(e) = e.from + e.size /\ EndsAfter(e) =< Len(f)
    BY <2>1 DEF Chunk, EndsAfter, InFile
  <2> HIDE DEF e
  <2>3. ASSUME NEW n \in 1 .. e.size PROVE g[e.from + n] = <<e.piece, n>>
    <3>1. e.from + n \in 1 .. Len(f)
      BY <1>1, <2>2
    <3>2. g[e.from + n] = f[e.from + n]
      BY <1>1, <1>2, <3>1
    <3>3. f[e.from + n] = <<e.piece, n>>
      BY <2>1 DEF InFile
    <3> QED
      BY <3>2, <3>3
  <2>4. EndsAfter(e) =< Len(g)
    BY <1>1, <1>2, <2>2
  <2> QED
    BY <2>1, <2>2, <2>3, <2>4 DEF InFile, e
<1>6. InFile(g, c)
  <2>1. ASSUME NEW n \in 1 .. c.size PROVE g[c.from + n] = <<c.piece, n>>
    <3>1. c.from + n \in 1 .. (Len(f) + Len(z)) /\ ~ (c.from + n <= Len(f))
          /\ (c.from + n) - Len(f) = t + n
      BY <1>1, <1>4
    <3> QED
      BY <1>2, <3>1
  <2>2. EndsAfter(c) =< Len(g)
    BY <1>1, <1>2, <1>4
  <2> QED
    BY <2>1, <2>2 DEF InFile
<1>7. ASSUME NEW j \in 1 .. l
      PROVE  InFile(g, D[j]) /\ Follows(D, j - 1, D[j])
  <2>1. CASE j = l
    <3>1. D[j] = c /\ j - 1 = Len(E)
      BY <1>1, <1>3, <2>1, <1>12
    <3>2. Len(E) # 0 => D[Len(E)] = E[Len(E)]
      BY <1>1, <1>3
    <3> QED
      BY <1>6, <3>1, <3>2 DEF Follows
  <2>2. CASE j # l
    <3>1. j \in 1 .. Len(E) /\ D[j] = E[j]
      BY <1>12, <2>2
    <3>2. j - 1 # 0 => D[j - 1] = E[j - 1]
      BY <1>1, <1>3, <3>1, <1>12
    <3>3. Follows(E, j - 1, E[j])
      BY <3>1 DEF LaidOut
    <3> QED
      BY <1>5, <3>1, <3>2, <3>3 DEF Follows
  <2> QED
    BY <2>1, <2>2
<1>8. ASSUME NEW j \in 1 .. l, NEW i \in 1 .. (j - 1)
      PROVE  EndsAfter(D[i]) =< D[j].from
  <2>1. i \in 1 .. Len(E) /\ D[i] = E[i]
    BY <1>1, <1>3, <1>12
  <2>2. CASE j = l
    BY <1>1, <1>3, <1>4, <1>5, <2>1, <2>2, <1>12
  <2>3. CASE j # l
    <3>1. j \in 1 .. Len(E) /\ D[j] = E[j]
      BY <1>12, <2>3
    <3> QED
      BY <2>1, <3>1 DEF LaidOut
  <2> QED
    BY <2>2, <2>3
<1>9. ASSUME NEW i \in 1 .. Len(g)
      PROVE  g[i][2] = 0 \/ \E j \in 1 .. l : D[j].from < i /\ i =< EndsAfter(D[j])
  <2>1. CASE i <= Len(f)
    <3>1. g[i] = f[i] /\ i \in 1 .. Len(f)
      BY <1>1, <1>2, <2>1
    <3>2. f[i][2] = 0 \/ \E j \in 1 .. Len(E) : E[j].from < i /\ i =< EndsAfter(E[j])
      BY <3>1 DEF LaidOut
    <3>3. \A j \in 1 .. Len(E) : j \in 1 .. l /\ D[j] = E[j]
      BY <1>1, <1>3, <1>12
    <3> QED
      BY <3>1, <3>2, <3>3
  <2>2. CASE ~ (i <= Len(f))
    <3>1. g[i] = z[i - Len(f)] /\ i - Len(f) \in 1 .. Len(z)
      <4> DEFINE a == Len(f)
                 b == Len(z)
                 e == Len(g)
      <4>1. a \in Nat /\ b \in Nat /\ e = a + b /\ i \in 1 .. e /\ ~ (i <= a)
        BY <1>1, <1>2, <2>2
      <4> HIDE DEF a, b, e
      <4>2. i \in 1 .. (a + b) /\ i - a \in 1 .. b
        BY <4>1
      <4> QED
        BY <1>2, <2>2, <4>2 DEF a, b
    <3>2. CASE i - Len(f) =< t
      BY <3>1, <3>2
    <3>3. CASE ~ (i - Len(f) =< t)
      <4>1. c.from < i /\ i =< EndsAfter(c)
        BY <1>1, <1>2, <1>4, <3>1, <3>3
      <4>2. l \in 1 .. l
        BY <1>1, <1>12
      <4> QED
        BY <1>3, <4>1, <4>2
    <3> QED
      BY <3>2, <3>3
  <2> QED
    BY <2>1, <2>2
<1>10. ASSUME NEW j \in 1 .. l, EndsRecord(D[j])
       PROVE  D[j].of \in 1 .. Len(V) /\ D[j].body = V[D[j].of].data
  <2>1. CASE j = l
    BY <1>1, <1>3, <1>10, <2>1, <1>12
  <2>2. CASE j # l
    <3>1. j \in 1 .. Len(E) /\ D[j] = E[j]
      BY <1>12, <2>2
    <3>2. E[j].of \in 1 .. Len(W) /\ E[j].body = W[E[j].of].data
      BY <1>10, <3>1 DEF LaidOut
    <3> QED
      BY <1>1, <3>1, <3>2
  <2> QED
    BY <2>1, <2>2
<1>11. ASSUME NEW j \in 1 .. l, NEW i \in 1 .. (j - 1), EndsRecord(D[i]), EndsRecord(D[j])
       PROVE  D[i].of < D[j].of
  <2>1. i \in 1 .. Len(E) /\ D[i] = E[i]
    BY <1>1, <1>3, <1>12
  <2>2. CASE j = l
    <3>1. E[i].of \in 1 .. Len(W)
      BY <1>11, <2>1 DEF LaidOut
    <3> QED
      BY <1>1, <1>3, <2>1, <2>2, <3>1, <1>12
  <2>3. CASE j # l
    <3>1. j \in 1 .. Len(E) /\ D[j] = E[j]
      BY <1>12, <2>3
    <3> QED
      BY <1>11, <2>1, <3>1 DEF LaidOut
  <2> QED
    BY <2>2, <2>3
<1> QED
  BY <1>3, <1>7, <1>8, <1>9, <1>10, <1>11 DEF LaidOut, g, D, l

\* What w has left goes on with the record that the last chunk of E is of.
Fits(E, w, data) ==
  IF w.begin THEN w.left = data
  ELSE Len(E) # 0 /\ GoesOn(E[Len(E)]) /\ E[Len(E)].body \o w.left = data

Joint(a, b) == a \o b

LEMMA JointIs ==
  ASSUME NEW a \in Data, NEW q \in Data, NEW r \in Data
  PROVE  Joint(Joint(a, q), r) = Joint(a, Joint(q, r)) /\ Joint(a, q) \in Data
<1> DEFINE S == Nat \X Nat
<1>1. a \in Seq(S) /\ q \in Seq(S) /\ r \in Seq(S)
  BY DEF Data
<1> HIDE DEF S
<1>2. (a \o q) \o r = a \o (q \o r)
  BY <1>1, ConcatAssociative
<1>3. a \o q \in Seq(S)
  BY <1>1, ConcatProperties
<1> QED
  BY <1>2, <1>3 DEF Data, S, Joint

\* A turn of the writer, of which s bytes get to the file.
LEMMA TurnLays ==
  ASSUME NEW h \in File, NEW E, NEW W \in Entries, LaidOut(h, E, W),
         NEW w \in WState, NEW data \in Data, Fits(E, w, data),
         NEW x, NEW p, NEW l, NEW t, Appends(w, x, p, l, t), NEW s \in 0 .. Len(x),
         NEW V \in Entries, Len(W) =< Len(V), \A i \in 1 .. Len(W) : V[i] = W[i],
         s = Len(x) \/ V = W,
         s = Len(x) /\ l = Len(w.left) => Len(V) = Len(W) + 1 /\ V[Len(W) + 1].data = data
  PROVE  \E D : /\ LaidOut(h \o SubSeq(x, 1, s), D, V)
                /\ s = Len(x) /\ l # Len(w.left) => Fits(D, Turn(w), data)
<1> DEFINE z == SubSeq(x, 1, s)
           v == Turn(w)
           m == HeaderSize + Len(p.data)
           b == IF w.begin THEN p.data ELSE E[Len(E)].body \o p.data
           c == [from |-> Len(h) + t, size |-> s - t, piece |-> p, body |-> b, of |-> Len(W) + 1]
<1>1. /\ x \in File /\ p \in Headers /\ l \in 0 .. Len(w.left) /\ t \in Nat
      /\ v.begin = FALSE /\ v.left = SubSeq(w.left, l + 1, Len(w.left)) /\ p.data = SubSeq(w.left, 1, l)
      /\ Len(x) = t + HeaderSize + Len(p.data)
      /\ \A i \in 1 .. t : x[i] = Fill
      /\ \A i \in 1 .. m : x[t + i] = <<p, i>>
  BY DEF Appends
<1>2. p.type = CASE w.begin /\ l = Len(w.left) -> "full" [] w.begin /\ l # Len(w.left) -> "first"
                 [] ~w.begin /\ l = Len(w.left) -> "last" [] OTHER -> "middle"
  BY DEF Appends
<1>3. w.left \in Data /\ w.begin \in BOOLEAN
  BY DEF WState
<1> HIDE DEF v
<1>4. v.left \in Data /\ p.data \in Data /\ p.data \o v.left = w.left
  BY <1>1, <1>3, RestOf
<1>5. Len(h) \in Nat /\ Len(x) \in Nat /\ Len(E) \in Nat /\ E \in Seq(Chunk) /\ Len(W) \in Nat
      /\ Len(p.data) \in Nat /\ m \in Nat /\ s \in Nat /\ Len(x) = t + m
  <2>1. Len(h) \in Nat /\ Len(x) \in Nat /\ Len(E) \in Nat /\ E \in Seq(Chunk) /\ Len(W) \in Nat
        /\ Len(p.data) \in Nat
    BY <1>1, <1>4, LenProperties DEF File, LaidOut, Entries, Data
  <2> QED
    BY <1>1, <2>1, BlocksAre
<1>6. z \in File /\ Len(z) = s /\ \A i \in 1 .. s : z[i] = x[i]
  <2>1. 1 \in 1 .. (Len(x) + 1) /\ s \in 0 .. Len(x) /\ x \in Seq(Byte)
    BY <1>1, <1>5 DEF File
  <2>2. /\ z \in Seq(Byte) /\ Len(z) = IF 1 =< s THEN s - 1 + 1 ELSE 0
        /\ \A i \in 1 .. (s - 1 + 1) : z[i] = x[1 + i - 1]
    BY <2>1, PrefixOf
  <2> HIDE DEF z
  <2>3. Len(z) = s
    BY <1>5, <2>2
  <2>4. \A i \in 1 .. s : z[i] = x[i]
    <3> SUFFICES ASSUME NEW i \in 1 .. s PROVE z[i] = x[i]
      OBVIOUS
    <3>1. i \in 1 .. (s - 1 + 1) /\ 1 + i - 1 = i
      BY <1>5
    <3> QED
      BY <2>2, <3>1
  <2> QED
    BY <2>2, <2>3, <2>4 DEF File
<1> HIDE DEF z
<1>7. CASE s =< t
  <2>1. \A i \in 1 .. Len(z) : z[i][2] = 0
    <3> SUFFICES ASSUME NEW i \in 1 .. Len(z) PROVE z[i][2] = 0
      OBVIOUS
    <3>1. z[i] = x[i] /\ i \in 1 .. t
      BY <1>1, <1>5, <1>6, <1>7
    <3> QED
      BY <1>1, <3>1 DEF Fill
  <2>2. LaidOut(h \o z, E, W)
    BY <1>6, <2>1, LaidFill
  <2>3. s # Len(x)
    BY <1>1, <1>5, <1>7, BlocksAre
  <2> QED
    BY <2>2, <2>3 DEF z
<1>8. CASE ~ (s =< t)
  <2>1. /\ ~w.begin => /\ Len(E) # 0 /\ GoesOn(E[Len(E)]) /\ E[Len(E)].body \in Data
                       /\ E[Len(E)].body \o w.left = data
        /\ w.begin => w.left = data
    <3>1. Len(E) # 0 => E[Len(E)] \in Chunk
      BY <1>5, ElementOfSeq
    <3> QED
      BY <3>1 DEF Fits, Chunk
  <2>2. b \in Data /\ b \o v.left = data
    <3>1. CASE w.begin
      BY <1>4, <2>1, <3>1
    <3>2. CASE ~w.begin
      <4>1. PICK a, q, r : a = E[Len(E)].body /\ q = p.data /\ r = v.left
        OBVIOUS
      <4>2. a \in Data /\ q \in Data /\ r \in Data
        BY <1>4, <2>1, <3>2, <4>1
      <4>3. Joint(Joint(a, q), r) = Joint(a, Joint(q, r)) /\ Joint(a, q) \in Data
        BY <4>2, JointIs
      <4>4. b = Joint(a, q)
        BY <3>2, <4>1 DEF Joint
      <4>5. Joint(q, r) = w.left /\ Joint(a, w.left) = data
        BY <1>4, <2>1, <3>2, <4>1 DEF Joint
      <4> HIDE DEF b
      <4>6. Joint(b, r) = data /\ b \in Data
        BY <4>3, <4>4, <4>5
      <4> QED
        BY <4>1, <4>6 DEF Joint
    <3> QED
      BY <3>1, <3>2
  <2>3. Follows(E, Len(E), c)
    <3> HIDE DEF b
    <3>1. c.piece = p /\ c.body = b
      OBVIOUS
    <3> HIDE DEF c
    <3>3. CASE w.begin
      <4>1. p.type \in {"full", "first"} /\ b = p.data
        BY <1>2, <3>3 DEF b
      <4> QED
        BY <3>1, <4>1 DEF Follows
    <3>4. CASE ~w.begin
      <4>1. p.type \notin {"full", "first"} /\ b = E[Len(E)].body \o p.data
        BY <1>2, <3>4 DEF b
      <4> QED
        BY <2>1, <3>1, <3>4, <4>1 DEF Follows
    <3> QED
      BY <3>3, <3>4
  <2> HIDE DEF b
  <2>4. c \in Chunk
    BY <1>1, <1>5, <1>8, <2>2 DEF Chunk
  <2>5. c.from = Len(h) + t /\ c.size = s - t /\ c.piece = p /\ c.body = b /\ c.of = Len(W) + 1
    OBVIOUS
  <2> HIDE DEF c
  <2>6. 0 < c.size /\ c.size =< HeaderSize + Len(c.piece.data) /\ Len(z) = t + c.size
    <3> DEFINE d == Len(p.data)
    <3>1. s - t > 0 /\ s - t =< HeaderSize + d
      <4> d \in Nat /\ s \in Nat /\ t \in Nat /\ s =< t + (HeaderSize + d) /\ ~ (s =< t)
        BY <1>1, <1>5, <1>8
      <4> HIDE DEF d
      <4> QED
        BY BlocksAre
    <3>2. t + (s - t) = s
      BY <1>1, <1>5
    <3> QED
      BY <1>6, <2>5, <3>1, <3>2
  <2>7. \A i \in 1 .. t : z[i][2] = 0
    <3> SUFFICES ASSUME NEW i \in 1 .. t PROVE z[i][2] = 0
      OBVIOUS
    <3>1. i \in 1 .. s
      BY <1>1, <1>5, <1>8
    <3> QED
      BY <1>1, <1>6, <3>1 DEF Fill
  <2>8. \A i \in 1 .. c.size : z[t + i] = <<c.piece, i>>
    <3> SUFFICES ASSUME NEW i \in 1 .. c.size PROVE z[t + i] = <<c.piece, i>>
      OBVIOUS
    <3>1. t + i \in 1 .. s /\ i \in 1 .. m
      <4> m \in Nat /\ t \in Nat /\ s \in Nat /\ s =< t + m /\ i \in 1 .. (s - t)
        BY <1>1, <1>5, <2>5
      <4> HIDE DEF m
      <4> QED
        OBVIOUS
    <3> QED
      BY <1>1, <1>6, <2>5, <3>1
  <2>9. EndsRecord(c) => s = Len(x) /\ l = Len(w.left)
    <3> SUFFICES ASSUME EndsRecord(c) PROVE s = Len(x) /\ l = Len(w.left)
      OBVIOUS
    <3>1. s - t = m /\ p.type \in {"full", "last"}
      BY <2>5 DEF EndsRecord, IsWhole
    <3> QED
      BY <1>1, <1>2, <1>5, <3>1
  <2>10. l = Len(w.left) => b = data
    <3> SUFFICES ASSUME l = Len(w.left) PROVE b = data
      OBVIOUS
    <3>1. Len(v.left) = 0
      BY <1>1, <1>3, RestOf, LenProperties DEF Data
    <3>2. v.left = <<>>
      BY <1>4, <3>1, EmptySeq DEF Data
    <3> QED
      BY <2>2, <3>2, ConcatEmptySeq DEF Data
  <2>11. LaidOut(h \o z, Append(E, c), V)
    <3>2. EndsRecord(c) => Len(V) = Len(W) + 1 /\ V[Len(W) + 1].data = c.body
      BY <2>5, <2>9, <2>10
    <3>3. c.from = Len(h) + t /\ c.of = Len(W) + 1
      BY <2>5
    <3> HIDE DEF z
    <3> QED
      BY <1>1, <1>6, <2>4, <2>6, <2>7, <2>8, <2>3, <3>2, <3>3, LaidChunk
  <2>12. s = Len(x) /\ l # Len(w.left) => Fits(Append(E, c), v, data)
    <3> SUFFICES ASSUME s = Len(x), l # Len(w.left) PROVE Fits(Append(E, c), v, data)
      OBVIOUS
    <3> DEFINE D == Append(E, c)
    <3>1. Len(D) = Len(E) + 1 /\ D[Len(E) + 1] = c
      BY <1>5, <2>4, AppendProperties
    <3> HIDE DEF D
    <3>2. GoesOn(c)
      <4>1. p.type \in {"first", "middle"}
        BY <1>2
      <4>2. s - t = m
        BY <1>1, <1>5
      <4> QED
        BY <2>5, <4>1, <4>2 DEF GoesOn, IsWhole
    <3>3. Len(D) # 0 /\ D[Len(D)] = c
      BY <1>5, <3>1
    <3>4. Fits(D, v, data)
      BY <1>1, <2>2, <2>5, <3>2, <3>3 DEF Fits
    <3> QED
      BY <3>4 DEF D
  <2> QED
    BY <2>11, <2>12 DEF z, v
<1> QED
  BY <1>1, <1>5, <1>7, <1>8


\* A turn is the last when it takes all that is left.
LEMMA MoreLeft ==
  ASSUME NEW w \in WState, NEW x, NEW p, NEW l, NEW t, Appends(w, x, p, l, t)
  PROVE  More(Turn(w)) <=> l # Len(w.left)
<1> DEFINE v == Turn(w)
<1>1. /\ v.left = SubSeq(w.left, l + 1, Len(w.left)) /\ v.begin = FALSE /\ l \in 0 .. Len(w.left)
      /\ w.left \in Data
  BY DEF Appends, WState
<1>2. Len(v.left) = Len(w.left) - l /\ v.left \in Data /\ Len(w.left) \in Nat
  BY <1>1, RestOf, LenProperties DEF Data
<1> HIDE DEF v
<1>3. v.left = <<>> => Len(v.left) = 0
  OBVIOUS
<1>4. v.left # <<>> => Len(v.left) # 0
  BY <1>2, EmptySeq DEF Data
<1>5. More(v) <=> v.left # <<>>
  BY <1>1 DEF More
<1>6. More(v) <=> l # Len(w.left)
  BY <1>1, <1>2, <1>3, <1>4, <1>5
<1> QED
  BY <1>6 DEF v

LEMMA Appended ==
  ASSUME NEW W \in Entries, NEW e \in [data : Data, end : Nat]
  PROVE  /\ Append(W, e) \in Entries /\ Len(Append(W, e)) = Len(W) + 1 /\ Len(W) \in Nat
         /\ Append(W, e)[Len(W) + 1] = e
         /\ \A i \in 1 .. Len(W) : Append(W, e)[i] = W[i]
<1> DEFINE S == [data : Data, end : Nat]
<1>1. W \in Seq(S) /\ e \in S
  BY DEF Entries
<1> HIDE DEF S
<1>2. Len(W) \in Nat
  BY <1>1, LenProperties
<1>3. /\ Append(W, e) \in Seq(S) /\ Len(Append(W, e)) = Len(W) + 1
      /\ Append(W, e)[Len(W) + 1] = e
      /\ \A i \in 1 .. Len(W) : Append(W, e)[i] = W[i]
  BY <1>1, AppendProperties
<1> QED
  BY <1>2, <1>3 DEF Entries, S

\* The file after n turns of AddRecord of data to f.
Laid(f, w, data, W) ==
  /\ w \in WState
  /\ More(w) => \E E : LaidOut(f \o w.bytes, E, W) /\ Fits(E, w, data)
  /\ ~More(w) => \E E : LaidOut(f \o w.bytes, E,
                                Append(W, [data |-> data, end |-> Len(f \o w.bytes)]))

LEMMA TurnsLay ==
  ASSUME NEW f \in File, NEW W \in Entries, NEW D, LaidOut(f, D, W), NEW data \in Data,
         NEW o \in 0 .. BlockSize, NEW M \in Nat
  PROVE  \A n \in 0 .. M : Laid(f, Turns(data, o, n), data, W)
<1> DEFINE P == {n \in Nat : Laid(f, Turns(data, o, n), data, W)}
<1>1. 0 \in P
  <2> DEFINE w == Turns(data, o, 0)
  <2>1. w = [left |-> data, begin |-> TRUE, offset |-> o, bytes |-> <<>>]
    BY TurnsUnfold
  <2>2. w.left = data /\ w.begin = TRUE /\ w.offset = o /\ w.bytes = <<>>
    BY <2>1
  <2>3. <<>> \in File /\ f \o <<>> = f
    BY EmptySeq, ConcatEmptySeq DEF File
  <2>4. w \in WState
    <3> DEFINE e == <<>>
    <3>1. e \in File
      BY <2>3
    <3> HIDE DEF e
    <3>2. [left |-> data, begin |-> TRUE, offset |-> o, bytes |-> e] \in WState
      BY <3>1 DEF WState
    <3> QED
      BY <2>1, <3>2 DEF e
  <2> HIDE DEF w
  <2>5. More(w) /\ Fits(D, w, data)
    BY <2>2 DEF More, Fits
  <2>6. f \o w.bytes = f
    BY <2>2, <2>3
  <2>7. Laid(f, w, data, W)
    BY <2>4, <2>5, <2>6 DEF Laid
  <2> QED
    BY <2>7 DEF w
<1>2. ASSUME NEW n \in 1 .. M, n - 1 \in P
      PROVE  n \in P
  <2> DEFINE i == n - 1
             w == Turns(data, o, i)
             v == Turns(data, o, n)
  <2>1. i \in Nat /\ i + 1 = n /\ n \in Nat
    OBVIOUS
  <2>2. Laid(f, w, data, W)
    BY <1>2
  <2> HIDE DEF i
  <2>3. v = TurnIfMore(w)
    BY <2>1, TurnsUnfold
  <2> HIDE DEF w, v
  <2>4. CASE ~More(w)
    <3>1. Laid(f, v, data, W)
      BY <2>2, <2>3, <2>4 DEF TurnIfMore
    <3> QED
      BY <2>1, <3>1 DEF v
  <2>5. CASE More(w)
    <3>1. v = Turn(w)
      BY <2>3, <2>5 DEF TurnIfMore
    <3>2. w \in WState /\ w.bytes \in File
      BY <2>2 DEF Laid, WState
    <3>3. PICK E : LaidOut(f \o w.bytes, E, W) /\ Fits(E, w, data)
      BY <2>2, <2>5 DEF Laid
    <3>4. PICK x, p, l, t : Appends(w, x, p, l, t)
      BY <3>2, TurnAppends
    <3>5. v \in WState /\ v.bytes = w.bytes \o x /\ x \in File
      BY <3>1, <3>4 DEF Appends
    <3> DEFINE h == f \o w.bytes
               g == f \o v.bytes
               e == [data |-> data, end |-> Len(g)]
               V == IF l = Len(w.left) THEN Append(W, e) ELSE W
    <3>6. h \in File /\ g = h \o x /\ g \in File /\ Len(g) \in Nat
      <4> DEFINE b == w.bytes
      <4>1. b \in File
        BY <3>2
      <4> HIDE DEF b
      <4>2. f \in Seq(Byte) /\ b \in Seq(Byte) /\ x \in Seq(Byte)
        BY <3>5, <4>1 DEF File
      <4>3. (f \o b) \o x = f \o (b \o x)
        BY <4>2, ConcatAssociative
      <4>4. f \o b \in File /\ (f \o b) \o x \in File
        BY <3>5, <4>1, Joined
      <4>5. g = f \o (b \o x)
        BY <3>5 DEF b
      <4> HIDE DEF g
      <4>6. g = (f \o b) \o x /\ g \in File
        BY <4>3, <4>4, <4>5
      <4>7. Len(g) \in Nat
        BY <4>6, LenProperties DEF File
      <4> QED
        BY <4>4, <4>6, <4>7 DEF b
    <3> HIDE DEF h, g
    <3>7. e \in [data : Data, end : Nat] /\ e.data = data
      BY <3>6
    <3> HIDE DEF e
    <3>8. /\ Append(W, e) \in Entries /\ Len(Append(W, e)) = Len(W) + 1 /\ Len(W) \in Nat
          /\ Append(W, e)[Len(W) + 1] = e
          /\ \A i1 \in 1 .. Len(W) : Append(W, e)[i1] = W[i1]
      BY <3>7, Appended
    <3>9. /\ V \in Entries /\ Len(W) =< Len(V) /\ \A i1 \in 1 .. Len(W) : V[i1] = W[i1]
          /\ l = Len(w.left) => Len(V) = Len(W) + 1 /\ V[Len(W) + 1].data = data
      BY <3>7, <3>8
    <3>10. Len(x) \in Nat /\ Len(x) \in 0 .. Len(x) /\ SubSeq(x, 1, Len(x)) = x
      BY <3>5, SubSeqFull, LenProperties DEF File
    <3> HIDE DEF V
    <3>11. \E C : /\ LaidOut(h \o SubSeq(x, 1, Len(x)), C, V)
                  /\ l # Len(w.left) => Fits(C, Turn(w), data)
      <4>1. LaidOut(h, E, W)
        BY <3>3 DEF h
      <4> DEFINE s == Len(x)
      <4>2. s \in 0 .. Len(x) /\ s = Len(x)
        BY <3>10
      <4>3. h \in File /\ w \in WState /\ V \in Entries
        BY <3>2, <3>6, <3>9
      <4>4. Fits(E, w, data) /\ Appends(w, x, p, l, t)
        BY <3>3, <3>4
      <4>5. Len(W) =< Len(V) /\ \A i1 \in 1 .. Len(W) : V[i1] = W[i1]
        BY <3>9
      <4>6. s = Len(x) /\ l = Len(w.left) => Len(V) = Len(W) + 1 /\ V[Len(W) + 1].data = data
        BY <3>9
      <4> HIDE DEF s
      <4>7. \E C : /\ LaidOut(h \o SubSeq(x, 1, s), C, V)
                   /\ s = Len(x) /\ l # Len(w.left) => Fits(C, Turn(w), data)
        BY <4>1, <4>2, <4>3, <4>4, <4>5, <4>6, TurnLays
      <4> QED
        BY <4>2, <4>7
    <3>12. PICK C : LaidOut(g, C, V) /\ (l # Len(w.left) => Fits(C, v, data))
      BY <3>1, <3>6, <3>10, <3>11
    <3>13. More(v) <=> l # Len(w.left)
      BY <3>1, <3>2, <3>4, MoreLeft
    <3>14. More(v) => LaidOut(g, C, W) /\ Fits(C, v, data)
      BY <3>12, <3>13 DEF V
    <3>15. ~More(v) => LaidOut(g, C, Append(W, e))
      BY <3>12, <3>13 DEF V
    <3>16. Laid(f, v, data, W)
      BY <3>5, <3>14, <3>15 DEF Laid, g, e
    <3> QED
      BY <2>1, <3>16 DEF v
  <2> QED
    BY <2>4, <2>5
<1> HIDE DEF P
<1>3. \A n \in 0 .. M : n \in P
  BY <1>1, <1>2, UpTo
<1> QED
  BY <1>3 DEF P

\* AddRecord, with all its turns.
LEMMA RecordLays ==
  ASSUME NEW f \in File, NEW W \in Entries, NEW D, LaidOut(f, D, W), NEW data \in Data,
         NEW o \in 0 .. BlockSize
  PROVE  LET g == f \o Turns(data, o, MaxTurns(Len(data))).bytes
         IN  \E E : LaidOut(g, E, Append(W, [data |-> data, end |-> Len(g)]))
<1> DEFINE M == MaxTurns(Len(data))
           w == Turns(data, o, M)
<1>1. M \in Nat /\ M \in 0 .. M
  BY LenProperties DEF Data, MaxTurns
<1>2. ~More(w)
  BY TurnsEnd
<1> HIDE DEF M
<1>3. Laid(f, w, data, W)
  BY <1>1, TurnsLay
<1> HIDE DEF w
<1>4. \E E : LaidOut(f \o w.bytes, E, Append(W, [data |-> data, end |-> Len(f \o w.bytes)]))
  BY <1>2, <1>3 DEF Laid
<1> QED
  BY <1>4 DEF w, M

LEMMA PrefixJoined ==
  ASSUME NEW b \in File, NEW x \in File, NEW s \in 0 .. Len(x)
  PROVE  /\ SubSeq(b \o x, 1, Len(b) + s) = b \o SubSeq(x, 1, s)
         /\ SubSeq(x, 1, s) \in File
<1> DEFINE y == b \o x
           z == SubSeq(x, 1, s)
           k == Len(b) + s
           u == SubSeq(y, 1, k)
           v == b \o z
<1>1. Len(b) \in Nat /\ Len(x) \in Nat /\ x \in Seq(Byte)
  BY LenProperties DEF File
<1>2. /\ y \in File /\ Len(y) = Len(b) + Len(x)
      /\ \A i \in 1 .. (Len(b) + Len(x)) : y[i] = IF i <= Len(b) THEN b[i] ELSE x[i - Len(b)]
  BY Joined
<1> HIDE DEF y
<1>3. z \in File /\ Len(z) = s /\ \A i \in 1 .. s : z[i] = x[i]
  <2>1. 1 \in 1 .. (Len(x) + 1) /\ s \in 0 .. Len(x)
    BY <1>1
  <2>2. /\ z \in Seq(Byte) /\ Len(z) = IF 1 =< s THEN s - 1 + 1 ELSE 0
        /\ \A i \in 1 .. (s - 1 + 1) : z[i] = x[1 + i - 1]
    BY <1>1, <2>1, PrefixOf
  <2> HIDE DEF z
  <2>3. Len(z) = s
    BY <1>1, <2>2
  <2>4. \A i \in 1 .. s : z[i] = x[i]
    <3> SUFFICES ASSUME NEW i \in 1 .. s PROVE z[i] = x[i]
      OBVIOUS
    <3>1. i \in 1 .. (s - 1 + 1) /\ 1 + i - 1 = i
      BY <1>1
    <3> QED
      BY <2>2, <3>1
  <2> QED
    BY <2>2, <2>3, <2>4 DEF File
<1> HIDE DEF z
<1>4. /\ v \in File /\ Len(v) = Len(b) + Len(z)
      /\ \A i \in 1 .. (Len(b) + Len(z)) : v[i] = IF i <= Len(b) THEN b[i] ELSE z[i - Len(b)]
  BY <1>3, Joined
<1> HIDE DEF v
<1>5. k \in Nat /\ k \in 0 .. Len(y) /\ k = Len(b) + s
  BY <1>1, <1>2
<1> HIDE DEF k
<1>6. u \in Seq(Byte) /\ Len(u) = k /\ \A i \in 1 .. k : u[i] = y[i]
  <2>1. 1 \in 1 .. (Len(y) + 1) /\ k \in 0 .. Len(y) /\ y \in Seq(Byte)
    BY <1>1, <1>2, <1>5 DEF File
  <2>2. /\ u \in Seq(Byte) /\ Len(u) = IF 1 =< k THEN k - 1 + 1 ELSE 0
        /\ \A i \in 1 .. (k - 1 + 1) : u[i] = y[1 + i - 1]
    BY <2>1, PrefixOf
  <2> HIDE DEF u
  <2>3. Len(u) = k
    BY <1>5, <2>2
  <2>4. \A i \in 1 .. k : u[i] = y[i]
    <3> SUFFICES ASSUME NEW i \in 1 .. k PROVE u[i] = y[i]
      OBVIOUS
    <3>1. i \in 1 .. (k - 1 + 1) /\ 1 + i - 1 = i
      BY <1>5
    <3> QED
      BY <2>2, <3>1
  <2> QED
    BY <2>2, <2>3, <2>4
<1> HIDE DEF u
<1>7. \A i \in 1 .. k : u[i] = v[i]
  <2> SUFFICES ASSUME NEW i \in 1 .. k PROVE u[i] = v[i]
    OBVIOUS
  <2>1. i \in 1 .. (Len(b) + Len(x)) /\ i \in 1 .. (Len(b) + Len(z))
    BY <1>1, <1>3, <1>5
  <2>2. CASE i <= Len(b)
    BY <1>2, <1>4, <1>6, <2>1, <2>2
  <2>3. CASE ~ (i <= Len(b))
    <3>1. i - Len(b) \in 1 .. s
      BY <1>1, <1>5, <2>3
    <3> QED
      BY <1>2, <1>3, <1>4, <1>6, <2>1, <2>3, <3>1
  <2> QED
    BY <2>2, <2>3
<1>8. v \in Seq(Byte) /\ Len(v) = k
  BY <1>3, <1>4, <1>5 DEF File
<1>9. u = v
  BY <1>5, <1>6, <1>7, <1>8, SeqEqual
<1> QED
  BY <1>3, <1>9 DEF u, v, z, y, k

\* AddRecord, with a turn that stops short.
LEMMA PartLays ==
  ASSUME NEW f \in File, NEW W \in Entries, NEW D, LaidOut(f, D, W), NEW data \in Data,
         NEW o \in 0 .. BlockSize, NEW n \in 1 .. MaxTurns(Len(data)),
         NEW k \in Len(Turns(data, o, n - 1).bytes) ..
                     (Len(TurnIfMore(Turns(data, o, n - 1)).bytes) - 1)
  PROVE  \E E : LaidOut(f \o SubSeq(TurnIfMore(Turns(data, o, n - 1)).bytes, 1, k), E, W)
<1> DEFINE M == MaxTurns(Len(data))
           w == Turns(data, o, n - 1)
           v == TurnIfMore(w)
           b == w.bytes
<1>1. M \in Nat /\ n - 1 \in 0 .. M
  BY LenProperties DEF Data, MaxTurns
<1> HIDE DEF M
<1>2. Laid(f, w, data, W)
  BY <1>1, TurnsLay
<1>3. k \in Len(b) .. (Len(v.bytes) - 1)
  OBVIOUS
<1> HIDE DEF w
<1>4. w \in WState /\ b \in File /\ Len(b) \in Nat
  BY <1>2, LenProperties DEF Laid, WState, File
<1>5. CASE ~More(w)
  <2>1. v.bytes = b
    BY <1>5 DEF TurnIfMore
  <2> HIDE DEF v, b
  <2> QED
    BY <1>3, <1>4, <2>1
<1>6. CASE More(w)
  <2>1. v = Turn(w)
    BY <1>6 DEF TurnIfMore
  <2>2. PICK E : LaidOut(f \o b, E, W) /\ Fits(E, w, data)
    BY <1>2, <1>6 DEF Laid
  <2>3. PICK x, p, l, t : Appends(w, x, p, l, t)
    BY <1>4, TurnAppends
  <2>4. v.bytes = b \o x /\ x \in File
    BY <2>1, <2>3 DEF Appends
  <2> HIDE DEF b, v
  <2>5. f \o b \in File /\ b \o x \in File /\ Len(b \o x) = Len(b) + Len(x) /\ Len(x) \in Nat
    BY <1>4, <2>4, Joined, LenProperties DEF File
  <2> DEFINE s == k - Len(b)
  <2>6. s \in 0 .. Len(x) /\ s # Len(x) /\ k = Len(b) + s
    BY <1>3, <1>4, <2>4, <2>5
  <2> HIDE DEF s
  <2>7. SubSeq(v.bytes, 1, k) = b \o SubSeq(x, 1, s) /\ SubSeq(x, 1, s) \in File
    BY <1>4, <2>4, <2>6, PrefixJoined
  <2> DEFINE z == SubSeq(x, 1, s)
             h == f \o b
  <2>8. f \o SubSeq(v.bytes, 1, k) = h \o z
    <3>1. z \in Seq(Byte) /\ f \in Seq(Byte) /\ b \in Seq(Byte)
      BY <1>4, <2>7 DEF File
    <3> HIDE DEF z
    <3>2. (f \o b) \o z = f \o (b \o z)
      BY <3>1, ConcatAssociative
    <3>3. SubSeq(v.bytes, 1, k) = b \o z
      BY <2>7 DEF z
    <3> QED
      BY <3>2, <3>3
  <2>9. \E C : LaidOut(h \o z, C, W)
    <3>1. h \in File /\ LaidOut(h, E, W)
      BY <2>2, <2>5
    <3>2. Len(W) \in Nat
      BY LenProperties DEF Entries
    <3>3. Len(W) =< Len(W) /\ \A i \in 1 .. Len(W) : W[i] = W[i]
      BY <3>2
    <3>4. s = Len(x) /\ l = Len(w.left) => Len(W) = Len(W) + 1 /\ W[Len(W) + 1].data = data
      BY <2>6
    <3> HIDE DEF h
    <3>5. \E C : /\ LaidOut(h \o SubSeq(x, 1, s), C, W)
                 /\ s = Len(x) /\ l # Len(w.left) => Fits(C, Turn(w), data)
      BY <1>4, <2>2, <2>3, <2>6, <3>1, <3>3, <3>4, TurnLays
    <3> QED
      BY <3>5 DEF h
  <2> QED
    BY <2>8, <2>9 DEF v, w
<1> QED
  BY <1>5, <1>6 DEF v, w

-----------------------------------------------------------------------------
(* What a reader finds in such a file.                                     *)

LEMMA ChunkIs ==
  ASSUME NEW f \in File, NEW E, NEW W, LaidOut(f, E, W), NEW j \in 1 .. Len(E)
  PROVE  LET c == E[j]
         IN  /\ c.from \in Nat /\ c.size \in Nat /\ c.piece \in Headers /\ c.body \in Data
             /\ Len(c.piece.data) \in Nat /\ c.of \in Nat
             /\ EndsAfter(c) \in Nat /\ EndsAfter(c) = c.from + c.size /\ EndsAfter(c) =< Len(f)
             /\ 0 < c.size /\ c.size =< HeaderSize + Len(c.piece.data)
             /\ \A n \in 1 .. c.size : f[c.from + n] = <<c.piece, n>>
<1> DEFINE c == E[j]
<1>1. c \in Chunk /\ InFile(f, c)
  BY ElementOfSeq DEF LaidOut
<1> HIDE DEF c
<1>2. c.from \in Nat /\ c.size \in Nat /\ c.piece \in Headers /\ c.body \in Data /\ c.of \in Nat
  BY <1>1 DEF Chunk
<1>3. Len(c.piece.data) \in Nat
  BY <1>2, LenProperties DEF Headers, Data
<1>4. EndsAfter(c) \in Nat /\ EndsAfter(c) = c.from + c.size
  BY <1>2 DEF EndsAfter
<1> QED
  BY <1>1, <1>2, <1>3, <1>4 DEF InFile, c

LEMMA Before ==
  ASSUME NEW f \in File, NEW E, NEW W, LaidOut(f, E, W),
         NEW i \in 1 .. Len(E), NEW j \in 1 .. Len(E), EndsAfter(E[i]) =< E[j].from
  PROVE  i < j
<1>1. Len(E) \in Nat
  BY LenProperties DEF LaidOut
<1>2. /\ E[i].from \in Nat /\ E[i].size \in Nat /\ 0 < E[i].size
      /\ EndsAfter(E[i]) = E[i].from + E[i].size
      /\ E[j].from \in Nat /\ E[j].size \in Nat /\ 0 < E[j].size
      /\ EndsAfter(E[j]) = E[j].from + E[j].size
  BY ChunkIs
<1>3. CASE j = i
  BY <1>2, <1>3
<1>4. CASE j < i
  <2>1. j \in 1 .. (i - 1)
    BY <1>1, <1>4
  <2>2. EndsAfter(E[j]) =< E[i].from
    BY <2>1 DEF LaidOut
  <2> QED
    BY <1>2, <2>2
<1> QED
  BY <1>1, <1>3, <1>4

LEMMA Overlapping ==
  ASSUME NEW f \in File, NEW E, NEW W, LaidOut(f, E, W),
         NEW i \in 1 .. Len(E), NEW j \in 1 .. Len(E), E[i].from = E[j].from
  PROVE  i = j
<1>1. Len(E) \in Nat
  BY LenProperties DEF LaidOut
<1>2. /\ E[i].from \in Nat /\ E[i].size \in Nat /\ 0 < E[i].size
      /\ EndsAfter(E[i]) = E[i].from + E[i].size
      /\ E[j].size \in Nat /\ 0 < E[j].size /\ EndsAfter(E[j]) = E[j].from + E[j].size
  BY ChunkIs
<1>3. CASE j < i
  <2>1. j \in 1 .. (i - 1)
    BY <1>1, <1>3
  <2>2. EndsAfter(E[j]) =< E[i].from
    BY <2>1 DEF LaidOut
  <2> QED
    BY <1>2, <2>2
<1>4. CASE i < j
  <2>1. i \in 1 .. (j - 1)
    BY <1>1, <1>4
  <2>2. EndsAfter(E[i]) =< E[j].from
    BY <2>1 DEF LaidOut
  <2> QED
    BY <1>2, <2>2
<1> QED
  BY <1>1, <1>3, <1>4

\* The header of a piece is where a chunk begins, which is all there if a checksum fits.
LEMMA HeaderIsChunk ==
  ASSUME NEW f \in File, NEW E, NEW W, LaidOut(f, E, W), NEW s \in Nat,
         NEW p \in HeadersAt(f, s), s + HeaderSize =< Len(f)
  PROVE  \E j \in 1 .. Len(E) :
            /\ E[j].from = s /\ E[j].piece = p
            /\ Whole(f, s, p) /\ s + HeaderSize + Len(p.data) =< Len(f) => IsWhole(E[j])
<1>1. Len(f) \in Nat /\ HeaderSize \in Nat /\ 0 < HeaderSize /\ f \in Seq(Byte)
  BY BlocksAre, LenProperties DEF File
<1>2. \A n \in 1 .. HeaderSize : f[s + n] = <<p, n>>
  BY DEF HeadersAt
<1>3. f[s + 1] = <<p, 1>> /\ s + 1 \in 1 .. Len(f)
  BY <1>1, <1>2
<1>4. PICK j \in 1 .. Len(E) : E[j].from < s + 1 /\ s + 1 =< EndsAfter(E[j])
  <2>1. f[s + 1][2] = 1
    BY <1>3
  <2>2. f[s + 1][2] # 0
    BY <2>1
  <2> QED
    BY <1>3, <2>2 DEF LaidOut
<1> DEFINE c == E[j]
<1>5. /\ c.from \in Nat /\ c.size \in Nat /\ c.piece \in Headers
      /\ Len(c.piece.data) \in Nat
      /\ EndsAfter(c) = c.from + c.size /\ EndsAfter(c) =< Len(f)
      /\ 0 < c.size /\ c.size =< HeaderSize + Len(c.piece.data)
      /\ \A n \in 1 .. c.size : f[c.from + n] = <<c.piece, n>>
  BY ChunkIs
<1>6. c.from < s + 1 /\ s + 1 =< EndsAfter(c)
  BY <1>4
<1> HIDE DEF c
<1>7. c.from = s /\ c.piece = p
  <2> DEFINE n == s + 1 - c.from
  <2>1. n \in 1 .. c.size /\ c.from + n = s + 1
    BY <1>5, <1>6
  <2>2. f[c.from + n] = <<c.piece, n>>
    BY <1>5, <2>1
  <2>3. <<c.piece, n>> = <<p, 1>>
    BY <1>3, <2>1, <2>2
  <2> HIDE DEF n
  <2>4. c.piece = p /\ n = 1
    BY <2>3
  <2> QED
    BY <1>5, <2>1, <2>4
<1>8. ASSUME Whole(f, s, p), s + HeaderSize + Len(p.data) =< Len(f)
      PROVE  IsWhole(c)
  <2> DEFINE m == HeaderSize + Len(p.data)
  <2>1. m \in Nat /\ s + m =< Len(f) /\ c.size =< m /\ c.size \in Nat
    <3> DEFINE d == Len(p.data)
               e == Len(f)
    <3>1. d \in Nat /\ e \in Nat /\ s + HeaderSize + d =< e /\ c.size =< HeaderSize + d /\ c.size \in Nat
      BY <1>1, <1>5, <1>7, <1>8
    <3> HIDE DEF d, e
    <3>2. HeaderSize + d \in Nat /\ s + (HeaderSize + d) =< e
      BY <1>1, <3>1
    <3> QED
      BY <3>1, <3>2 DEF d, e
  <2>2. SubSeq(f, s + 1, s + m) = Bytes(p)
    BY <1>1, <1>5, <1>7, <1>8 DEF Whole
  <2>3. \A n \in 1 .. m : Bytes(p)[n] = <<p, n>>
    BY <1>5, <1>7, BytesAre
  <2> SUFFICES ASSUME c.size # m PROVE FALSE
    BY <1>7 DEF IsWhole
  <2> HIDE DEF m
  <2> DEFINE n == c.size + 1
  <2>4. n \in 1 .. m /\ s + n \in 1 .. Len(f) /\ n # 0 /\ n # 1
    BY <1>1, <1>5, <2>1
  <2>5. SubSeq(f, s + 1, s + m)[n] = f[s + n]
    <3>1. s + 1 \in 1 .. (Len(f) + 1) /\ s + m \in 0 .. Len(f)
      BY <1>1, <2>1, <2>4
    <3> DEFINE z == SubSeq(f, s + 1, s + m)
               u == s + 1
               v == s + m
    <3>2. \A i \in 1 .. (v - u + 1) : SubSeq(f, u, v)[i] = f[u + i - 1]
      <4>1. u \in 1 .. (Len(f) + 1) /\ v \in 0 .. Len(f)
        BY <3>1
      <4> HIDE DEF u, v
      <4> QED
        BY <1>1, <4>1, PrefixOf
    <3>3. n \in 1 .. (v - u + 1) /\ u + n - 1 = s + n
      <4>1. n \in 1 .. m /\ m \in Nat /\ u = s + 1 /\ v = s + m
        BY <2>1, <2>4
      <4> HIDE DEF n, u, v
      <4> QED
        BY <4>1
    <3> QED
      BY <3>2, <3>3
  <2>6. f[s + n] = <<p, n>>
    BY <2>2, <2>3, <2>4, <2>5
  <2> HIDE DEF n
  <2>7. f[s + n][2] = n
    BY <2>6
  <2>8. PICK i \in 1 .. Len(E) : E[i].from < s + n /\ s + n =< EndsAfter(E[i])
    BY <2>4, <2>7 DEF LaidOut
  <2> DEFINE d == E[i]
  <2>9. /\ d.from \in Nat /\ d.size \in Nat /\ EndsAfter(d) = d.from + d.size
        /\ \A l \in 1 .. d.size : f[d.from + l] = <<d.piece, l>>
    BY ChunkIs
  <2>10. d.from < s + n /\ s + n =< EndsAfter(d)
    BY <2>8
  <2> HIDE DEF d
  <2> DEFINE l == s + n - d.from
  <2>11. l \in 1 .. d.size /\ d.from + l = s + n
    BY <2>4, <2>9, <2>10
  <2>12. f[s + n] = <<d.piece, l>>
    BY <2>9, <2>11
  <2> HIDE DEF l
  <2>13. l = n
    BY <2>6, <2>12
  <2>14. d.from = s
    BY <2>4, <2>9, <2>11, <2>13
  <2>15. i = j
    BY <1>7, <2>14, Overlapping DEF c, d
  <2>16. n =< c.size
    BY <2>11, <2>13, <2>15 DEF c, d
  <2> QED
    BY <1>5, <2>16 DEF n
<1> QED
  BY <1>7, <1>8 DEF c

LEMMA PhysicalKinds ==
  ASSUME NEW f \in File, NEW E, NEW W, LaidOut(f, E, W), NEW a \in Nat
  PROVE  \/ Physical(f, a) = Eof
         \/ \E n \in Nat : a =< n /\ Physical(f, a) = [type |-> "bad", next |-> n]
         \/ \E j \in 1 .. Len(E) : /\ IsWhole(E[j])
                                   /\ Physical(f, a) = Found(E[j].piece, EndsAfter(E[j]))
                                   /\ a =< E[j].from /\ E[j].from - a < HeaderSize
<1> DEFINE trailer == BlockEnd(f, a) - a < HeaderSize /\ ~AtEof(f, a)
           start == IF trailer THEN BlockEnd(f, a) ELSE a
           H == HeadersAt(f, start)
           p == CHOOSE q \in H : TRUE
           room == BlockEnd(f, start) - start
<1>1. Len(f) \in Nat /\ HeaderSize \in Nat /\ 0 < HeaderSize
  BY BlocksAre, LenProperties DEF File
<1>2. \A b \in Nat : /\ BlockEnd(f, b) \in Nat /\ BlockEnd(f, b) =< Len(f)
                     /\ ~AtEof(f, b) => b < BlockEnd(f, b)
  <2> SUFFICES ASSUME NEW b \in Nat
               PROVE  /\ BlockEnd(f, b) \in Nat /\ BlockEnd(f, b) =< Len(f)
                      /\ ~AtEof(f, b) => b < BlockEnd(f, b)
    OBVIOUS
  <2>1. Boundary(b) \in Nat /\ b < Boundary(b)
    BY Boundaries
  <2> QED
    BY <1>1, <2>1 DEF BlockEnd, AtEof
<1>3. start \in Nat /\ a =< start /\ start - a < HeaderSize
  <2>1. CASE trailer
    BY <1>2, <2>1
  <2>2. CASE ~trailer
    BY <1>1, <2>2
  <2> QED
    BY <2>1, <2>2
<1>4. Physical(f, a) =
        IF room < HeaderSize THEN Eof
        ELSE IF H = {} THEN Bad(f, start)
        ELSE IF HeaderSize + Len(p.data) > room THEN Short(f, start)
        ELSE IF ~Whole(f, start, p) THEN Bad(f, start)
        ELSE [type |-> p.type, data |-> p.data, next |-> start + HeaderSize + Len(p.data)]
  BY DEF Physical
<1> HIDE DEF start
<1>5. BlockEnd(f, start) \in Nat /\ BlockEnd(f, start) =< Len(f)
  BY <1>2, <1>3
<1> HIDE DEF H, p
<1>6. CASE room < HeaderSize
  BY <1>4, <1>6
<1>7. CASE ~ (room < HeaderSize)
  <2>1. start + HeaderSize =< BlockEnd(f, start) /\ start + HeaderSize =< Len(f)
    BY <1>1, <1>3, <1>5, <1>7
  <2>2. CASE Physical(f, a) = Bad(f, start)
    <3>1. a =< BlockEnd(f, start)
      BY <1>1, <1>3, <1>5, <2>1
    <3> QED
      BY <1>5, <2>2, <3>1 DEF Bad
  <2>3. CASE Physical(f, a) # Bad(f, start) /\ Physical(f, a) # Eof
    <3>1. H # {}
      BY <1>4, <1>7, <2>3
    <3>2. p \in H
      BY <3>1 DEF p
    <3>3. ~ (HeaderSize + Len(p.data) > room)
      BY <1>4, <1>7, <2>3, <3>1 DEF Short
    <3>4. Whole(f, start, p)
      BY <1>4, <1>7, <2>3, <3>1, <3>3
    <3>5. Physical(f, a)
            = [type |-> p.type, data |-> p.data, next |-> start + HeaderSize + Len(p.data)]
      BY <1>4, <1>7, <3>1, <3>3, <3>4
    <3>6. PICK j \in 1 .. Len(E) :
            /\ E[j].from = start /\ E[j].piece = p
            /\ Whole(f, start, p) /\ start + HeaderSize + Len(p.data) =< Len(f) => IsWhole(E[j])
      BY <1>3, <2>1, <3>2, HeaderIsChunk DEF H
    <3>7. Len(p.data) \in Nat /\ EndsAfter(E[j]) = E[j].from + E[j].size
      BY <3>6, ChunkIs
    <3> DEFINE d == Len(p.data)
               e == BlockEnd(f, start)
    <3>8. start + HeaderSize + d =< Len(f) /\ start + HeaderSize + d = start + (HeaderSize + d)
      <4>1. d \in Nat /\ e \in Nat /\ e =< Len(f) /\ ~ (HeaderSize + d > e - start)
        BY <1>5, <3>3, <3>7
      <4> HIDE DEF d, e
      <4> QED
        BY <1>1, <1>3, <4>1
    <3>9. IsWhole(E[j])
      BY <3>4, <3>6, <3>8
    <3>10. EndsAfter(E[j]) = start + HeaderSize + Len(p.data)
      BY <3>6, <3>7, <3>8, <3>9 DEF IsWhole
    <3>11. Physical(f, a) = Found(E[j].piece, EndsAfter(E[j]))
      BY <3>5, <3>6, <3>10 DEF Found
    <3> QED
      BY <1>3, <3>6, <3>9, <3>11
  <2> QED
    BY <2>2, <2>3
<1> QED
  BY <1>6, <1>7

\* out holds the records that the chunks js end, all of them before at.
EndedBy(E, js, out, at) ==
  /\ js \in Seq(Nat) /\ Len(js) = Len(out)
  /\ \A i \in 1 .. Len(js) : /\ js[i] \in 1 .. Len(E) /\ EndsRecord(E[js[i]])
                             /\ out[i] = E[js[i]].body /\ EndsAfter(E[js[i]]) =< at
  /\ \A i \in 1 .. Len(js) : \A k \in 1 .. (i - 1) : js[k] < js[i]

\* What a reader has at any time: records that ended, and the chunk it is behind.
Gathered(E, s) ==
  /\ s \in State
  /\ \E js : EndedBy(E, js, s.out, s.at)
  /\ \/ s.scratch = <<>>
     \/ \E j \in 1 .. Len(E) : /\ GoesOn(E[j]) /\ s.scratch = <<E[j].body>>
                               /\ s.at = EndsAfter(E[j])

StartsWith(s, t) == Len(t) =< Len(s) /\ \A i \in 1 .. Len(t) : s[i] = t[i]

LEMMA EndedLater ==
  ASSUME NEW f \in File, NEW E, NEW W, LaidOut(f, E, W), NEW js, NEW out \in Seq(Data),
         NEW a \in Nat, EndedBy(E, js, out, a), NEW b \in Nat, a =< b
  PROVE  EndedBy(E, js, out, b)
<1> SUFFICES ASSUME NEW i \in 1 .. Len(js) PROVE EndsAfter(E[js[i]]) =< b
  BY DEF EndedBy
<1>1. js[i] \in 1 .. Len(E) /\ EndsAfter(E[js[i]]) =< a
  BY DEF EndedBy
<1>2. EndsAfter(E[js[i]]) \in Nat
  BY <1>1, ChunkIs
<1> QED
  BY <1>1, <1>2

LEMMA EndedNext ==
  ASSUME NEW f \in File, NEW E, NEW W, LaidOut(f, E, W), NEW js, NEW out \in Seq(Data),
         NEW a \in Nat, EndedBy(E, js, out, a),
         NEW j \in 1 .. Len(E), EndsRecord(E[j]), a =< E[j].from
  PROVE  EndedBy(E, Append(js, j), Append(out, E[j].body), EndsAfter(E[j]))
<1> DEFINE n == Len(js)
           ks == Append(js, j)
           outs == Append(out, E[j].body)
<1>1. n \in Nat /\ js \in Seq(Nat) /\ Len(out) = n /\ j \in Nat
  BY LenProperties DEF EndedBy, LaidOut
<1>2. E[j].body \in Data /\ E[j].from \in Nat /\ E[j].size \in Nat /\ EndsAfter(E[j]) \in Nat
      /\ EndsAfter(E[j]) = E[j].from + E[j].size
  BY ChunkIs
<1>3. ks \in Seq(Nat) /\ Len(ks) = n + 1 /\ ks[n + 1] = j /\ \A i \in 1 .. n : ks[i] = js[i]
  BY <1>1, AppendProperties
<1>4. Len(outs) = n + 1 /\ outs[n + 1] = E[j].body /\ \A i \in 1 .. n : outs[i] = out[i]
  <2> DEFINE d == E[j].body
  <2>1. d \in Data
    BY <1>2
  <2> HIDE DEF d
  <2>2. Len(Append(out, d)) = Len(out) + 1 /\ Append(out, d)[Len(out) + 1] = d
        /\ \A i \in 1 .. Len(out) : Append(out, d)[i] = out[i]
    BY <2>1, AppendProperties
  <2> QED
    BY <1>1, <2>2 DEF d
<1> HIDE DEF ks, outs
<1>5. ASSUME NEW i \in 1 .. n
      PROVE  /\ js[i] \in 1 .. Len(E) /\ EndsRecord(E[js[i]]) /\ out[i] = E[js[i]].body
             /\ EndsAfter(E[js[i]]) =< EndsAfter(E[j]) /\ js[i] < j
  <2>1. /\ js[i] \in 1 .. Len(E) /\ EndsRecord(E[js[i]])
        /\ out[i] = E[js[i]].body /\ EndsAfter(E[js[i]]) =< a
    BY DEF EndedBy
  <2>2. EndsAfter(E[js[i]]) \in Nat
    BY <2>1, ChunkIs
  <2>3. EndsAfter(E[js[i]]) =< E[j].from /\ EndsAfter(E[js[i]]) =< EndsAfter(E[j])
    BY <1>2, <2>1, <2>2
  <2>4. js[i] < j
    BY <2>1, <2>3, Before
  <2> QED
    BY <2>1, <2>3, <2>4
<1>6. ASSUME NEW i \in 1 .. n + 1
      PROVE  /\ ks[i] \in 1 .. Len(E) /\ EndsRecord(E[ks[i]])
             /\ outs[i] = E[ks[i]].body /\ EndsAfter(E[ks[i]]) =< EndsAfter(E[j])
             /\ \A k \in 1 .. (i - 1) : ks[k] < ks[i]
  <2>1. CASE i = n + 1
    <3>1. \A k \in 1 .. (i - 1) : k \in 1 .. n /\ ks[k] = js[k]
      BY <1>1, <1>3, <2>1
    <3>2. EndsAfter(E[j]) =< EndsAfter(E[j])
      BY <1>2
    <3> QED
      BY <1>3, <1>4, <1>5, <2>1, <3>1, <3>2
  <2>2. CASE i # n + 1
    <3>1. i \in 1 .. n
      BY <1>1, <2>2
    <3>2. \A k \in 1 .. (i - 1) : k \in 1 .. n /\ ks[k] = js[k]
      BY <1>1, <1>3, <3>1
    <3>3. \A k \in 1 .. (i - 1) : js[k] < js[i]
      BY <3>1 DEF EndedBy
    <3> QED
      BY <1>3, <1>4, <1>5, <3>1, <3>2, <3>3
  <2> QED
    BY <2>1, <2>2
<1>7. Len(ks) = Len(outs) /\ Len(ks) = n + 1
  BY <1>3, <1>4
<1> HIDE DEF n
<1>8. EndedBy(E, ks, outs, EndsAfter(E[j]))
  BY <1>3, <1>6, <1>7 DEF EndedBy
<1> QED
  BY <1>8 DEF ks, outs

\* A piece that is not the first of its record follows the one before it.
LEMMA GoesOnNext ==
  ASSUME NEW f \in File, NEW E, NEW W, LaidOut(f, E, W),
         NEW i \in 1 .. Len(E), NEW j \in 1 .. Len(E),
         EndsAfter(E[i]) =< E[j].from, E[j].from - EndsAfter(E[i]) < HeaderSize,
         E[j].piece.type \notin {"full", "first"}
  PROVE  E[j].body = E[i].body \o E[j].piece.data
<1>1. Len(E) \in Nat /\ HeaderSize \in Nat
  BY BlocksAre, LenProperties DEF LaidOut
<1>2. j - 1 # 0 /\ GoesOn(E[j - 1]) /\ E[j].body = E[j - 1].body \o E[j].piece.data
  BY DEF LaidOut, Follows
<1>3. i < j
  BY Before
<1>4. j - 1 \in 1 .. Len(E) /\ j - 1 \in 1 .. (j - 1)
  BY <1>1, <1>2
<1> DEFINE d == E[j - 1]
<1>5. /\ d.from \in Nat /\ d.size \in Nat /\ Len(d.piece.data) \in Nat
      /\ EndsAfter(d) = d.from + d.size
  BY <1>4, ChunkIs
<1>6. EndsAfter(d) =< E[j].from
  BY <1>4 DEF LaidOut
<1>7. d.size = HeaderSize + Len(d.piece.data)
  BY <1>2 DEF GoesOn, IsWhole
<1>8. EndsAfter(E[i]) \in Nat /\ E[j].from \in Nat
  BY ChunkIs
<1>9. i = j - 1
  <2> SUFFICES ASSUME i # j - 1 PROVE FALSE
    OBVIOUS
  <2>1. i \in 1 .. ((j - 1) - 1)
    BY <1>1, <1>3
  <2>2. EndsAfter(E[i]) =< d.from
    BY <1>4, <2>1 DEF LaidOut
  <2> DEFINE a == EndsAfter(E[i])
             b == E[j].from
             u == d.from
             v == d.size
             l == Len(d.piece.data)
  <2>3. /\ a \in Nat /\ b \in Nat /\ u \in Nat /\ v \in Nat /\ l \in Nat
        /\ a =< u /\ u + v =< b /\ v = HeaderSize + l /\ b - a < HeaderSize
    BY <1>5, <1>6, <1>7, <1>8, <2>2
  <2> HIDE DEF a, b, u, v, l
  <2> QED
    BY <1>1, <2>3
<1> QED
  BY <1>2, <1>9

\* A turn of the reader: what it has it keeps, and what it adds is a record.
LEMMA ReadGathers ==
  ASSUME NEW f \in File, NEW E, NEW W, LaidOut(f, E, W), NEW s, Gathered(E, s)
  PROVE  Gathered(E, Read(f, s)) /\ StartsWith(Read(f, s).out, s.out)
<1> DEFINE r == Read(f, s)
           q == Physical(f, s.at)
           a == s.at
<1>1. /\ s \in State /\ s.at \in Nat /\ s.scratch \in Seq(Data) /\ s.out \in Seq(Data)
      /\ s.alarms \in Nat /\ Len(s.out) \in Nat
  BY LenProperties DEF Gathered, State
<1>2. PICK js : EndedBy(E, js, s.out, a)
  BY DEF Gathered
<1>3. r = Took(s, q)
  BY DEF Read
<1>4. \/ q = Eof
      \/ \E n \in Nat : a =< n /\ q = [type |-> "bad", next |-> n]
      \/ \E j \in 1 .. Len(E) : /\ IsWhole(E[j])
                                /\ q = Found(E[j].piece, EndsAfter(E[j]))
                                /\ a =< E[j].from /\ E[j].from - a < HeaderSize
  BY <1>1, PhysicalKinds
<1>5. StartsWith(s.out, s.out)
  BY <1>1 DEF StartsWith
<1>6. \A d \in Data : /\ StartsWith(Append(s.out, d), s.out)
                      /\ Append(s.out, d) \in Seq(Data)
  <2> SUFFICES ASSUME NEW d \in Data
               PROVE  StartsWith(Append(s.out, d), s.out) /\ Append(s.out, d) \in Seq(Data)
    OBVIOUS
  <2>1. /\ Append(s.out, d) \in Seq(Data) /\ Len(Append(s.out, d)) = Len(s.out) + 1
        /\ \A i \in 1 .. Len(s.out) : Append(s.out, d)[i] = s.out[i]
    BY <1>1, AppendProperties
  <2> QED
    BY <1>1, <2>1 DEF StartsWith
<1> HIDE DEF q, r
<1>7. CASE q = Eof
  <2>1. r = s
    BY <1>3, <1>7 DEF Took, Eof
  <2> QED
    BY <1>5, <2>1 DEF r
<1>8. ASSUME NEW n \in Nat, a =< n, q = [type |-> "bad", next |-> n]
      PROVE  Gathered(E, r) /\ StartsWith(r.out, s.out)
  <2> DEFINE e == <<>>
  <2>1. q.type = "bad" /\ q.next = n
    BY <1>8
  <2>2. r = [at |-> n, scratch |-> e, out |-> s.out, alarms |-> s.alarms + 1]
    BY <1>3, <2>1 DEF Took, AfterBad
  <2>3. e \in Seq(Data) /\ s.alarms + 1 \in Nat
    BY <1>1, EmptySeq
  <2>4. e = <<>>
    OBVIOUS
  <2> HIDE DEF e
  <2>5. r \in State /\ r.out = s.out /\ r.at = n /\ r.scratch = <<>>
    BY <1>1, <2>2, <2>3, <2>4 DEF State
  <2>6. EndedBy(E, js, r.out, r.at)
    BY <1>1, <1>2, <1>8, <2>5, EndedLater
  <2> QED
    BY <1>5, <2>5, <2>6 DEF Gathered
<1>9. ASSUME NEW j \in 1 .. Len(E), IsWhole(E[j]), q = Found(E[j].piece, EndsAfter(E[j])),
             a =< E[j].from, E[j].from - a < HeaderSize
      PROVE  Gathered(E, r) /\ StartsWith(r.out, s.out)
  <2> DEFINE c == E[j]
             p == c.piece
             e == EndsAfter(c)
             begun == s.scratch # <<>>
             unended == IF begun /\ s.scratch[1] # <<>> THEN 1 ELSE 0
  <2>1. /\ p \in Headers /\ e \in Nat /\ c.from \in Nat /\ c.size \in Nat /\ c.body \in Data
        /\ e = c.from + c.size
    BY ChunkIs
  <2>2. a =< e
    BY <1>1, <1>9, <2>1
  <2>3. q.type = p.type /\ q.data = p.data /\ q.next = e
    BY <1>9 DEF Found
  <2>4. r \in State /\ r.at = e
    BY <1>1, <1>3, <1>9, <2>1, TookPiece
  <2>5. p.type \in {"full", "first", "middle", "last"}
    BY <2>1 DEF Headers
  <2>6. p.type \in {"full", "first"} => c.body = p.data
    BY DEF LaidOut, Follows
  <2>7. ASSUME begun, p.type \notin {"full", "first"}
        PROVE  c.body = s.scratch[1] \o p.data
    <3>1. PICK i \in 1 .. Len(E) : s.scratch = <<E[i].body>> /\ s.at = EndsAfter(E[i])
      BY <2>7 DEF Gathered
    <3>2. c.body = E[i].body \o p.data
      BY <1>9, <2>7, <3>1, GoesOnNext
    <3>3. s.scratch[1] = E[i].body
      <4>1. \A x : <<x>>[1] = x
        OBVIOUS
      <4> QED
        BY <3>1, <4>1
    <3> DEFINE y == s.scratch[1]
    <3>4. y = E[i].body
      BY <3>3
    <3> HIDE DEF y
    <3> QED
      BY <3>2, <3>4 DEF y
  <2>8. EndedBy(E, js, s.out, e)
    BY <1>1, <1>2, <2>1, <2>2, EndedLater
  <2>9. EndsRecord(c) => EndedBy(E, Append(js, j), Append(s.out, c.body), e)
    BY <1>1, <1>2, <1>9, EndedNext
  <2>10. /\ p.type \in {"full", "last"} => EndsRecord(c)
         /\ p.type \in {"first", "middle"} => GoesOn(c)
    BY <1>9 DEF EndsRecord, GoesOn
  <2> HIDE DEF c, p, e, unended
  <2>11. CASE p.type = "full"
    <3>1. r = [at |-> e, scratch |-> <<>>, out |-> Append(s.out, p.data), alarms |-> s.alarms + unended]
      BY <1>3, <2>3, <2>11 DEF Took, unended
    <3>2. r.scratch = <<>> /\ r.out = Append(s.out, c.body)
      BY <2>6, <2>11, <3>1
    <3>3. EndedBy(E, Append(js, j), r.out, r.at)
      BY <2>4, <2>9, <2>10, <2>11, <3>2
    <3> QED
      BY <1>6, <2>1, <2>4, <3>2, <3>3 DEF Gathered
  <2>12. CASE p.type = "first"
    <3>1. r = [at |-> e, scratch |-> <<p.data>>, out |-> s.out, alarms |-> s.alarms + unended]
      BY <1>3, <2>3, <2>12 DEF Took, unended
    <3>2. r.scratch = <<c.body>> /\ r.out = s.out
      BY <2>6, <2>12, <3>1
    <3>3. EndedBy(E, js, r.out, r.at)
      BY <2>4, <2>8, <3>2
    <3>4. GoesOn(E[j]) /\ r.scratch = <<E[j].body>> /\ r.at = EndsAfter(E[j])
      BY <2>4, <2>10, <2>12, <3>2 DEF c, e
    <3> QED
      BY <1>5, <2>4, <3>2, <3>3, <3>4 DEF Gathered
  <2>13. CASE p.type \in {"middle", "last"} /\ ~begun
    <3>1. r = [at |-> e, scratch |-> <<>>, out |-> s.out, alarms |-> s.alarms + 1]
      BY <1>3, <2>3, <2>13 DEF Took
    <3>2. r.scratch = <<>> /\ r.out = s.out
      BY <3>1
    <3>3. EndedBy(E, js, r.out, r.at)
      BY <2>4, <2>8, <3>2
    <3> QED
      BY <1>5, <2>4, <3>2, <3>3 DEF Gathered
  <2>14. CASE p.type = "middle" /\ begun
    <3>1. r = [at |-> e, scratch |-> <<s.scratch[1] \o p.data>>, out |-> s.out, alarms |-> s.alarms + 0]
      BY <1>3, <2>3, <2>14 DEF Took
    <3>2. r.scratch = <<c.body>> /\ r.out = s.out
      BY <2>7, <2>14, <3>1
    <3>3. EndedBy(E, js, r.out, r.at)
      BY <2>4, <2>8, <3>2
    <3>4. GoesOn(E[j]) /\ r.scratch = <<E[j].body>> /\ r.at = EndsAfter(E[j])
      BY <2>4, <2>10, <2>14, <3>2 DEF c, e
    <3> QED
      BY <1>5, <2>4, <3>2, <3>3, <3>4 DEF Gathered
  <2>15. CASE p.type = "last" /\ begun
    <3>1. r = [at |-> e, scratch |-> <<>>, out |-> Append(s.out, s.scratch[1] \o p.data), alarms |-> s.alarms + 0]
      BY <1>3, <2>3, <2>15 DEF Took
    <3>2. r.scratch = <<>> /\ r.out = Append(s.out, c.body)
      BY <2>7, <2>15, <3>1
    <3>3. EndedBy(E, Append(js, j), r.out, r.at)
      BY <2>4, <2>9, <2>10, <2>15, <3>2
    <3> QED
      BY <1>6, <2>1, <2>4, <3>2, <3>3 DEF Gathered
  <2> QED
    BY <2>5, <2>11, <2>12, <2>13, <2>14, <2>15
<1> QED
  BY <1>4, <1>7, <1>8, <1>9 DEF r

LEMMA ReadingGathers ==
  ASSUME NEW f \in File, NEW E, NEW W, LaidOut(f, E, W), NEW M \in Nat
  PROVE  \A k \in 0 .. M : Gathered(E, Reading(f, k))
<1> DEFINE P == {k \in Nat : Gathered(E, Reading(f, k))}
<1>1. 0 \in P
  <2> DEFINE e == <<>>
             r == Reading(f, 0)
  <2>1. e \in Seq(Data) /\ Len(e) = 0 /\ e \in Seq(Nat) /\ e = <<>>
    BY EmptySeq
  <2>2. r = [at |-> 0, scratch |-> e, out |-> e, alarms |-> 0]
    BY ReadingUnfold
  <2> HIDE DEF e, r
  <2>3. r \in State /\ r.out = e /\ r.scratch = <<>> /\ r.at = 0
    BY <2>1, <2>2 DEF State
  <2>4. EndedBy(E, e, r.out, r.at)
    BY <2>1, <2>3 DEF EndedBy
  <2>5. Gathered(E, r)
    BY <2>3, <2>4 DEF Gathered
  <2> QED
    BY <2>5 DEF r
<1>2. ASSUME NEW k \in 1 .. M, k - 1 \in P
      PROVE  k \in P
  <2> DEFINE i == k - 1
  <2>1. i \in Nat /\ i + 1 = k /\ k \in Nat /\ Gathered(E, Reading(f, i))
    BY <1>2
  <2> HIDE DEF i
  <2>2. Reading(f, i + 1) = Read(f, Reading(f, i))
    BY <2>1, ReadingUnfold
  <2>3. Gathered(E, Reading(f, k))
    BY <2>1, <2>2, ReadGathers
  <2> QED
    BY <2>1, <2>3
<1> HIDE DEF P
<1>3. \A k \in 0 .. M : k \in P
  BY <1>1, <1>2, UpTo
<1> QED
  BY <1>3 DEF P

\* What was returned stays returned.
LEMMA ReadingKeeps ==
  ASSUME NEW f \in File, NEW E, NEW W, LaidOut(f, E, W), NEW M \in Nat, NEW m \in 0 .. M
  PROVE  StartsWith(Reading(f, M).out, Reading(f, m).out)
<1> DEFINE t == Reading(f, m).out
           P == {k \in Nat : m =< k => StartsWith(Reading(f, k).out, t)}
<1>1. \A k \in 0 .. M : Gathered(E, Reading(f, k)) /\ Len(Reading(f, k).out) \in Nat
  <2>1. \A k \in 0 .. M : Gathered(E, Reading(f, k))
    BY ReadingGathers
  <2> QED
    BY <2>1, LenProperties DEF Gathered, State
<1>2. StartsWith(t, t)
  BY <1>1 DEF StartsWith
<1>3. 0 \in P
  <2>1. m =< 0 => m = 0
    OBVIOUS
  <2> QED
    BY <1>2, <2>1
<1>4. ASSUME NEW k \in 1 .. M, k - 1 \in P
      PROVE  k \in P
  <2> DEFINE i == k - 1
             x == Reading(f, i).out
             y == Reading(f, k).out
  <2>1. i \in Nat /\ i + 1 = k /\ k \in Nat /\ i \in 0 .. M /\ k \in 0 .. M
        /\ (m =< i => StartsWith(x, t))
    BY <1>4
  <2> HIDE DEF i
  <2>2. Reading(f, i + 1) = Read(f, Reading(f, i))
    BY <2>1, ReadingUnfold
  <2>3. StartsWith(y, x)
    BY <1>1, <2>1, <2>2, ReadGathers
  <2>4. Len(x) \in Nat /\ Len(y) \in Nat /\ Len(t) \in Nat
    BY <1>1, <2>1
  <2>5. m =< k => StartsWith(y, t)
    <3> HIDE DEF x, y, t
    <3>1. CASE m =< i
      <4>1. StartsWith(x, t)
        BY <2>1, <3>1
      <4> QED
        BY <2>3, <2>4, <4>1 DEF StartsWith
    <3>2. CASE ~ (m =< i)
      <4>1. m =< k => m = k
        BY <2>1, <3>2
      <4> QED
        BY <1>2, <4>1 DEF t, y
    <3> QED
      BY <3>1, <3>2
  <2> QED
    BY <2>1, <2>5
<1> HIDE DEF P
<1>5. \A k \in 0 .. M : k \in P
  BY <1>3, <1>4, UpTo
<1> QED
  BY <1>5 DEF P

-----------------------------------------------------------------------------
(* The log.                                                                *)

LEMMA PayloadType ==
  ASSUME NEW r \in Nat, NEW size \in Nat
  PROVE  Payload(r, size) \in Data /\ Len(Payload(r, size)) = size
<1>1. \A i \in 1 .. size : <<r, i>> \in Nat \X Nat
  OBVIOUS
<1> QED
  BY <1>1 DEF Payload, Data

\* n records that a reader of f gets, whatever is behind.
Saved(f, n, W) ==
  /\ n \in 0 .. Len(W)
  /\ \E m \in Nat : /\ Reads(f, m) /\ Reading(f, m).at =< Len(f) /\ Len(Reading(f, m).out) = n
                    /\ \A i \in 1 .. n : Reading(f, m).out[i] = W[i].data

LEMMA ToldSaved ==
  ASSUME NEW f \in File, NEW W \in Entries, NEW m, Told(f, m, W)
  PROVE  Saved(f, Len(W), W)
<1> DEFINE r == Reading(f, m)
           n == Len(W)
<1>1. m \in Nat /\ Reads(f, m) /\ r.at = Len(f) /\ n \in Nat /\ Len(f) \in Nat /\ m \in 0 .. m
  BY LenProperties DEF Told, Entries, File
<1>2. r \in State /\ r.at \in Nat /\ Len(r.out) \in Nat
  <2>1. r \in State
    BY <1>1, ReadsType
  <2> HIDE DEF r
  <2> QED
    BY <2>1, LenProperties DEF State
<1>3. /\ Len(r.out) =< n /\ \A i \in 1 .. Len(r.out) : r.out[i] = W[i].data
      /\ \A i \in 1 .. n : i =< Len(r.out) <=> W[i].end =< r.at
  BY <1>1 DEF Told
<1>4. n # 0 => W[n].end =< r.at
  <2> SUFFICES ASSUME n # 0 PROVE W[n].end =< r.at
    OBVIOUS
  <2>1. n \in 1 .. n
    BY <1>1
  <2>2. PICK k \in 0 .. m : W[n].end = Reading(f, k).at
    BY <2>1 DEF Told
  <2> QED
    BY <1>1, <2>2, ReadsMove
<1> HIDE DEF r, n
<1>5. Len(r.out) = n
  BY <1>1, <1>2, <1>3, <1>4
<1>6. n \in 0 .. n /\ r.at =< Len(f)
  BY <1>1
<1> QED
  BY <1>1, <1>3, <1>5, <1>6 DEF Saved, r, n

LEMMA SavedStays ==
  ASSUME NEW f \in File, NEW z \in File, NEW W \in Entries, NEW n, Saved(f, n, W),
         NEW V \in Entries, Len(W) =< Len(V), \A i \in 1 .. Len(W) : V[i] = W[i]
  PROVE  Saved(f \o z, n, V)
<1> DEFINE g == f \o z
<1>1. Len(f) \in Nat /\ Len(z) \in Nat /\ Len(W) \in Nat /\ Len(V) \in Nat
  BY LenProperties DEF File, Entries
<1>2. g \in File /\ Len(g) = Len(f) + Len(z) /\ \A i \in 1 .. Len(f) : g[i] = f[i]
  BY Joined
<1> HIDE DEF g
<1>3. n \in 0 .. Len(W)
  BY DEF Saved
<1>4. PICK m \in Nat : /\ Reads(f, m) /\ Reading(f, m).at =< Len(f) /\ Len(Reading(f, m).out) = n
                       /\ \A i \in 1 .. n : Reading(f, m).out[i] = W[i].data
  BY DEF Saved
<1>5. Len(f) =< Len(g)
  BY <1>1, <1>2
<1>6. Reads(g, m) /\ \A k \in 0 .. m : Reading(g, k) = Reading(f, k)
  BY <1>1, <1>2, <1>4, <1>5, ReadsAlike
<1>7. Reading(g, m) = Reading(f, m)
  BY <1>6
<1>8. Reading(f, m).at \in Nat
  <2>1. Reading(f, m) \in State
    BY <1>4, ReadsType
  <2> QED
    BY <2>1 DEF State
<1>9. Reading(g, m).at =< Len(g)
  BY <1>1, <1>2, <1>4, <1>7, <1>8
<1>10. n \in 0 .. Len(V) /\ \A i \in 1 .. n : V[i] = W[i]
  BY <1>1, <1>3
<1> DEFINE r == Reading(g, m)
<1>11. Len(r.out) = n /\ \A i \in 1 .. n : r.out[i] = V[i].data
  BY <1>4, <1>7, <1>10
<1> HIDE DEF r
<1>12. Saved(g, n, V)
  BY <1>6, <1>9, <1>10, <1>11 DEF Saved, r
<1> QED
  BY <1>12 DEF g

\* What the properties follow from.
LogTyped ==
  /\ file \in File /\ blockOffset \in 0 .. BlockSize /\ written \in Entries
  /\ calls \in 0 .. MaxRecords /\ torn \in Seq(Nat) /\ Len(written) + Len(torn) = calls

LogInv ==
  /\ LogTyped
  /\ \E E : LaidOut(file, E, written)
  /\ torn = <<>> => /\ Aligned(blockOffset, Len(file))
                    /\ \E m : Told(file, m, written) /\ Reading(file, m).scratch = <<>>
  /\ torn # <<>> => Saved(file, torn[1], written)

LEMMA LogInvInit == Init => LogInv
<1> SUFFICES ASSUME Init PROVE LogInv
  OBVIOUS
<1> DEFINE e == <<>>
<1>1. file = e /\ blockOffset = 0 /\ written = e /\ calls = 0 /\ torn = e
  BY DEF Init
<1>2. \A S : e \in Seq(S)
  BY EmptySeq
<1>3. Len(e) = 0
  OBVIOUS
<1> HIDE DEF e
<1>4. LogTyped
  BY <1>1, <1>2, <1>3, BlocksAre DEF LogTyped, File, Entries
<1>5. Aligned(blockOffset, Len(file))
  BY <1>1, <1>3, AlignedIsModulo, BlocksAre
<1>6. Reading(file, 0) = [at |-> 0, scratch |-> <<>>, out |-> <<>>, alarms |-> 0]
  BY ReadingUnfold
<1>7. Reading(file, 0).at = 0 /\ Reading(file, 0).alarms = 0 /\ Reading(file, 0).scratch = <<>>
      /\ Len(Reading(file, 0).out) = 0
  BY <1>6
<1>8. Told(file, 0, written)
  BY <1>1, <1>3, <1>7 DEF Told, Reads
<1>9. LaidOut(file, e, written)
  BY <1>1, <1>2, <1>3 DEF LaidOut
<1> QED
  BY <1>1, <1>4, <1>5, <1>7, <1>8, <1>9 DEF LogInv, e

LEMMA LogInvAddRecord ==
  ASSUME LogInv, NEW size \in Sizes, AddRecord(size)
  PROVE  LogInv'
<1> DEFINE data == Payload(calls + 1, size)
           w == Turns(data, blockOffset, MaxTurns(size))
           e == [data |-> data, end |-> Len(file')]
<1>1. /\ file \in File /\ blockOffset \in 0 .. BlockSize /\ written \in Entries
      /\ calls \in 0 .. MaxRecords /\ torn \in Seq(Nat) /\ Len(written) + Len(torn) = calls
  BY DEF LogInv, LogTyped
<1>2. /\ calls < MaxRecords /\ calls' = calls + 1 /\ file' = file \o w.bytes
      /\ blockOffset' = w.offset /\ written' = Append(written, e) /\ torn' = torn
  BY DEF AddRecord
<1>3. size \in Nat /\ calls + 1 \in Nat /\ calls + 1 \in 0 .. MaxRecords
  BY <1>1, <1>2, BlocksAre
<1>4. data \in Data /\ Len(data) = size
  BY <1>3, PayloadType
<1>5. w \in WState
  <2>1. MaxTurns(size) \in 0 .. MaxTurns(size)
    BY <1>3 DEF MaxTurns
  <2> HIDE DEF data
  <2> QED
    BY <1>1, <1>4, <2>1, TurnsEnd
<1> HIDE DEF data
<1>6. torn = <<>> => /\ Aligned(w.offset, Len(file \o w.bytes))
                     /\ Complete(w, data, file \o w.bytes, written)
  <2> SUFFICES ASSUME torn = <<>>
               PROVE  /\ Aligned(w.offset, Len(file \o w.bytes))
                      /\ Complete(w, data, file \o w.bytes, written)
    OBVIOUS
  <2>1. /\ Aligned(blockOffset, Len(file))
        /\ \E m : Told(file, m, written) /\ Reading(file, m).scratch = <<>>
    BY DEF LogInv
  <2>2. PICK m : Told(file, m, written) /\ Reading(file, m).scratch = <<>>
    BY <2>1
  <2>3. w = Turns(data, blockOffset, MaxTurns(Len(data)))
    BY <1>4
  <2> HIDE DEF w
  <2> QED
    BY <1>1, <1>4, <2>1, <2>2, <2>3, AllTurns
<1> HIDE DEF w
<1>7. file' \in File /\ Len(file') \in Nat /\ w.offset \in 0 .. BlockSize
  <2>1. file \in Seq(Byte) /\ w.bytes \in Seq(Byte) /\ w.offset \in 0 .. BlockSize
    BY <1>1, <1>5 DEF WState, File
  <2>2. file' \in Seq(Byte)
    BY <1>2, <2>1, ConcatProperties
  <2> QED
    BY <2>1, <2>2, LenProperties DEF File
<1>8. e \in [data : Data, end : Nat]
  BY <1>4, <1>7
<1> HIDE DEF e
<1>9. written' \in Entries /\ Len(written') = Len(written) + 1 /\ Len(written) \in Nat
      /\ Len(torn) \in Nat
  BY <1>1, <1>2, <1>8, AppendProperties, LenProperties DEF Entries
<1>10. LogTyped'
  BY <1>1, <1>2, <1>3, <1>7, <1>9 DEF LogTyped
<1>11. ASSUME torn' = <<>>
       PROVE  /\ Aligned(blockOffset', Len(file'))
              /\ \E m : Told(file', m, written') /\ Reading(file', m).scratch = <<>>
  <2>1. torn = <<>>
    BY <1>2, <1>11
  <2>2. Aligned(blockOffset', Len(file')) /\ Complete(w, data, file', written)
    BY <1>2, <1>6, <2>1
  <2> QED
    BY <1>2, <2>2 DEF Complete, e
<1>12. \E E : LaidOut(file', E, written')
  <2>1. PICK D : LaidOut(file, D, written)
    BY DEF LogInv
  <2>2. file' = file \o Turns(data, blockOffset, MaxTurns(Len(data))).bytes
    BY <1>2, <1>4 DEF w
  <2>3. \E E : LaidOut(file', E, Append(written, [data |-> data, end |-> Len(file')]))
    BY <1>1, <1>4, <2>1, <2>2, RecordLays
  <2> QED
    BY <1>2, <2>3 DEF e
<1>13. ASSUME torn' # <<>>
       PROVE  Saved(file', torn'[1], written')
  <2>1. Saved(file, torn[1], written)
    BY <1>2, <1>13 DEF LogInv
  <2>2. /\ Len(written) =< Len(written') /\ \A i \in 1 .. Len(written) : written'[i] = written[i]
    BY <1>1, <1>2, <1>8, <1>9, Appended
  <2>3. w.bytes \in File
    BY <1>5 DEF WState
  <2> DEFINE b == w.bytes
             V == written'
             n == torn[1]
  <2>4. b \in File /\ V \in Entries /\ Len(written) =< Len(V)
        /\ \A i \in 1 .. Len(written) : V[i] = written[i]
    BY <1>9, <2>2, <2>3
  <2> HIDE DEF b, V, n
  <2>5. Saved(file \o b, n, V)
    BY <1>1, <2>1, <2>4, SavedStays DEF n
  <2> QED
    BY <1>2, <2>5 DEF b, V, n
<1> QED
  BY <1>10, <1>11, <1>12, <1>13 DEF LogInv

LEMMA LogInvAddRecordFails ==
  ASSUME LogInv, NEW size \in Sizes, AddRecordFails(size)
  PROVE  LogInv'
<1> DEFINE data == Payload(calls + 1, size)
<1>1. /\ file \in File /\ blockOffset \in 0 .. BlockSize /\ written \in Entries
      /\ calls \in 0 .. MaxRecords /\ torn \in Seq(Nat) /\ Len(written) + Len(torn) = calls
  BY DEF LogInv, LogTyped
<1>2. /\ calls < MaxRecords /\ calls' = calls + 1 /\ written' = written
      /\ torn' = Append(torn, Len(written))
  BY DEF AddRecordFails
<1>3. size \in Nat /\ calls + 1 \in Nat /\ calls + 1 \in 0 .. MaxRecords
  BY <1>1, <1>2, BlocksAre
<1>4. data \in Data /\ Len(data) = size
  BY <1>3, PayloadType
<1>5. PICK n \in 1 .. MaxTurns(size) :
        LET before == Turns(data, blockOffset, n - 1)
            w == TurnIfMore(before)
        IN  /\ \E k \in Len(before.bytes)..(Len(w.bytes) - 1) :
                  file' = file \o SubSeq(w.bytes, 1, k)
            /\ blockOffset' = w.offset
  BY DEF AddRecordFails
<1> DEFINE before == Turns(data, blockOffset, n - 1)
           w == TurnIfMore(before)
<1>6. PICK k \in Len(before.bytes)..(Len(w.bytes) - 1) : file' = file \o SubSeq(w.bytes, 1, k)
  BY <1>5
<1>7. blockOffset' = w.offset
  BY <1>5
<1> HIDE DEF data
<1>8. n - 1 \in Nat /\ (n - 1) + 1 = n
      /\ n - 1 \in 0 .. MaxTurns(Len(data)) /\ n \in 0 .. MaxTurns(Len(data))
  BY <1>3, <1>4 DEF MaxTurns
<1>9. before \in WState /\ w \in WState
  <2>1. \A i \in 0 .. MaxTurns(Len(data)) : Turns(data, blockOffset, i) \in WState
    BY <1>1, <1>4, TurnsEnd
  <2>2. before \in WState
    BY <1>8, <2>1
  <2>3. Turns(data, blockOffset, (n - 1) + 1) = TurnIfMore(before)
    BY <1>8, TurnsUnfold
  <2> QED
    BY <1>8, <2>1, <2>2, <2>3
<1> HIDE DEF before, w
<1>10. /\ w.bytes \in Seq(Byte) /\ before.bytes \in Seq(Byte) /\ w.offset \in 0 .. BlockSize
       /\ Len(w.bytes) \in Nat /\ Len(before.bytes) \in Nat
  <2>1. w.bytes \in Seq(Byte) /\ before.bytes \in Seq(Byte) /\ w.offset \in 0 .. BlockSize
    BY <1>9 DEF WState, File
  <2> QED
    BY <2>1, LenProperties
<1>11. file' \in File
  <2> DEFINE b == w.bytes
             y == SubSeq(b, 1, k)
  <2>1. b \in Seq(Byte) /\ 1 \in 1 .. (Len(b) + 1) /\ k \in 0 .. Len(b)
    BY <1>10
  <2> HIDE DEF b
  <2>2. y \in Seq(Byte)
    BY <2>1, PrefixOf
  <2>3. file' = file \o y
    BY <1>6 DEF b
  <2> HIDE DEF y
  <2> QED
    BY <1>1, <2>2, <2>3, ConcatProperties DEF File
<1>12. Len(written) \in Nat /\ Len(torn) \in Nat
  BY <1>1, LenProperties DEF Entries
<1>13. torn' \in Seq(Nat) /\ Len(torn') = Len(torn) + 1 /\ torn' # <<>>
  BY <1>1, <1>2, <1>12, AppendProperties
<1>14. LogTyped'
  BY <1>1, <1>2, <1>3, <1>7, <1>10, <1>11, <1>12, <1>13 DEF LogTyped
<1>15. \E E : LaidOut(file', E, written')
  <2>1. PICK D : LaidOut(file, D, written)
    BY DEF LogInv
  <2>2. n \in 1 .. MaxTurns(Len(data))
    BY <1>4
  <2>3. k \in Len(Turns(data, blockOffset, n - 1).bytes) ..
                 (Len(TurnIfMore(Turns(data, blockOffset, n - 1)).bytes) - 1)
    BY DEF before, w
  <2>4. \E E : LaidOut(file \o SubSeq(TurnIfMore(Turns(data, blockOffset, n - 1)).bytes, 1, k),
                      E, written)
    BY <1>1, <1>4, <2>1, <2>2, <2>3, PartLays
  <2> QED
    BY <1>2, <1>6, <2>4 DEF before, w
<1>16. Saved(file', torn'[1], written')
  <2> DEFINE z == SubSeq(w.bytes, 1, k)
  <2>1. z \in File
    <3> DEFINE b == w.bytes
    <3>1. b \in Seq(Byte) /\ 1 \in 1 .. (Len(b) + 1) /\ k \in 0 .. Len(b)
      BY <1>10
    <3> HIDE DEF b
    <3>2. SubSeq(b, 1, k) \in Seq(Byte)
      BY <3>1, PrefixOf
    <3> QED
      BY <3>2 DEF b, File
  <2>2. file' = file \o z
    BY <1>6
  <2> HIDE DEF z
  <2>3. Len(written) =< Len(written) /\ \A i \in 1 .. Len(written) : written[i] = written[i]
    BY <1>12
  <2>4. \A l : Saved(file, l, written) => Saved(file \o z, l, written)
    BY <1>1, <2>1, <2>3, SavedStays
  <2>5. CASE torn = <<>>
    <3>1. PICK m : Told(file, m, written)
      BY <2>5 DEF LogInv
    <3>2. Saved(file, Len(written), written)
      BY <1>1, <3>1, ToldSaved
    <3>3. Len(torn) = 0
      BY <2>5
    <3>4. torn'[1] = Len(written)
      BY <1>1, <1>2, <1>12, <3>3, AppendProperties
    <3> QED
      BY <1>2, <2>2, <2>4, <3>2, <3>4
  <2>6. CASE torn # <<>>
    <3>1. Saved(file, torn[1], written)
      BY <2>6 DEF LogInv
    <3>2. Len(torn) # 0
      BY <1>1, <2>6, EmptySeq
    <3>3. torn'[1] = torn[1]
      BY <1>1, <1>2, <1>12, <3>2, AppendProperties
    <3> QED
      BY <1>2, <2>2, <2>4, <3>1, <3>3
  <2> QED
    BY <2>5, <2>6
<1> QED
  BY <1>13, <1>14, <1>15, <1>16 DEF LogInv

LEMMA LogInvKept == LogInv /\ [Next]_vars => LogInv'
<1> SUFFICES ASSUME LogInv, [Next]_vars PROVE LogInv'
  OBVIOUS
<1>1. ASSUME NEW size \in Sizes, AddRecord(size) PROVE LogInv'
  BY <1>1, LogInvAddRecord
<1>2. ASSUME NEW size \in Sizes, AddRecordFails(size) PROVE LogInv'
  BY <1>2, LogInvAddRecordFails
<1>3. CASE UNCHANGED vars
  BY <1>3 DEF vars, LogInv, LogTyped
<1> QED
  BY <1>1, <1>2, <1>3 DEF Next

LEMMA LogInvAlways == Spec => []LogInv
BY LogInvInit, LogInvKept, PTL DEF Spec

(* The writer's offset in its block is where the file ends in its block,   *)
(* as long as nothing failed, and in the block in any case.                *)
THEOREM LogTypeCorrect == Spec => []TypeOK
<1>1. LogInv => TypeOK
  <2> SUFFICES ASSUME LogInv PROVE TypeOK
    OBVIOUS
  <2>1. /\ file \in File /\ blockOffset \in 0 .. BlockSize
        /\ calls \in 0 .. MaxRecords /\ Len(written) + Len(torn) = calls
    BY DEF LogInv, LogTyped
  <2>2. torn = <<>> => Aligned(blockOffset, Len(file))
    BY DEF LogInv
  <2>3. Len(file) \in Nat
    BY <2>1, LenProperties DEF File
  <2> QED
    BY <2>1, <2>2, <2>3, AlignedIsModulo DEF TypeOK
<1> QED
  BY <1>1, LogInvAlways, PTL

\* Where there is no more to read, the reader stays.
LEMMA ReadingStays ==
  ASSUME NEW g \in File, NEW j \in Nat, Physical(g, Reading(g, j).at) = Eof, NEW M \in Nat
  PROVE  \A k \in j .. M : Reading(g, k) = Reading(g, j)
<1> DEFINE P == {k \in Nat : j =< k => Reading(g, k) = Reading(g, j)}
<1>1. 0 \in P
  OBVIOUS
<1>2. ASSUME NEW k \in 1 .. M, k - 1 \in P
      PROVE  k \in P
  <2> DEFINE i == k - 1
  <2>1. i \in Nat /\ i + 1 = k /\ (j =< i => Reading(g, i) = Reading(g, j))
    BY <1>2
  <2> HIDE DEF i
  <2>2. Reading(g, i + 1) = Read(g, Reading(g, i))
    BY <2>1, ReadingUnfold
  <2>3. Read(g, Reading(g, j)) = Reading(g, j)
    BY DEF Read, Took, Eof
  <2>4. j =< k => Reading(g, k) = Reading(g, j)
    <3>1. CASE j =< i
      BY <2>1, <2>2, <2>3, <3>1
    <3>2. CASE ~ (j =< i)
      BY <2>1, <3>2
    <3> QED
      BY <3>1, <3>2
  <2> QED
    BY <2>4
<1> HIDE DEF P
<1>3. \A k \in 0 .. M : k \in P
  BY <1>1, <1>2, UpTo
<1> QED
  BY <1>3 DEF P

LEMMA CutsTell ==
  ASSUME NEW f \in File, NEW W \in Entries, NEW m, Told(f, m, W), NEW c \in 0 .. Len(f)
  PROVE  LET done == {i \in DOMAIN W : W[i].end <= c}
             n == IF done = {} THEN 0 ELSE CHOOSE i \in done : \A j \in done : j <= i
         IN  ReadAll(SubSeq(f, 1, c)) = [out |-> [i \in 1..n |-> W[i].data], alarms |-> 0]
<1> DEFINE g == SubSeq(f, 1, c)
           done == {i \in DOMAIN W : W[i].end <= c}
           n == IF done = {} THEN 0 ELSE CHOOSE i \in done : \A j \in done : j <= i
<1>1. f \in Seq(Byte) /\ Len(f) \in Nat /\ c \in Nat /\ m \in Nat /\ Reads(f, m)
      /\ Reading(f, m).at = Len(f)
  BY LenProperties DEF File, Told
<1>2. g \in File /\ Len(g) = c /\ \A i \in 1 .. c : g[i] = f[i]
  <2>1. 1 \in 1 .. (Len(f) + 1) /\ c \in 0 .. Len(f)
    BY <1>1
  <2>2. /\ g \in Seq(Byte) /\ Len(g) = IF 1 =< c THEN c - 1 + 1 ELSE 0
        /\ \A i \in 1 .. (c - 1 + 1) : g[i] = f[1 + i - 1]
    BY <1>1, <2>1, PrefixOf
  <2> HIDE DEF g
  <2>3. Len(g) = c
    BY <1>1, <2>2
  <2>4. \A i \in 1 .. c : g[i] = f[i]
    <3> SUFFICES ASSUME NEW i \in 1 .. c PROVE g[i] = f[i]
      OBVIOUS
    <3>1. i \in 1 .. (c - 1 + 1) /\ 1 + i - 1 = i
      BY <1>1
    <3> QED
      BY <2>2, <3>1
  <2> QED
    BY <2>2, <2>3, <2>4 DEF File
<1> HIDE DEF g
<1>3. \A k \in 0 .. m : Reading(f, k) \in State /\ k =< Reading(f, k).at /\ Reading(f, k).at \in Nat
  BY <1>1, ReadsType DEF State
<1> DEFINE Past == {k \in Nat : k =< m /\ c < Reading(f, k).at}
<1>4. \E k \in 0 .. m : /\ Reading(f, k).at =< c
                        /\ k # m => c < Reading(f, k + 1).at
  <2>1. CASE Past = {}
    <3>1. m \in Nat /\ m \notin Past
      BY <1>1, <2>1
    <3>2. Reading(f, m).at =< c
      BY <1>1, <3>1
    <3> QED
      BY <1>1, <3>2
  <2>2. CASE Past # {}
    <3>1. PICK i \in Past : \A j \in Past : i =< j
      <4>1. Past \in SUBSET Nat
        OBVIOUS
      <4> HIDE DEF Past
      <4> QED
        BY <2>2, <4>1, LeastNat
    <3>2. Reading(f, 0).at = 0
      <4>1. Reading(f, 0) = [at |-> 0, scratch |-> <<>>, out |-> <<>>, alarms |-> 0]
        BY ReadingUnfold
      <4> QED
        BY <4>1
    <3>3. i # 0
      BY <1>1, <3>1, <3>2
    <3>4. i - 1 \in 0 .. m /\ i - 1 \notin Past /\ i - 1 \in Nat /\ (i - 1) + 1 = i
      BY <1>1, <3>1, <3>3
    <3>5. Reading(f, i - 1).at =< c
      BY <1>1, <1>3, <3>4
    <3>6. c < Reading(f, (i - 1) + 1).at
      BY <3>1, <3>4
    <3> QED
      BY <3>4, <3>5, <3>6
  <2> QED
    BY <2>1, <2>2
<1>5. PICK K \in 0 .. m : Reading(f, K).at =< c /\ (K # m => c < Reading(f, K + 1).at)
  BY <1>4
<1> DEFINE r == Reading(f, K)
<1>6. r \in State /\ r.at \in Nat /\ K =< r.at /\ K \in Nat /\ K =< c
  BY <1>1, <1>3, <1>5
<1>7. Reads(f, K)
  BY <1>1 DEF Reads
<1>8. Reading(g, K) = r
  BY <1>1, <1>2, <1>5, <1>6, <1>7, ReadsAlike
<1>9. Physical(g, r.at) = Eof
  <2>1. CASE K = m
    <3>1. r.at = Len(g)
      BY <1>1, <1>2, <1>5, <2>1
    <3> QED
      BY <1>2, <3>1, PhysicalEnd
  <2>2. CASE K # m
    <3>1. PICK p : HasPiece(f, r.at, p)
      BY <1>1, <2>2 DEF Reads
    <3>2. Reading(f, K + 1).at = EndOf(r.at, p)
      BY <1>6, <3>1, ReadingPiece
    <3>3. c < EndOf(r.at, p)
      BY <1>5, <2>2, <3>2
    <3> QED
      BY <1>2, <1>5, <1>6, <3>1, <3>3, PhysicalCut
  <2> QED
    BY <2>1, <2>2
<1>10. Reading(g, c) = r
  <2>1. c \in K .. c
    BY <1>1, <1>6
  <2> QED
    BY <1>1, <1>2, <1>6, <1>8, <1>9, <2>1, ReadingStays
<1>11. ReadAll(g) = [out |-> r.out, alarms |-> r.alarms]
  BY <1>2, <1>10 DEF ReadAll
<1>12. /\ r.alarms = 0 /\ Len(r.out) =< Len(W)
       /\ \A i \in 1 .. Len(r.out) : r.out[i] = W[i].data
       /\ \A i \in 1 .. Len(W) : i =< Len(r.out) <=> W[i].end =< r.at
  BY DEF Told
<1>13. Len(W) \in Nat /\ DOMAIN W = 1 .. Len(W) /\ \A i \in 1 .. Len(W) : W[i].end \in Nat
  <2>1. Len(W) \in Nat /\ DOMAIN W = 1 .. Len(W)
    BY LenProperties DEF Entries
  <2>2. \A i \in 1 .. Len(W) : W[i] \in [data : Data, end : Nat]
    BY ElementOfSeq DEF Entries
  <2> QED
    BY <2>1, <2>2
<1>14. r.out \in Seq(Data) /\ Len(r.out) \in Nat
  BY <1>6, LenProperties DEF State
<1>15. \A i \in 1 .. Len(W) : W[i].end =< c <=> W[i].end =< r.at
  <2> SUFFICES ASSUME NEW i \in 1 .. Len(W), W[i].end =< c PROVE W[i].end =< r.at
    BY <1>1, <1>5, <1>6, <1>13
  <2>1. PICK k \in 0 .. m : W[i].end = Reading(f, k).at
    BY DEF Told
  <2>2. CASE k =< K
    BY <1>1, <1>5, <2>1, <2>2, ReadsMove
  <2>3. CASE ~ (k =< K)
    <3>1. K # m /\ K + 1 \in 0 .. m /\ K + 1 =< k
      BY <1>1, <1>6, <2>3
    <3>2. Reading(f, K + 1).at =< Reading(f, k).at
      BY <1>1, <3>1, ReadsMove
    <3>3. c < Reading(f, K + 1).at /\ Reading(f, K + 1).at \in Nat /\ Reading(f, k).at \in Nat
      BY <1>3, <1>5, <3>1
    <3> QED
      BY <1>1, <2>1, <3>2, <3>3
  <2> QED
    BY <1>6, <2>2, <2>3
<1> HIDE DEF r
<1>16. done = 1 .. Len(r.out)
  BY <1>12, <1>13, <1>14, <1>15
<1>17. n = Len(r.out)
  <2> DEFINE l == Len(r.out)
  <2>1. CASE l = 0
    <3>1. done = {}
      BY <1>16, <2>1
    <3> QED
      BY <2>1, <3>1
  <2>2. CASE l # 0
    <3>1. l \in done /\ done # {} /\ \A j \in done : j <= l
      BY <1>14, <1>16, <2>2
    <3> DEFINE i == CHOOSE i \in done : \A j \in done : j <= i
    <3>2. i \in done /\ \A j \in done : j <= i
      <4> HIDE DEF done
      <4> QED
        BY <3>1
    <3>3. i \in Nat /\ l \in Nat
      BY <1>14, <1>16, <3>2
    <3> HIDE DEF i, done, l
    <3>4. i = l
      BY <3>1, <3>2, <3>3
    <3>5. n = i
      BY <3>1 DEF i
    <3> QED
      BY <3>4, <3>5 DEF l
  <2> QED
    BY <2>1, <2>2
<1>18. r.out = [i \in 1 .. n |-> W[i].data]
  <2>1. r.out = [i \in 1 .. Len(r.out) |-> r.out[i]]
    BY <1>14
  <2> HIDE DEF n
  <2>2. r.out = [i \in 1 .. n |-> r.out[i]]
    BY <1>17, <2>1
  <2>3. \A i \in 1 .. n : r.out[i] = W[i].data
    BY <1>12, <1>17
  <2> QED
    BY <2>2, <2>3
<1> HIDE DEF n, done
<1> QED
  BY <1>11, <1>12, <1>18 DEF g, n, done

(* Wherever a crash cuts a log in which no append failed, reading it gives *)
(* the records that were complete, in their order, and reports no damage.  *)
THEOREM CutLogsReadBack == Spec => []CutsReadBack
<1>1. LogInv => CutsReadBack
  <2> SUFFICES ASSUME LogInv, torn = <<>>, NEW c \in 0 .. Len(file)
               PROVE  LET done == {i \in DOMAIN written : written[i].end <= c}
                          n == IF done = {} THEN 0 ELSE CHOOSE i \in done : \A j \in done : j <= i
                      IN  ReadAll(SubSeq(file, 1, c))
                              = [out |-> [i \in 1..n |-> written[i].data], alarms |-> 0]
    BY DEF CutsReadBack
  <2>1. PICK m : Told(file, m, written)
    BY DEF LogInv
  <2>2. file \in File /\ written \in Entries
    BY DEF LogInv, LogTyped
  <2> QED
    BY <2>1, <2>2, CutsTell
<1> QED
  BY <1>1, LogInvAlways, PTL

\* What a reader returns of such a file are records that were written, in their order.
LEMMA ForgesNothing ==
  ASSUME NEW f \in File, NEW W \in Entries, NEW E, LaidOut(f, E, W)
  PROVE  LET out == ReadAll(f).out
             whole == [i \in DOMAIN W |-> W[i].data]
         IN  \E at \in [DOMAIN out -> DOMAIN whole] :
                /\ \A i \in DOMAIN out : out[i] = whole[at[i]]
                /\ \A i, j \in DOMAIN out : i < j => at[i] < at[j]
<1> DEFINE r == Reading(f, Len(f))
           out == ReadAll(f).out
           whole == [i \in DOMAIN W |-> W[i].data]
<1>1. Len(f) \in Nat /\ DOMAIN W = 1 .. Len(W) /\ Len(f) \in 0 .. Len(f)
  BY LenProperties DEF File, Entries
<1>2. Gathered(E, r)
  BY <1>1, ReadingGathers
<1>3. out = r.out
  BY DEF ReadAll
<1> HIDE DEF r
<1>4. PICK js : EndedBy(E, js, r.out, r.at)
  BY <1>2 DEF Gathered
<1>5. DOMAIN r.out = 1 .. Len(r.out)
  BY <1>2, LenProperties DEF Gathered, State
<1> HIDE DEF out
<1> DEFINE n == Len(js)
           at == [i \in 1 .. n |-> E[js[i]].of]
<1>6. DOMAIN out = 1 .. n
  BY <1>3, <1>4, <1>5 DEF EndedBy
<1>7. n \in Nat
  BY <1>4, LenProperties DEF EndedBy
<1>8. DOMAIN whole = 1 .. Len(W) /\ \A i \in 1 .. Len(W) : whole[i] = W[i].data
  BY <1>1
<1> HIDE DEF whole
<1>9. ASSUME NEW i \in 1 .. n
      PROVE  E[js[i]].of \in DOMAIN whole /\ out[i] = whole[E[js[i]].of]
  <2>1. js[i] \in 1 .. Len(E) /\ EndsRecord(E[js[i]]) /\ out[i] = E[js[i]].body
    BY <1>3, <1>4 DEF EndedBy
  <2>2. E[js[i]].of \in 1 .. Len(W) /\ E[js[i]].body = W[E[js[i]].of].data
    BY <2>1 DEF LaidOut
  <2> QED
    BY <1>8, <2>1, <2>2
<1>10. ASSUME NEW i \in 1 .. n, NEW j \in 1 .. n, i < j
       PROVE  E[js[i]].of < E[js[j]].of
  <2>1. i \in 1 .. (j - 1)
    BY <1>7, <1>10
  <2>2. js[i] < js[j] /\ js[i] \in 1 .. Len(E) /\ js[j] \in 1 .. Len(E)
        /\ EndsRecord(E[js[i]]) /\ EndsRecord(E[js[j]])
    BY <1>4, <2>1 DEF EndedBy
  <2>3. Len(E) \in Nat
    BY LenProperties DEF LaidOut
  <2>4. js[i] \in 1 .. (js[j] - 1)
    BY <2>2, <2>3
  <2> QED
    BY <2>2, <2>4 DEF LaidOut
<1>11. at \in [DOMAIN out -> DOMAIN whole] /\ \A i \in 1 .. n : at[i] = E[js[i]].of
  BY <1>6, <1>9
<1> HIDE DEF at, n
<1>12. /\ \A i \in DOMAIN out : out[i] = whole[at[i]]
       /\ \A i, j \in DOMAIN out : i < j => at[i] < at[j]
  BY <1>6, <1>9, <1>10, <1>11
<1> QED
  BY <1>11, <1>12 DEF out, whole

\* The records that were saved come first.
LEMMA SavedFirst ==
  ASSUME NEW f \in File, NEW W \in Entries, NEW E, LaidOut(f, E, W), NEW n, Saved(f, n, W)
  PROVE  SubSeq(ReadAll(f).out, 1, n) = SubSeq([i \in DOMAIN W |-> W[i].data], 1, n)
<1> DEFINE r == Reading(f, Len(f))
           out == ReadAll(f).out
           whole == [i \in DOMAIN W |-> W[i].data]
<1>1. Len(f) \in Nat /\ Len(W) \in Nat /\ DOMAIN W = 1 .. Len(W) /\ Len(f) \in 0 .. Len(f)
  BY LenProperties DEF File, Entries
<1>2. n \in 0 .. Len(W)
  BY DEF Saved
<1>3. PICK m \in Nat : /\ Reads(f, m) /\ Reading(f, m).at =< Len(f) /\ Len(Reading(f, m).out) = n
                       /\ \A i \in 1 .. n : Reading(f, m).out[i] = W[i].data
  BY DEF Saved
<1>4. m \in 0 .. Len(f)
  <2>1. m =< Reading(f, m).at /\ Reading(f, m) \in State
    BY <1>3, ReadsType
  <2>2. Reading(f, m).at \in Nat
    BY <2>1 DEF State
  <2> QED
    BY <1>1, <1>3, <2>1, <2>2
<1>5. StartsWith(r.out, Reading(f, m).out)
  BY <1>1, <1>4, ReadingKeeps
<1>6. Gathered(E, r) /\ out = r.out
  BY <1>1, ReadingGathers DEF ReadAll
<1>7. out \in Seq(Data) /\ Len(out) \in Nat
  <2> HIDE DEF r, out
  <2> QED
    BY <1>6, LenProperties DEF Gathered, State
<1> HIDE DEF out
<1>8. n =< Len(out) /\ \A i \in 1 .. n : out[i] = W[i].data
  BY <1>3, <1>5, <1>6 DEF StartsWith
<1>9. whole \in Seq(Data) /\ Len(whole) = Len(W) /\ \A i \in 1 .. Len(W) : whole[i] = W[i].data
  <2>1. \A i \in 1 .. Len(W) : W[i].data \in Data
    <3>1. \A i \in 1 .. Len(W) : W[i] \in [data : Data, end : Nat]
      BY ElementOfSeq DEF Entries
    <3> QED
      BY <3>1
  <2>2. whole \in [1 .. Len(W) -> Data]
    BY <1>1, <2>1
  <2> HIDE DEF whole
  <2>3. whole \in Seq(Data) /\ Len(whole) = Len(W)
    BY <1>1, <2>2
  <2> QED
    BY <1>1, <2>3 DEF whole
<1> HIDE DEF whole
<1> DEFINE x == SubSeq(out, 1, n)
           y == SubSeq(whole, 1, n)
<1>10. ASSUME NEW s \in Seq(Data), n =< Len(s)
       PROVE  /\ SubSeq(s, 1, n) \in Seq(Data) /\ Len(SubSeq(s, 1, n)) = n
              /\ \A i \in 1 .. n : SubSeq(s, 1, n)[i] = s[i]
  <2> DEFINE z == SubSeq(s, 1, n)
  <2>1. Len(s) \in Nat
    BY LenProperties
  <2>2. 1 \in 1 .. (Len(s) + 1) /\ n \in 0 .. Len(s)
    BY <1>1, <1>2, <1>10, <2>1
  <2>3. /\ z \in Seq(Data) /\ Len(z) = IF 1 =< n THEN n - 1 + 1 ELSE 0
        /\ \A i \in 1 .. (n - 1 + 1) : z[i] = s[1 + i - 1]
    BY <2>2, PrefixOf
  <2> HIDE DEF z
  <2>4. Len(z) = n
    BY <1>1, <1>2, <2>3
  <2>5. \A i \in 1 .. n : z[i] = s[i]
    <3> SUFFICES ASSUME NEW i \in 1 .. n PROVE z[i] = s[i]
      OBVIOUS
    <3>1. i \in 1 .. (n - 1 + 1) /\ 1 + i - 1 = i
      BY <1>1, <1>2
    <3> QED
      BY <2>3, <3>1
  <2> QED
    BY <2>3, <2>4, <2>5 DEF z
<1>11. /\ x \in Seq(Data) /\ Len(x) = n /\ \A i \in 1 .. n : x[i] = out[i]
  BY <1>7, <1>8, <1>10
<1>12. n =< Len(whole) /\ n \in Nat
  BY <1>1, <1>2, <1>9
<1>13. /\ y \in Seq(Data) /\ Len(y) = n /\ \A i \in 1 .. n : y[i] = whole[i]
  BY <1>9, <1>10, <1>12
<1> HIDE DEF x, y
<1>14. \A i \in 1 .. n : x[i] = y[i]
  <2>1. \A i \in 1 .. n : i \in 1 .. Len(W)
    BY <1>1, <1>2
  <2> QED
    BY <1>8, <1>9, <1>11, <1>13, <2>1
<1>15. x = y
  BY <1>11, <1>12, <1>13, <1>14, SeqEqual
<1> QED
  BY <1>15 DEF x, y, out, whole

(* After appends that failed a log still gives every record from before    *)
(* the first of them, and nothing but records that were written, in their  *)
(* order: the reader never joins pieces of different records.              *)
THEOREM NothingIsForged == Spec => []NothingForged
<1>1. LogInv => NothingForged
  <2> SUFFICES ASSUME LogInv PROVE NothingForged
    OBVIOUS
  <2>1. file \in File /\ written \in Entries
    BY DEF LogInv, LogTyped
  <2>2. PICK E : LaidOut(file, E, written)
    BY DEF LogInv
  <2>3. torn # <<>> =>
          SubSeq(ReadAll(file).out, 1, torn[1])
            = SubSeq([i \in DOMAIN written |-> written[i].data], 1, torn[1])
    BY <2>1, <2>2, SavedFirst DEF LogInv
  <2>4. LET out == ReadAll(file).out
            whole == [i \in DOMAIN written |-> written[i].data]
        IN  \E at \in [DOMAIN out -> DOMAIN whole] :
               /\ \A i \in DOMAIN out : out[i] = whole[at[i]]
               /\ \A i, j \in DOMAIN out : i < j => at[i] < at[j]
    BY <2>1, <2>2, ForgesNothing
  <2> QED
    BY <2>3, <2>4 DEF NothingForged
<1> QED
  BY <1>1, LogInvAlways, PTL
=============================================================================
