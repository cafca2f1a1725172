------------------------- MODULE FirebaseSyncProofs -------------------------
(***************************************************************************)
(* Proofs about FirebaseSync: IInv is inductive, so a device with nothing  *)
(* under way shows the server's data (Converged), a device shows its own   *)
(* last unacknowledged write (ReadYourWrites) and no news is missed        *)
(* (NothingMissed), for any devices, leaves, values and bounds.            *)
(***************************************************************************)
EXTENDS FirebaseSync, ListsProofs

-----------------------------------------------------------------------------
(* Positions in sequences.                                                 *)

\* Of any two latest positions both are the same.
LEMMA LatestUnique ==
  ASSUME NEW S \in SUBSET Nat, NEW i \in Latest(S), NEW j \in Latest(S)
  PROVE  i = j
BY DEF Latest

\* A non-empty set of positions of a sequence has a latest one.
LEMMA LatestExists ==
  ASSUME NEW n \in Nat, NEW S \in SUBSET (1 .. n), S # {}
  PROVE  Latest(S) # {}
<1> DEFINE T == {k \in Nat : n - k \in S}
<1>1. PICK m \in T : \A k \in T : <<k, m>> \notin OpToRel(<, Nat)
  <2>1. PICK i \in S : i \in 1 .. n
    OBVIOUS
  <2>2. n - i \in T
    BY <2>1
  <2>3. T \subseteq Nat
    OBVIOUS
  <2> HIDE DEF T
  <2> QED
    BY <2>2, <2>3, NatLessThanWellFounded, WFMin
<1>2. \A k \in T : ~ (k < m)
  BY <1>1 DEF OpToRel
<1>3. \A j \in S : j =< n - m
  <2> SUFFICES ASSUME NEW j \in S
               PROVE  j =< n - m
    OBVIOUS
  <2>1. n - j \in T
    OBVIOUS
  <2>2. ~ (n - j < m)
    BY <1>2, <2>1
  <2> QED
    BY <2>2
<1>4. n - m \in S
  OBVIOUS
<1> QED
  BY <1>3, <1>4 DEF Latest

\* The positions at which a sequence has an element of G.
At(s, G) == {i \in DOMAIN s : s[i] \in G}

\* ... when the sequence grows by one,
LEMMA AtAppend ==
  ASSUME NEW A, NEW s \in Seq(A), NEW x \in A, NEW G
  PROVE  /\ x \in G => Latest(At(Append(s, x), G)) = {Len(s) + 1}
         /\ x \notin G => At(Append(s, x), G) = At(s, G)
         /\ Append(s, x)[Len(s) + 1] = x
         /\ \A i \in DOMAIN s : Append(s, x)[i] = s[i]
<1>1. /\ DOMAIN Append(s, x) = 1 .. (Len(s) + 1)
      /\ DOMAIN s = 1 .. Len(s)
      /\ \A i \in 1 .. Len(s) : Append(s, x)[i] = s[i]
      /\ Append(s, x)[Len(s) + 1] = x
      /\ Len(s) \in Nat
  OBVIOUS
<1> QED
  BY <1>1 DEF At, Latest

\* ... and when its first element goes.
LEMMA AtTail ==
  ASSUME NEW A, NEW s \in Seq(A), s # <<>>, NEW G
  PROVE  /\ Head(s) = s[1] /\ s[1] \in A /\ 1 \in DOMAIN s
         /\ \A i \in At(s, G) : i # 1 => i - 1 \in At(Tail(s), G)
         /\ \A i \in Latest(At(Tail(s), G)) :
              i + 1 \in Latest(At(s, G)) /\ Tail(s)[i] = s[i + 1]
<1>1. /\ DOMAIN Tail(s) = 1 .. (Len(s) - 1)
      /\ DOMAIN s = 1 .. Len(s)
      /\ Len(s) \in Nat \ {0}
      /\ \A i \in 1 .. (Len(s) - 1) : Tail(s)[i] = s[i + 1]
      /\ Head(s) = s[1] /\ s[1] \in A
  OBVIOUS
<1>2. \A i \in At(Tail(s), G) : i + 1 \in At(s, G)
  BY <1>1 DEF At
<1>3. \A i \in At(s, G) : i # 1 => i - 1 \in At(Tail(s), G)
  BY <1>1 DEF At
<1>4. ASSUME NEW i \in Latest(At(Tail(s), G))
      PROVE  i + 1 \in Latest(At(s, G)) /\ Tail(s)[i] = s[i + 1]
  <2>1. i \in 1 .. (Len(s) - 1) /\ i \in At(Tail(s), G)
    BY <1>1 DEF Latest, At
  <2>2. ASSUME NEW j \in At(s, G)
        PROVE  j =< i + 1
    <3>1. j \in Nat \ {0}
      BY <1>1 DEF At
    <3>2. j # 1 => j - 1 =< i
      BY <1>3 DEF Latest
    <3> QED
      BY <2>1, <3>1, <3>2
  <2> QED
    BY <1>1, <1>2, <2>1, <2>2 DEF Latest
<1>5. 1 \in DOMAIN s
  BY <1>1
<1> QED
  BY <1>1, <1>3, <1>4, <1>5

-----------------------------------------------------------------------------
(* Writes, messages and mirrored data.                                     *)

WritesTo(l) == {w \in Write : l \in DOMAIN w}
NewsOf(l) == {m \in Message : l \in DOMAIN m.put}
EchoesOf(c, l) == {m \in NewsOf(l) : m.from = c}

\* The positions the invariant speaks of are those of writes and messages.
LEMMA TouchingAt ==
  ASSUME NEW ws \in Seq(Write), NEW l
  PROVE  Touching(ws, l) = At(ws, WritesTo(l))
<1>1. \A i \in DOMAIN ws : ws[i] \in Write
  OBVIOUS
<1> QED
  BY <1>1 DEF Touching, At, WritesTo

LEMMA ComingAt ==
  ASSUME NEW c, NEW l, inbox[c] \in Seq(Message)
  PROVE  /\ Coming(c, l) = At(inbox[c], NewsOf(l))
         /\ Echo(c, l) = At(inbox[c], EchoesOf(c, l))
<1>1. \A i \in DOMAIN inbox[c] : inbox[c][i] \in Message
  OBVIOUS
<1> QED
  BY <1>1 DEF Coming, Echo, At, NewsOf, EchoesOf

LEMMA WriteType ==
  ASSUME NEW w \in Write
  PROVE  DOMAIN w \subseteq Leaf /\ \A l \in DOMAIN w : w[l] \in Value
BY DEF Write

LEMMA OverlayType ==
  ASSUME NEW w \in Write, NEW data \in [Leaf -> Value]
  PROVE  Overlay(w, data) \in [Leaf -> Value]
BY WriteType DEF Overlay

LEMMA MirrorType ==
  ASSUME NEW c, NEW data \in [Leaf -> Value]
  PROVE  Mirror(c, data) \in [Leaf -> Value]
BY BlankAssumption DEF Mirror

\* Replaying writes shows, leaf by leaf, the last one that touches it.
LEMMA ReplayLast ==
  ASSUME NEW ws \in Seq(Write), NEW data \in [Leaf -> Value], NEW l \in Leaf
  PROVE  /\ Touching(ws, l) = {} => Replay(ws, data)[l] = data[l]
         /\ \A i \in Latest(Touching(ws, l)) : Replay(ws, data)[l] = ws[i][l]
<1>1. Touching(ws, l) = {} => Replay(ws, data)[l] = data[l]
  BY DEF Replay
<1>2. ASSUME NEW i \in Latest(Touching(ws, l))
      PROVE  Replay(ws, data)[l] = ws[i][l]
  <2>1. Touching(ws, l) \in SUBSET Nat /\ Touching(ws, l) # {}
    BY DEF Touching, Latest
  <2>2. (CHOOSE j \in Latest(Touching(ws, l)) : TRUE) = i
    BY <2>1, LatestUnique
  <2> QED
    BY <2>1, <2>2 DEF Replay
<1> QED
  BY <1>1, <1>2

LEMMA ReplayType ==
  ASSUME NEW ws \in Seq(Write), NEW data \in [Leaf -> Value]
  PROVE  Replay(ws, data) \in [Leaf -> Value]
<1>1. ASSUME NEW l \in Leaf
      PROVE  Replay(ws, data)[l] \in Value
  <2>1. CASE Touching(ws, l) = {}
    BY <2>1, ReplayLast
  <2>2. CASE Touching(ws, l) # {}
    <3>1. Touching(ws, l) \subseteq 1 .. Len(ws) /\ Len(ws) \in Nat
      BY DEF Touching
    <3>2. PICK i \in Latest(Touching(ws, l)) : TRUE
      BY <2>2, <3>1, LatestExists
    <3>3. ws[i] \in Write /\ l \in DOMAIN ws[i]
      BY <3>2 DEF Latest, Touching
    <3> QED
      BY <3>2, <3>3, ReplayLast, WriteType
  <2> QED
    BY <2>1, <2>2
<1> QED
  BY <1>1 DEF Replay

-----------------------------------------------------------------------------
(* Each action preserves the invariant.                                    *)

LEMMA InitHolds == Init => IInv
<1> SUFFICES ASSUME Init
             PROVE  IInv
  OBVIOUS
<1>1. TypeOK
  BY BlankAssumption DEF Init, TypeOK
<1>2. \A c \in Client : \A l : Unsent(c, l) = {} /\ Coming(c, l) = {} /\ Echo(c, l) = {}
  BY DEF Init, Unsent, Touching, Coming, Echo
<1>3. ReadYourWrites /\ NothingMissed
  BY <1>2 DEF ReadYourWrites, NothingMissed, Latest
<1>4. LeafUpToDate /\ Unobserved
  BY ListensAssumption DEF Init, LeafUpToDate, Unobserved
<1> QED
  BY <1>1, <1>3, <1>4 DEF IInv

\* A write of c shows at once; other devices and other leaves are as before.
LEMMA LocalWriteKeeps ==
  ASSUME IInv, NEW c \in Client, NEW w \in Write, LocalWrite(c, w)
  PROVE  IInv'
<1> USE DEF IInv
<1>1. TypeOK'
  <2>1. Mirror(c, Overlay(w, view[c])) \in [Leaf -> Value]
    BY OverlayType, MirrorType DEF TypeOK
  <2>2. Append(pending[c], w) \in Seq(Write)
    BY DEF TypeOK
  <2> QED
    BY <2>1, <2>2 DEF TypeOK, LocalWrite
<1>2. ASSUME NEW d \in Client, NEW l \in Listens[d]
      PROVE  /\ Coming(d, l)' = Coming(d, l) /\ Echo(d, l)' = Echo(d, l)
             /\ inbox'[d] = inbox[d]
  BY DEF LocalWrite, Coming, Echo
<1>3. ASSUME NEW d \in Client, NEW l \in Listens[d], d # c \/ l \notin DOMAIN w
      PROVE  /\ Unsent(d, l)' = Unsent(d, l)
             /\ \A i \in Unsent(d, l) : pending'[d][i] = pending[d][i]
             /\ view'[d][l] = view[d][l]
  <2>1. CASE d # c
    BY <2>1 DEF LocalWrite, Unsent, TypeOK
  <2>2. CASE d = c
    <3>1. l \notin DOMAIN w /\ l \in Leaf
      BY <1>3, <2>2, ListensAssumption
    <3>2. pending[c] \in Seq(Write) /\ pending'[c] = Append(pending[c], w)
      BY DEF LocalWrite, TypeOK
    <3>3. Touching(Append(pending[c], w), l) = Touching(pending[c], l)
      <4>1. Append(pending[c], w) \in Seq(Write) /\ w \notin WritesTo(l)
        BY <3>1, <3>2 DEF WritesTo
      <4>2. At(Append(pending[c], w), WritesTo(l)) = At(pending[c], WritesTo(l))
        BY <3>2, <4>1, AtAppend
      <4> QED
        BY <3>2, <4>1, <4>2, TouchingAt
    <3>4. \A i \in DOMAIN pending[c] : pending'[c][i] = pending[c][i]
      BY <3>2, AtAppend
    <3>5. view'[c][l] = view[c][l]
      BY <3>1, <2>2 DEF LocalWrite, TypeOK, Mirror, Overlay
    <3> QED
      BY <2>2, <3>2, <3>3, <3>4, <3>5 DEF Unsent, Touching
  <2> QED
    BY <2>1, <2>2
<1>4. ASSUME NEW l \in Listens[c], l \in DOMAIN w
      PROVE  /\ Latest(Unsent(c, l))' = {Len(pending[c]) + 1}
             /\ pending'[c][Len(pending[c]) + 1] = w
             /\ view'[c][l] = w[l]
             /\ Unsent(c, l)' # {}
  <2>1. /\ pending[c] \in Seq(Write) /\ pending'[c] = Append(pending[c], w)
        /\ pending'[c] \in Seq(Write)
    BY DEF LocalWrite, TypeOK
  <2>2. w \in WritesTo(l)
    BY <1>4 DEF WritesTo
  <2>3. Unsent(c, l)' = At(Append(pending[c], w), WritesTo(l))
    BY <2>1, TouchingAt DEF Unsent
  <2>4. Latest(Unsent(c, l)') = {Len(pending[c]) + 1}
    BY <2>1, <2>2, <2>3, AtAppend
  <2>5. pending'[c][Len(pending[c]) + 1] = w
    BY <2>1, AtAppend
  <2>6. view'[c][l] = w[l]
    BY <1>4, ListensAssumption, WriteType DEF LocalWrite, TypeOK, Mirror, Overlay
  <2> QED
    BY <2>4, <2>5, <2>6 DEF Latest
<1>5. ReadYourWrites'
  <2> SUFFICES ASSUME NEW d \in Client, NEW l \in Listens[d]
               PROVE  /\ \A i \in Latest(Unsent(d, l))' : view'[d][l] = pending'[d][i][l]
                      /\ Unsent(d, l)' = {} =>
                           \A i \in Latest(Echo(d, l))' : view'[d][l] = inbox'[d][i].put[l]
    BY DEF ReadYourWrites
  <2>1. CASE d = c /\ l \in DOMAIN w
    BY <2>1, <1>4
  <2>2. CASE d # c \/ l \notin DOMAIN w
    BY <2>2, <1>2, <1>3 DEF ReadYourWrites, Latest
  <2> QED
    BY <2>1, <2>2
<1>6. NothingMissed'
  BY <1>2 DEF NothingMissed, Latest, LocalWrite
<1>7. LeafUpToDate'
  BY <1>2, <1>3, <1>4 DEF LeafUpToDate, LocalWrite
<1>8. Unobserved'
  BY DEF Unobserved, LocalWrite, TypeOK, Mirror
<1> QED
  BY <1>1, <1>5, <1>6, <1>7, <1>8

\* The server takes the next write of c: the newest news of every leaf it touches
\* is what it now holds, and the echo to c repeats what c already shows.
LEMMA CommitKeeps ==
  ASSUME IInv, NEW c \in Client, Commit(c)
  PROVE  IInv'
<1> USE DEF IInv
<1> DEFINE w == pending[c][1]
           m == [from |-> c, put |-> w]
<1>1. /\ pending[c] \in Seq(Write) /\ pending[c] # <<>>
      /\ Head(pending[c]) = w /\ w \in Write /\ m \in Message
      /\ pending'[c] = Tail(pending[c]) /\ Tail(pending[c]) \in Seq(Write)
      /\ \A d \in Client \ {c} : pending'[d] = pending[d]
      /\ server' = Overlay(w, server)
      /\ view' = view
  BY DEF Commit, TypeOK, Message
<1>2. ASSUME NEW d \in Client
      PROVE  /\ inbox[d] \in Seq(Message) /\ inbox'[d] \in Seq(Message)
             /\ \/ inbox'[d] = Append(inbox[d], m)
                \/ /\ d # c /\ inbox'[d] = inbox[d]
                   /\ \A l \in Listens[d] : l \notin DOMAIN w
  BY <1>1 DEF Commit, TypeOK, Seen
<1> HIDE DEF w, m
<1>3. m.from = c /\ m.put = w
  BY DEF m
<1>4. TypeOK'
  <2>1. server' \in [Leaf -> Value]
    BY <1>1, OverlayType DEF TypeOK
  <2>2. inbox' \in [Client -> Seq(Message)]
    BY <1>2 DEF Commit
  <2>3. pending' \in [Client -> Seq(Write)]
    BY <1>1 DEF Commit, TypeOK
  <2>4. unheard' \in [Client -> Seq(Write)]
    BY <1>1 DEF Commit, TypeOK
  <2> QED
    BY <2>1, <2>2, <2>3, <2>4 DEF Commit, TypeOK
\* A leaf the write touches: its news is the last that comes, and to c its echo.
<1>5. ASSUME NEW d \in Client, NEW l \in Listens[d], l \in DOMAIN w
      PROVE  /\ Latest(Coming(d, l))' = {Len(inbox[d]) + 1}
             /\ d = c => Latest(Echo(d, l))' = {Len(inbox[d]) + 1}
             /\ d # c => Echo(d, l)' = Echo(d, l)
             /\ \A i \in DOMAIN inbox[d] : inbox'[d][i] = inbox[d][i]
             /\ inbox'[d][Len(inbox[d]) + 1].put = w
             /\ server'[l] = w[l]
  <2>1. inbox'[d] = Append(inbox[d], m) /\ m \in Message /\ inbox[d] \in Seq(Message)
    BY <1>1, <1>2, <1>5
  <2>2. /\ Coming(d, l)' = At(Append(inbox[d], m), NewsOf(l))
        /\ Echo(d, l)' = At(Append(inbox[d], m), EchoesOf(d, l))
        /\ Echo(d, l) = At(inbox[d], EchoesOf(d, l))
    BY <1>2, <2>1, ComingAt DEF Coming, Echo, At, NewsOf, EchoesOf
  <2>3. m \in NewsOf(l) /\ (m \in EchoesOf(d, l) <=> d = c)
    BY <1>3, <1>5, <2>1 DEF NewsOf, EchoesOf
  <2>4. Latest(Coming(d, l)') = {Len(inbox[d]) + 1}
    BY <2>1, <2>2, <2>3, AtAppend
  <2>5. /\ d = c => Latest(Echo(d, l)') = {Len(inbox[d]) + 1}
        /\ d # c => Echo(d, l)' = Echo(d, l)
    BY <2>1, <2>2, <2>3, AtAppend
  <2>6. /\ \A i \in DOMAIN inbox[d] : inbox'[d][i] = inbox[d][i]
        /\ inbox'[d][Len(inbox[d]) + 1].put = w
    BY <1>3, <2>1, AtAppend
  <2>7. server'[l] = w[l]
    BY <1>1, <1>5, WriteType DEF Overlay
  <2> QED
    BY <2>4, <2>5, <2>6, <2>7 DEF Latest
\* A leaf it does not touch: nothing changes.
<1>6. ASSUME NEW d \in Client, NEW l \in Listens[d], l \notin DOMAIN w
      PROVE  /\ Coming(d, l)' = Coming(d, l)
             /\ Echo(d, l)' = Echo(d, l)
             /\ \A i \in DOMAIN inbox[d] : inbox'[d][i] = inbox[d][i]
             /\ server'[l] = server[l]
  <2>1. server'[l] = server[l]
    BY <1>1, <1>6, ListensAssumption DEF Overlay
  <2>2. CASE inbox'[d] = inbox[d]
    BY <2>1, <2>2 DEF Coming, Echo
  <2>3. CASE inbox'[d] = Append(inbox[d], m)
    <3>1. /\ Coming(d, l) = At(inbox[d], NewsOf(l))
          /\ Echo(d, l) = At(inbox[d], EchoesOf(d, l))
          /\ Coming(d, l)' = At(Append(inbox[d], m), NewsOf(l))
          /\ Echo(d, l)' = At(Append(inbox[d], m), EchoesOf(d, l))
      BY <1>2, <2>3, ComingAt DEF Coming, Echo, At, NewsOf, EchoesOf
    <3>2. m \notin NewsOf(l) /\ m \notin EchoesOf(d, l)
      BY <1>3, <1>6 DEF NewsOf, EchoesOf
    <3>3. Coming(d, l)' = Coming(d, l) /\ Echo(d, l)' = Echo(d, l)
      BY <1>1, <1>2, <3>1, <3>2, AtAppend
    <3>4. \A i \in DOMAIN inbox[d] : inbox'[d][i] = inbox[d][i]
      BY <1>1, <1>2, <2>3, AtAppend
    <3> QED
      BY <2>1, <3>3, <3>4
  <2> QED
    BY <1>2, <2>2, <2>3
\* What c has not sent moves up by one.
<1>7. ASSUME NEW l
      PROVE  /\ \A i \in Latest(Unsent(c, l))' :
                  i + 1 \in Latest(Unsent(c, l)) /\ pending'[c][i] = pending[c][i + 1]
             /\ Unsent(c, l)' = {} => Unsent(c, l) \subseteq {1}
             /\ l \in DOMAIN w => 1 \in Unsent(c, l)
             /\ l \notin DOMAIN w => 1 \notin Unsent(c, l)
  <2>1. /\ Unsent(c, l) = At(pending[c], WritesTo(l))
        /\ Unsent(c, l)' = At(Tail(pending[c]), WritesTo(l))
    BY <1>1, TouchingAt DEF Unsent
  <2>2. /\ \A i \in At(pending[c], WritesTo(l)) :
               i # 1 => i - 1 \in At(Tail(pending[c]), WritesTo(l))
        /\ \A i \in Latest(At(Tail(pending[c]), WritesTo(l))) :
              /\ i + 1 \in Latest(At(pending[c], WritesTo(l)))
              /\ Tail(pending[c])[i] = pending[c][i + 1]
        /\ 1 \in DOMAIN pending[c]
    BY <1>1, AtTail
  <2>3. Unsent(c, l)' = {} => Unsent(c, l) \subseteq {1}
    BY <2>1, <2>2
  <2>4. \A i \in Latest(Unsent(c, l)') :
           i + 1 \in Latest(Unsent(c, l)) /\ pending'[c][i] = pending[c][i + 1]
    BY <1>1, <2>1, <2>2
  <2>5. 1 \in Unsent(c, l) <=> l \in DOMAIN w
    BY <2>2 DEF Unsent, Touching, w
  <2> QED
    BY <2>3, <2>4, <2>5 DEF Latest
<1>8. ASSUME NEW d \in Client, d # c, NEW l
      PROVE  Unsent(d, l)' = Unsent(d, l) /\ pending'[d] = pending[d]
  BY <1>1, <1>8 DEF Unsent
<1>9. ReadYourWrites'
  <2> SUFFICES ASSUME NEW d \in Client, NEW l \in Listens[d]
               PROVE  /\ \A i \in Latest(Unsent(d, l))' : view'[d][l] = pending'[d][i][l]
                      /\ Unsent(d, l)' = {} =>
                           \A i \in Latest(Echo(d, l))' : view'[d][l] = inbox'[d][i].put[l]
    BY DEF ReadYourWrites
  <2>1. ASSUME NEW i \in Latest(Unsent(d, l))'
        PROVE  view'[d][l] = pending'[d][i][l]
    <3>1. CASE d = c
      <4>1. i + 1 \in Latest(Unsent(c, l)) /\ pending'[c][i] = pending[c][i + 1]
        BY <1>7, <2>1, <3>1
      <4>2. view[c][l] = pending[c][i + 1][l]
        BY <3>1, <4>1 DEF ReadYourWrites
      <4> QED
        BY <1>1, <3>1, <4>1, <4>2
    <3>2. CASE d # c
      <4>1. Latest(Unsent(d, l))' = Latest(Unsent(d, l)) /\ pending'[d] = pending[d]
        BY <1>8, <3>2 DEF Latest
      <4> QED
        BY <1>1, <2>1, <4>1 DEF ReadYourWrites
    <3> QED
      BY <3>1, <3>2
  <2>2. ASSUME Unsent(d, l)' = {}, NEW i \in Latest(Echo(d, l))'
        PROVE  view'[d][l] = inbox'[d][i].put[l]
    <3>1. CASE d = c /\ l \in DOMAIN w
      <4>1. Unsent(c, l) = {1}
        BY <1>7, <2>2, <3>1
      <4>2. 1 \in Latest(Unsent(c, l))
        BY <4>1 DEF Latest
      <4>3. view[c][l] = w[l]
        BY <3>1, <4>2 DEF ReadYourWrites, w
      <4> QED
        BY <1>1, <1>5, <2>2, <3>1, <4>3
    <3>2. CASE d = c /\ l \notin DOMAIN w
      <4>1. Unsent(c, l) = {}
        BY <1>7, <2>2, <3>2
      <4> QED
        BY <1>1, <1>6, <2>2, <3>2, <4>1 DEF ReadYourWrites, Latest, Echo, Coming
    <3>3. CASE d # c
      <4>1. /\ Echo(d, l)' = Echo(d, l)
            /\ \A j \in Echo(d, l) : inbox'[d][j] = inbox[d][j]
        BY <1>5, <1>6, <3>3 DEF Echo, Coming
      <4> QED
        BY <1>1, <1>8, <2>2, <3>3, <4>1 DEF ReadYourWrites, Latest
    <3> QED
      BY <3>1, <3>2, <3>3
  <2> QED
    BY <2>1, <2>2
<1>10. NothingMissed'
  <2> SUFFICES ASSUME NEW d \in Client, NEW l \in Listens[d],
                      NEW i \in Latest(Coming(d, l))'
               PROVE  server'[l] = inbox'[d][i].put[l]
    BY DEF NothingMissed
  <2>1. CASE l \in DOMAIN w
    BY <1>5, <2>1
  <2>2. CASE l \notin DOMAIN w
    BY <1>6, <2>2 DEF NothingMissed, Latest, Coming
  <2> QED
    BY <2>1, <2>2
<1>11. LeafUpToDate'
  <2> SUFFICES ASSUME NEW d \in Client, NEW l \in Listens[d],
                      Unsent(d, l)' = {}, Coming(d, l)' = {}
               PROVE  view'[d][l] = server'[l]
    BY DEF LeafUpToDate
  <2>1. l \notin DOMAIN w
    BY <1>5 DEF Latest
  <2>2. Unsent(d, l) = {}
    BY <1>7, <1>8, <2>1
  <2> QED
    BY <1>1, <1>6, <2>1, <2>2 DEF LeafUpToDate
<1>12. Unobserved'
  BY <1>1 DEF Unobserved
<1> QED
  BY <1>4, <1>9, <1>10, <1>11, <1>12

\* Client c receives its next message: news shows unless an unacknowledged write of
\* c's own hides it, and the last acknowledgement leaves the server's value shown.
LEMMA DeliverKeeps ==
  ASSUME IInv, NEW c \in Client, Deliver(c)
  PROVE  IInv'
<1> USE DEF IInv
<1> DEFINE m == inbox[c][1]
<1>1. /\ inbox[c] \in Seq(Message) /\ inbox[c] # <<>>
      /\ Head(inbox[c]) = m /\ m \in Message
      /\ inbox'[c] = Tail(inbox[c]) /\ Tail(inbox[c]) \in Seq(Message)
      /\ \A d \in Client \ {c} : inbox'[d] = inbox[d] /\ view'[d] = view[d]
      /\ server' = server /\ pending' = pending
  BY DEF Deliver, TypeOK
<1>2. ASSUME NEW l \in Leaf
      PROVE  view'[c][l] = IF m.from # c /\ l \in Seen(c, m.put) /\ ~Shadowed(c, l)
                           THEN m.put[l] ELSE view[c][l]
  BY <1>1 DEF Deliver, TypeOK
<1>3. TypeOK'
  <2>1. m.put \in Write
    BY <1>1 DEF Message
  <2>2. \A l \in Seen(c, m.put) : m.put[l] \in Value
    BY <2>1, WriteType DEF Seen
  <2>3. view' \in [Client -> [Leaf -> Value]]
    BY <2>2 DEF Deliver, TypeOK, m
  <2>4. unheard' \in [Client -> Seq(Write)]
    <3>1. SubSeq(unheard[c], 2, Len(unheard[c])) \in Seq(Write)
      BY DEF TypeOK
    <3> QED
      BY <3>1 DEF Deliver, TypeOK
  <2>5. inbox' \in [Client -> Seq(Message)]
    BY <1>1 DEF Deliver, TypeOK
  <2> QED
    BY <2>3, <2>4, <2>5 DEF Deliver, TypeOK
<1> HIDE DEF m
\* What is to come moves up by one.
<1>4. ASSUME NEW l
      PROVE  /\ \A i \in Latest(Coming(c, l))' :
                  i + 1 \in Latest(Coming(c, l)) /\ inbox'[c][i] = inbox[c][i + 1]
             /\ \A i \in Latest(Echo(c, l))' :
                  i + 1 \in Latest(Echo(c, l)) /\ inbox'[c][i] = inbox[c][i + 1]
             /\ Coming(c, l)' = {} => Coming(c, l) \subseteq {1}
             /\ l \in DOMAIN m.put <=> 1 \in Coming(c, l)
             /\ 1 \in Echo(c, l) <=> (1 \in Coming(c, l) /\ m.from = c)
  <2>1. /\ Coming(c, l) = At(inbox[c], NewsOf(l))
        /\ Echo(c, l) = At(inbox[c], EchoesOf(c, l))
        /\ Coming(c, l)' = At(Tail(inbox[c]), NewsOf(l))
        /\ Echo(c, l)' = At(Tail(inbox[c]), EchoesOf(c, l))
    BY <1>1, ComingAt DEF Coming, Echo, At, NewsOf, EchoesOf
  <2>2. /\ \A i \in Latest(Coming(c, l)') :
              i + 1 \in Latest(Coming(c, l)) /\ inbox'[c][i] = inbox[c][i + 1]
        /\ \A i \in Coming(c, l) : i # 1 => i - 1 \in Coming(c, l)'
    <3>1. /\ \A i \in At(inbox[c], NewsOf(l)) :
                i # 1 => i - 1 \in At(Tail(inbox[c]), NewsOf(l))
          /\ \A i \in Latest(At(Tail(inbox[c]), NewsOf(l))) :
                /\ i + 1 \in Latest(At(inbox[c], NewsOf(l)))
                /\ Tail(inbox[c])[i] = inbox[c][i + 1]
      BY <1>1, AtTail
    <3> QED
      BY <1>1, <2>1, <3>1
  <2>3. \A i \in Latest(Echo(c, l)') :
           i + 1 \in Latest(Echo(c, l)) /\ inbox'[c][i] = inbox[c][i + 1]
    <3>1. \A i \in Latest(At(Tail(inbox[c]), EchoesOf(c, l))) :
             /\ i + 1 \in Latest(At(inbox[c], EchoesOf(c, l)))
             /\ Tail(inbox[c])[i] = inbox[c][i + 1]
      BY <1>1, AtTail
    <3> QED
      BY <1>1, <2>1, <3>1
  <2>4. 1 \in DOMAIN inbox[c]
    BY <1>1, AtTail
  <2> QED
    BY <2>2, <2>3, <2>4 DEF Latest, Coming, Echo, m
\* A hidden leaf, or one the message does not touch, keeps what it shows.
<1>5. ASSUME NEW l \in Listens[c],
             Unsent(c, l) # {} \/ Echo(c, l) # {} \/ l \notin DOMAIN m.put
      PROVE  view'[c][l] = view[c][l]
  BY <1>2, <1>5, ListensAssumption DEF Shadowed, Seen
<1>6. \A d \in Client : \A l : Unsent(d, l)' = Unsent(d, l)
  BY <1>1 DEF Unsent
<1>7. ASSUME NEW d \in Client, d # c, NEW l
      PROVE  Coming(d, l)' = Coming(d, l) /\ Echo(d, l)' = Echo(d, l)
  BY <1>1, <1>7 DEF Coming, Echo
<1>8. ReadYourWrites'
  <2> SUFFICES ASSUME NEW d \in Client, NEW l \in Listens[d]
               PROVE  /\ \A i \in Latest(Unsent(d, l))' : view'[d][l] = pending'[d][i][l]
                      /\ Unsent(d, l)' = {} =>
                           \A i \in Latest(Echo(d, l))' : view'[d][l] = inbox'[d][i].put[l]
    BY DEF ReadYourWrites
  <2>1. CASE d # c
    BY <1>1, <1>6, <1>7, <2>1 DEF ReadYourWrites, Latest
  <2>2. CASE d = c
    <3>1. ASSUME NEW i \in Latest(Unsent(c, l))'
          PROVE  view'[c][l] = pending'[c][i][l]
      <4>1. i \in Latest(Unsent(c, l)) /\ Unsent(c, l) # {}
        BY <1>6, <3>1 DEF Latest
      <4> QED
        BY <1>1, <1>5, <2>2, <4>1 DEF ReadYourWrites
    <3>2. ASSUME Unsent(c, l)' = {}, NEW i \in Latest(Echo(c, l))'
          PROVE  view'[c][l] = inbox'[c][i].put[l]
      <4>1. i + 1 \in Latest(Echo(c, l)) /\ inbox'[c][i] = inbox[c][i + 1]
        BY <1>4, <3>2
      <4>2. Echo(c, l) # {} /\ Unsent(c, l) = {}
        BY <1>6, <3>2, <4>1 DEF Latest
      <4> QED
        BY <1>5, <2>2, <4>1, <4>2 DEF ReadYourWrites
    <3> QED
      BY <2>2, <3>1, <3>2
  <2> QED
    BY <2>1, <2>2
<1>9. NothingMissed'
  <2> SUFFICES ASSUME NEW d \in Client, NEW l \in Listens[d],
                      NEW i \in Latest(Coming(d, l))'
               PROVE  server'[l] = inbox'[d][i].put[l]
    BY DEF NothingMissed
  <2>1. CASE d # c
    BY <1>1, <1>7, <2>1 DEF NothingMissed, Latest
  <2>2. CASE d = c
    <3>1. i + 1 \in Latest(Coming(c, l)) /\ inbox'[c][i] = inbox[c][i + 1]
      BY <1>4, <2>2
    <3> QED
      BY <1>1, <2>2, <3>1 DEF NothingMissed
  <2> QED
    BY <2>1, <2>2
<1>10. LeafUpToDate'
  <2> SUFFICES ASSUME NEW d \in Client, NEW l \in Listens[d],
                      Unsent(d, l)' = {}, Coming(d, l)' = {}
               PROVE  view'[d][l] = server'[l]
    BY DEF LeafUpToDate
  <2>1. Unsent(d, l) = {}
    BY <1>6
  <2>2. CASE d # c
    BY <1>1, <1>7, <2>1, <2>2 DEF LeafUpToDate
  <2>3. CASE d = c /\ Coming(c, l) = {}
    <3>1. l \notin DOMAIN m.put
      BY <1>4, <2>3
    <3> QED
      BY <1>1, <1>5, <2>1, <2>3, <3>1 DEF LeafUpToDate
  \* The message is the last that touches l: the server holds what it carries.
  <2>4. CASE d = c /\ Coming(c, l) # {}
    <3>1. Coming(c, l) = {1}
      BY <1>4, <2>4
    <3>2. 1 \in Latest(Coming(c, l)) /\ l \in DOMAIN m.put
      BY <1>4, <3>1 DEF Latest
    <3>3. server[l] = m.put[l]
      BY <2>4, <3>2 DEF NothingMissed, m
    <3>4. CASE m.from = c
      <4>1. Echo(c, l) = {1}
        BY <1>4, <3>1, <3>4 DEF Echo
      <4>2. 1 \in Latest(Echo(c, l))
        BY <4>1 DEF Latest
      <4>3. view[c][l] = m.put[l]
        BY <2>1, <2>4, <4>2 DEF ReadYourWrites, m
      <4> QED
        BY <1>1, <1>5, <2>4, <3>3, <4>1, <4>3
    <3>5. CASE m.from # c
      <4>1. Echo(c, l) = {}
        BY <1>4, <3>1, <3>5 DEF Echo
      <4>2. l \in Seen(c, m.put) /\ ~Shadowed(c, l) /\ l \in Leaf
        BY <2>1, <2>4, <3>2, <4>1, ListensAssumption DEF Seen, Shadowed
      <4> QED
        BY <1>1, <1>2, <2>4, <3>3, <3>5, <4>2
    <3> QED
      BY <3>4, <3>5
  <2> QED
    BY <2>2, <2>3, <2>4
<1>11. Unobserved'
  <2> SUFFICES ASSUME NEW d \in Client, NEW l \in Leaf \ Listens[d]
               PROVE  view'[d][l] = Blank[l]
    BY DEF Unobserved
  <2> QED
    BY <1>1, <1>2 DEF Unobserved, Seen
<1> QED
  BY <1>3, <1>8, <1>9, <1>10, <1>11

\* A device that starts listening afresh with the writes ws still to be sent, and
\* nothing on its way to it, shows the server's data under them.
LEMMA FreshKeeps ==
  ASSUME IInv, NEW c \in Client, NEW ws \in Seq(Write),
         pending' = [pending EXCEPT ![c] = ws],
         unheard' = [unheard EXCEPT ![c] = <<>>],
         inbox' = [inbox EXCEPT ![c] = <<>>],
         view' = [view EXCEPT ![c] = Mirror(c, Replay(ws, server))],
         server' = server, reconnects' \in Nat, restarts' \in Nat
  PROVE  IInv'
<1> USE DEF IInv
<1>1. /\ pending'[c] = ws /\ inbox'[c] = <<>>
      /\ view'[c] = Mirror(c, Replay(ws, server))
      /\ \A d \in Client \ {c} : /\ pending'[d] = pending[d]
                                /\ inbox'[d] = inbox[d]
                                /\ view'[d] = view[d]
  BY DEF TypeOK
<1>2. TypeOK'
  <2>1. Mirror(c, Replay(ws, server)) \in [Leaf -> Value]
    BY ReplayType, MirrorType DEF TypeOK
  <2>2. view' \in [Client -> [Leaf -> Value]]
    BY <2>1 DEF TypeOK
  <2>3. <<>> \in Seq(Write) /\ <<>> \in Seq(Message)
    OBVIOUS
  <2> QED
    BY <2>2, <2>3 DEF TypeOK
<1>3. \A l : /\ Unsent(c, l)' = Touching(ws, l)
            /\ Coming(c, l)' = {} /\ Echo(c, l)' = {}
  BY <1>1 DEF Unsent, Touching, Coming, Echo
<1>4. ASSUME NEW d \in Client \ {c}
      PROVE  \A l : /\ Unsent(d, l)' = Unsent(d, l)
                   /\ Coming(d, l)' = Coming(d, l) /\ Echo(d, l)' = Echo(d, l)
  BY <1>1, <1>4 DEF Unsent, Coming, Echo
\* On a leaf that c listens to, the last of its writes shows, or the server's value.
<1>5. ASSUME NEW l \in Listens[c]
      PROVE  /\ Touching(ws, l) = {} => view'[c][l] = server[l]
             /\ \A i \in Latest(Touching(ws, l)) : view'[c][l] = ws[i][l]
  <2>1. l \in Leaf
    BY ListensAssumption
  <2>2. view'[c][l] = Replay(ws, server)[l]
    BY <1>1, <2>1 DEF Mirror
  <2> QED
    BY <2>1, <2>2, ReplayLast DEF TypeOK
<1>6. ReadYourWrites'
  <2> SUFFICES ASSUME NEW d \in Client, NEW l \in Listens[d]
               PROVE  /\ \A i \in Latest(Unsent(d, l))' : view'[d][l] = pending'[d][i][l]
                      /\ Unsent(d, l)' = {} =>
                           \A i \in Latest(Echo(d, l))' : view'[d][l] = inbox'[d][i].put[l]
    BY DEF ReadYourWrites
  <2>1. CASE d = c
    BY <1>1, <1>3, <1>5, <2>1 DEF Latest
  <2>2. CASE d # c
    BY <1>1, <1>4, <2>2 DEF ReadYourWrites, Latest
  <2> QED
    BY <2>1, <2>2
<1>7. NothingMissed'
  <2> SUFFICES ASSUME NEW d \in Client, NEW l \in Listens[d],
                      NEW i \in Latest(Coming(d, l))'
               PROVE  server'[l] = inbox'[d][i].put[l]
    BY DEF NothingMissed
  <2>1. CASE d = c
    BY <1>3, <2>1 DEF Latest
  <2>2. CASE d # c
    BY <1>1, <1>4, <2>2 DEF NothingMissed, Latest
  <2> QED
    BY <2>1, <2>2
<1>8. LeafUpToDate'
  <2> SUFFICES ASSUME NEW d \in Client, NEW l \in Listens[d],
                      Unsent(d, l)' = {}, Coming(d, l)' = {}
               PROVE  view'[d][l] = server'[l]
    BY DEF LeafUpToDate
  <2>1. CASE d = c
    BY <1>3, <1>5, <2>1
  <2>2. CASE d # c
    BY <1>1, <1>4, <2>2 DEF LeafUpToDate
  <2> QED
    BY <2>1, <2>2
<1>9. Unobserved'
  BY <1>1 DEF Unobserved, Mirror
<1> QED
  BY <1>2, <1>6, <1>7, <1>8, <1>9

\* A restored connection sends again what was not acknowledged.
LEMMA ReconnectKeeps ==
  ASSUME IInv, NEW c \in Client, Reconnect(c)
  PROVE  IInv'
<1>1. Unacked(c) \in Seq(Write)
  BY DEF IInv, TypeOK, Unacked
<1>2. /\ pending' = [pending EXCEPT ![c] = Unacked(c)]
      /\ unheard' = [unheard EXCEPT ![c] = <<>>]
      /\ inbox' = [inbox EXCEPT ![c] = <<>>]
      /\ view' = [view EXCEPT ![c] = Mirror(c, Replay(Unacked(c), server))]
      /\ server' = server /\ reconnects' \in Nat /\ restarts' \in Nat
  BY DEF Reconnect, IInv, TypeOK
<1> QED
  BY <1>1, <1>2, FreshKeeps

\* A restart sends nothing again: there is nothing to replay.
LEMMA RestartKeeps ==
  ASSUME IInv, NEW c \in Client, Restart(c)
  PROVE  IInv'
<1>1. <<>> \in Seq(Write)
  OBVIOUS
<1>2. Mirror(c, Replay(<<>>, server)) = Mirror(c, server)
  BY <1>1 DEF Mirror, Replay, Touching
<1>3. /\ pending' = [pending EXCEPT ![c] = <<>>]
      /\ unheard' = [unheard EXCEPT ![c] = <<>>]
      /\ inbox' = [inbox EXCEPT ![c] = <<>>]
      /\ view' = [view EXCEPT ![c] = Mirror(c, server)]
      /\ server' = server /\ reconnects' = reconnects /\ restarts' = restarts + 1
  BY DEF Restart
<1>4. view' = [view EXCEPT ![c] = Mirror(c, Replay(<<>>, server))]
  BY <1>2, <1>3, Zenon
<1>5. reconnects' \in Nat /\ restarts' \in Nat
  BY <1>3 DEF IInv, TypeOK
<1> QED
  BY <1>1, <1>3, <1>4, <1>5, FreshKeeps

LEMMA NextKeeps == IInv /\ [Next]_syncVars => IInv'
<1> SUFFICES ASSUME IInv, [Next]_syncVars
             PROVE  IInv'
  OBVIOUS
<1>1. ASSUME NEW c \in Client, NEW w \in Write, LocalWrite(c, w)
      PROVE  IInv'
  BY <1>1, LocalWriteKeeps
<1>2. ASSUME NEW c \in Client, Commit(c)
      PROVE  IInv'
  BY <1>2, CommitKeeps
<1>3. ASSUME NEW c \in Client, Deliver(c)
      PROVE  IInv'
  BY <1>3, DeliverKeeps
<1>4. ASSUME NEW c \in Client, Reconnect(c)
      PROVE  IInv'
  BY <1>4, ReconnectKeeps
<1>5. ASSUME NEW c \in Client, Restart(c)
      PROVE  IInv'
  BY <1>5, RestartKeeps
<1>6. CASE UNCHANGED syncVars
  <2>1. /\ server' = server /\ view' = view /\ pending' = pending /\ inbox' = inbox
        /\ TypeOK'
    BY <1>6 DEF syncVars, IInv, TypeOK
  <2>2. \A c, l : /\ Unsent(c, l)' = Unsent(c, l)
                 /\ Coming(c, l)' = Coming(c, l) /\ Echo(c, l)' = Echo(c, l)
    BY <2>1 DEF Unsent, Coming, Echo
  <2>3. ReadYourWrites' /\ NothingMissed' /\ LeafUpToDate' /\ Unobserved'
    BY <2>1, <2>2 DEF IInv, ReadYourWrites, NothingMissed, LeafUpToDate, Unobserved, Latest
  <2> QED
    BY <2>1, <2>3 DEF IInv
<1> QED
  BY <1>1, <1>2, <1>3, <1>4, <1>5, <1>6 DEF Next

-----------------------------------------------------------------------------
(* The theorems.                                                           *)

\* The mirror's invariant holds of every behaviour: whatever devices write, lose
\* and receive, what a device shows of a leaf is explained by its own
\* unacknowledged writes, the news on its way to it, and the server.
THEOREM MirrorInvariant == Spec => []IInv
<1>1. Init => IInv
  BY InitHolds
<1>2. IInv /\ [Next]_syncVars => IInv'
  BY NextKeeps
<1> QED
  BY <1>1, <1>2, PTL DEF Spec

\* Views, queues and the tree keep their shape (deferredInit, putInternal).
THEOREM TypeCorrect == Spec => []TypeOK
<1>1. IInv => TypeOK
  BY DEF IInv
<1> QED
  BY <1>1, MirrorInvariant, PTL

LEMMA IInvConverges == IInv => Converged
<1> SUFFICES ASSUME IInv, NEW c \in Client, pending[c] = <<>>, inbox[c] = <<>>
             PROVE  view[c] = Mirror(c, server)
  BY DEF Converged
<1>1. view[c] \in [Leaf -> Value] /\ Mirror(c, server) \in [Leaf -> Value]
  BY MirrorType DEF IInv, TypeOK
<1>2. \A l : Unsent(c, l) = {} /\ Coming(c, l) = {}
  BY DEF Unsent, Touching, Coming
<1>3. ASSUME NEW l \in Leaf
      PROVE  view[c][l] = Mirror(c, server)[l]
  <2>1. CASE l \in Listens[c]
    BY <1>2, <2>1 DEF IInv, LeafUpToDate, Mirror
  <2>2. CASE l \notin Listens[c]
    BY <2>2 DEF IInv, Unobserved, Mirror
  <2> QED
    BY <2>1, <2>2
<1> QED
  BY <1>1, <1>3

\* A device with nothing under way shows the server's data: optimistic writes,
\* echoes, resends and restarts leave no trace (ackWrite, onDataUpdate, onDisconnect).
THEOREM MirrorConverges == Spec => []Converged
BY IInvConverges, MirrorInvariant, PTL

\* A device shows its own last unacknowledged write of a leaf, whatever arrives
\* from others meanwhile (calculateEventCacheAfterServerOverwriteAtPath).
THEOREM OwnWritesShow == Spec => []ReadYourWrites
<1>1. IInv => ReadYourWrites
  BY DEF IInv
<1> QED
  BY <1>1, MirrorInvariant, PTL

\* The newest message on its way about a leaf a device listens to holds what the
\* server holds (onDataPushWithAction).
THEOREM NewsIsCurrent == Spec => []NothingMissed
<1>1. IInv => NothingMissed
  BY DEF IInv
<1> QED
  BY <1>1, MirrorInvariant, PTL

-----------------------------------------------------------------------------
(* Acknowledgements.                                                       *)

Puts(s) == [i \in DOMAIN s |-> s[i].put]
OwnIn(box, c) == Sift(box, {i \in DOMAIN box : box[i].from = c})

LEMMA PutsType ==
  ASSUME NEW s \in Seq(Message)
  PROVE  /\ Puts(s) \in Seq(Write) /\ Len(Puts(s)) = Len(s)
         /\ \A i \in 1 .. Len(s) : Puts(s)[i] = s[i].put
<1>1. Len(s) \in Nat /\ DOMAIN s = 1 .. Len(s) /\ \A i \in 1 .. Len(s) : s[i] \in Message
  OBVIOUS
<1>2. \A i \in 1 .. Len(s) : s[i].put \in Write
  BY <1>1 DEF Message
<1>3. Puts(s) \in [1 .. Len(s) -> Write]
  BY <1>1, <1>2 DEF Puts
<1> QED
  BY <1>1, <1>3 DEF Puts

LEMMA PutsAppend ==
  ASSUME NEW s \in Seq(Message), NEW m \in Message
  PROVE  Puts(Append(s, m)) = Append(Puts(s), m.put)
<1>1. m.put \in Write
  BY DEF Message
<1>2. PICK t : t = Append(s, m)
  OBVIOUS
<1>3. /\ t \in Seq(Message) /\ Len(t) = Len(s) + 1 /\ t[Len(s) + 1] = m
      /\ \A i \in 1 .. Len(s) : t[i] = s[i]
  BY <1>2, AppendProperties
<1>4. PICK u : u = Append(Puts(s), m.put)
  OBVIOUS
<1>5. /\ u \in Seq(Write) /\ Len(u) = Len(s) + 1 /\ u[Len(s) + 1] = m.put
      /\ \A i \in 1 .. Len(s) : u[i] = s[i].put
  BY <1>1, <1>4, PutsType, AppendProperties
<1>6. Len(s) \in Nat
  OBVIOUS
<1>7. /\ Puts(t) \in Seq(Write) /\ Len(Puts(t)) = Len(u)
      /\ \A i \in 1 .. Len(u) : Puts(t)[i] = u[i]
  BY <1>3, <1>5, <1>6, PutsType
<1> QED
  BY <1>2, <1>4, <1>5, <1>7, SeqEqual

\* Dropping the first of them is dropping its put.
LEMMA PutsFirst ==
  ASSUME NEW s \in Seq(Message), NEW m \in Message
  PROVE  SubSeq(Puts(<<m>> \o s), 2, Len(Puts(<<m>> \o s))) = Puts(s)
<1>1. PICK t : t = <<m>> \o s
  OBVIOUS
<1>2. <<m>> \in Seq(Message) /\ Len(<<m>>) = 1 /\ Len(s) \in Nat
  OBVIOUS
<1>3. /\ t \in Seq(Message) /\ Len(t) = Len(s) + 1
      /\ \A i \in 1 .. Len(s) + 1 : t[i] = IF i =< 1 THEN <<m>>[i] ELSE s[i - 1]
  BY <1>1, <1>2, ConcatProperties
<1>4. \A i \in 1 .. Len(s) : t[i + 1] = s[i]
  BY <1>2, <1>3
<1>5. PICK p : p = Puts(t)
  OBVIOUS
<1>6. p \in Seq(Write) /\ Len(p) = Len(s) + 1 /\ \A i \in 1 .. Len(s) : p[i + 1] = s[i].put
  <2>1. p \in Seq(Write) /\ Len(p) = Len(t) /\ \A j \in 1 .. Len(t) : p[j] = t[j].put
    BY <1>3, <1>5, PutsType
  <2>2. \A i \in 1 .. Len(s) : i + 1 \in 1 .. Len(t)
    BY <1>2, <1>3
  <2> QED
    BY <1>3, <1>4, <2>1, <2>2
<1>7. \A i \in 2 .. Len(p) : p[i] \in Write
  BY <1>6
<1>8. PICK u : u = SubSeq(p, 2, Len(p))
  OBVIOUS
<1>9. /\ u \in Seq(Write)
      /\ Len(u) = IF 2 =< Len(p) THEN Len(p) - 2 + 1 ELSE 0
      /\ \A i \in 1 .. Len(p) - 2 + 1 : u[i] = p[2 + i - 1]
  BY <1>2, <1>6, <1>7, <1>8, SubSeqProperties
<1>10. Len(u) = Len(s) /\ \A i \in 1 .. Len(s) : u[i] = p[i + 1]
  <2>1. Len(u) = Len(s)
    BY <1>2, <1>6, <1>9
  <2>2. ASSUME NEW i \in 1 .. Len(s)
        PROVE  u[i] = p[i + 1]
    <3>1. 2 + i - 1 = i + 1 /\ i \in 1 .. Len(p) - 2 + 1
      BY <1>2, <1>6
    <3> QED
      BY <1>9, <3>1
  <2> QED
    BY <2>1, <2>2
<1>11. u = Puts(s)
  BY <1>6, <1>9, <1>10, PutsType, SeqEqual
<1> QED
  BY <1>1, <1>5, <1>8, <1>11

LEMMA EchoesStep == TypeOK /\ EchoesInOrder /\ [Next]_syncVars => EchoesInOrder'
<1> SUFFICES ASSUME TypeOK, EchoesInOrder, [Next]_syncVars, NEW c \in Client
             PROVE  unheard'[c] = Puts(OwnIn(inbox'[c], c))
  BY DEF EchoesInOrder, OwnIn, Puts
<1>1. unheard[c] = Puts(OwnIn(inbox[c], c))
  BY DEF EchoesInOrder, OwnIn, Puts
<1>2. /\ inbox[c] \in Seq(Message) /\ inbox \in [Client -> Seq(Message)]
      /\ unheard[c] \in Seq(Write) /\ unheard \in [Client -> Seq(Write)]
      /\ pending \in [Client -> Seq(Write)]
  BY DEF TypeOK
<1>3. Puts(OwnIn(<<>>, c)) = <<>>
  <2>1. OwnIn(<<>>, c) = <<>>
    BY SiftNone DEF OwnIn
  <2> QED
    BY <2>1 DEF Puts
<1>4. CASE UNCHANGED <<inbox, unheard>>
  BY <1>1, <1>4
<1>5. ASSUME NEW d \in Client, Commit(d)
      PROVE  unheard'[c] = Puts(OwnIn(inbox'[c], c))
  <2>1. PICK m : m = [from |-> d, put |-> Head(pending[d])]
    OBVIOUS
  <2>2. m \in Message
    <3>1. Head(pending[d]) \in Write
      BY <1>2, <1>5 DEF Commit
    <3> QED
      BY <2>1, <3>1 DEF Message
  <2>3. inbox'[c] = inbox[c] \/ inbox'[c] = Append(inbox[c], m)
    BY <1>5, <2>1 DEF Commit
  <2>4. OwnIn(Append(inbox[c], m), c) = IF d = c THEN Append(OwnIn(inbox[c], c), m)
                                                 ELSE OwnIn(inbox[c], c)
    <3>1. PICK t : t = Append(inbox[c], m)
      OBVIOUS
    <3>2. PICK I : I = {i \in DOMAIN t : t[i].from = c}
      OBVIOUS
    <3>3. PICK J : J = {i \in DOMAIN inbox[c] : inbox[c][i].from = c}
      OBVIOUS
    <3>4. /\ Len(inbox[c]) \in Nat /\ DOMAIN inbox[c] = 1 .. Len(inbox[c])
          /\ DOMAIN t = 1 .. Len(inbox[c]) + 1 /\ t[Len(inbox[c]) + 1] = m
          /\ \A i \in 1 .. Len(inbox[c]) : t[i] = inbox[c][i]
      BY <1>2, <2>2, <3>1
    <3>5. Len(inbox[c]) + 1 \in I <=> d = c
      BY <2>1, <3>2, <3>4
    <3>6. \A i \in 1 .. Len(inbox[c]) : i \in I <=> i \in J
      BY <3>2, <3>3, <3>4
    <3>7. Sift(inbox[c], I) = Sift(inbox[c], J)
      BY <3>4, <3>6, SiftSame
    <3>8. Sift(t, I) = IF Len(inbox[c]) + 1 \in I THEN Append(Sift(inbox[c], I), m)
                                                  ELSE Sift(inbox[c], I)
      BY <1>2, <2>2, <3>1, SiftAppend
    <3> QED
      BY <3>1, <3>2, <3>3, <3>5, <3>7, <3>8 DEF OwnIn
  <2>5. OwnIn(inbox[c], c) \in Seq(Message)
    BY <1>2, SiftPart DEF OwnIn
  <2>6. CASE d = c
    <3>1. inbox'[c] = Append(inbox[c], m) /\ unheard'[c] = Append(unheard[c], m.put)
      BY <1>2, <1>5, <2>1, <2>6 DEF Commit
    <3> QED
      BY <1>1, <2>2, <2>4, <2>5, <2>6, <3>1, PutsAppend
  <2>7. CASE d # c
    <3>1. unheard'[c] = unheard[c]
      BY <1>2, <1>5, <2>7 DEF Commit
    <3> QED
      BY <1>1, <2>3, <2>4, <2>7, <3>1
  <2> QED
    BY <2>6, <2>7
<1>6. ASSUME NEW d \in Client, Deliver(d)
      PROVE  unheard'[c] = Puts(OwnIn(inbox'[c], c))
  <2>1. CASE d # c
    BY <1>1, <1>2, <1>6, <2>1 DEF Deliver
  <2>2. CASE d = c
    <3>1. PICK m : m = Head(inbox[c])
      OBVIOUS
    <3>2. /\ inbox[c] # <<>> /\ m \in Message /\ m = inbox[c][1]
          /\ Tail(inbox[c]) \in Seq(Message) /\ inbox'[c] = Tail(inbox[c])
          /\ unheard'[c] = IF m.from = c THEN SubSeq(unheard[c], 2, Len(unheard[c]))
                                         ELSE unheard[c]
      BY <1>2, <1>6, <2>2, <3>1 DEF Deliver
    <3>3. PICK t : t = Tail(inbox[c])
      OBVIOUS
    <3>4. PICK I : I = {i \in DOMAIN inbox[c] : inbox[c][i].from = c}
      OBVIOUS
    <3>5. PICK J : J = {i \in DOMAIN t : t[i].from = c}
      OBVIOUS
    <3>6. /\ Len(inbox[c]) \in Nat \ {0} /\ DOMAIN inbox[c] = 1 .. Len(inbox[c])
          /\ DOMAIN t = 1 .. Len(inbox[c]) - 1
          /\ \A i \in 1 .. Len(inbox[c]) - 1 : t[i] = inbox[c][i + 1]
      BY <1>2, <3>2, <3>3
    <3>7. \A i \in 1 .. Len(inbox[c]) - 1 : i \in J <=> i + 1 \in I
      BY <3>4, <3>5, <3>6
    <3>8. 1 \in I <=> m.from = c
      BY <3>2, <3>4, <3>6
    <3>9. Sift(inbox[c], I) = IF 1 \in I THEN <<m>> \o Sift(t, J) ELSE Sift(t, J)
      BY <1>2, <3>1, <3>2, <3>3, <3>7, SiftTail
    <3>10. OwnIn(inbox[c], c) = IF m.from = c THEN <<m>> \o OwnIn(t, c) ELSE OwnIn(t, c)
      BY <3>4, <3>5, <3>8, <3>9 DEF OwnIn
    <3>11. OwnIn(t, c) \in Seq(Message)
      BY <3>2, <3>3, SiftPart DEF OwnIn
    <3>12. m.from = c => unheard'[c] = Puts(OwnIn(t, c))
      BY <1>1, <3>2, <3>10, <3>11, PutsFirst
    <3> QED
      BY <1>1, <3>2, <3>3, <3>10, <3>12
  <2> QED
    BY <2>1, <2>2
<1>7. ASSUME NEW d \in Client, Reconnect(d) \/ Restart(d)
      PROVE  unheard'[c] = Puts(OwnIn(inbox'[c], c))
  <2>1. CASE d # c
    BY <1>1, <1>2, <1>7, <2>1 DEF Reconnect, Restart
  <2>2. CASE d = c
    BY <1>2, <1>3, <1>7, <2>2 DEF Reconnect, Restart
  <2> QED
    BY <2>1, <2>2
<1>8. ASSUME NEW d \in Client, NEW w \in Write, LocalWrite(d, w)
      PROVE  unheard'[c] = Puts(OwnIn(inbox'[c], c))
  BY <1>4, <1>8 DEF LocalWrite
<1> QED
  BY <1>4, <1>5, <1>6, <1>7, <1>8 DEF Next, syncVars

\* The acknowledgements under way to a device are those of its processed writes, in
\* order, however often its connection was lost (putInternal, restorePuts).
THEOREM EchoesAreOrdered == Spec => []EchoesInOrder
<1>1. Init => EchoesInOrder
  <2> SUFFICES ASSUME Init, NEW c \in Client
               PROVE  unheard[c] = Puts(OwnIn(inbox[c], c))
    BY DEF EchoesInOrder, OwnIn, Puts
  <2>1. OwnIn(<<>>, c) = <<>>
    BY SiftNone DEF OwnIn
  <2> QED
    BY <2>1 DEF Init, Puts
<1>2. TypeOK /\ EchoesInOrder /\ [Next]_syncVars => EchoesInOrder'
  BY EchoesStep
<1> QED
  BY <1>1, <1>2, TypeCorrect, PTL DEF Spec

-----------------------------------------------------------------------------
(* Nothing appears in the tree, a view or a queue that was not written: for *)
(* any sets K[l] of values that hold what the database started with, as     *)
(* long as devices write only values of K.                                  *)

WritesOf(K) == {w \in Write : \A l \in DOMAIN w : w[l] \in K[l]}
MessagesOf(K) == [from : Client, put : WritesOf(K)]

HoldsOnly(K) == /\ \A l \in Leaf : server[l] \in K[l]
                /\ \A c \in Client, l \in Leaf : view[c][l] \in K[l]
                /\ pending \in [Client -> Seq(WritesOf(K))]
                /\ unheard \in [Client -> Seq(WritesOf(K))]
                /\ inbox \in [Client -> Seq(MessagesOf(K))]

LEMMA InitHoldsOnly ==
  ASSUME NEW K, \A l \in Leaf : Blank[l] \in K[l], Init
  PROVE  HoldsOnly(K)
BY EmptySeq DEF Init, HoldsOnly

\* A larger K holds no less.
LEMMA WritesGrow ==
  ASSUME NEW K, NEW L, \A l \in Leaf : K[l] \subseteq L[l]
  PROVE  WritesOf(K) \subseteq WritesOf(L)
BY WriteType DEF WritesOf

LEMMA HoldsOnlyGrows ==
  ASSUME NEW K, NEW L, \A l \in Leaf : K[l] \subseteq L[l], HoldsOnly(K)
  PROVE  HoldsOnly(L)
<1>1. WritesOf(K) \subseteq WritesOf(L)
  BY WritesGrow
<1>2. MessagesOf(K) \subseteq MessagesOf(L)
  BY <1>1 DEF MessagesOf
<1>3. /\ Seq(WritesOf(K)) \subseteq Seq(WritesOf(L))
      /\ Seq(MessagesOf(K)) \subseteq Seq(MessagesOf(L))
  BY <1>1, <1>2, SeqMonotonic
<1> QED
  BY <1>3 DEF HoldsOnly

LEMMA LocalWriteHoldsOnly ==
  ASSUME TypeOK, NEW K, \A l \in Leaf : Blank[l] \in K[l], HoldsOnly(K),
         NEW c \in Client, NEW w \in WritesOf(K), LocalWrite(c, w)
  PROVE  HoldsOnly(K)'
<1>1. /\ view \in [Client -> [Leaf -> Value]]
      /\ view' = [view EXCEPT ![c] = Mirror(c, Overlay(w, @))]
      /\ pending' = [pending EXCEPT ![c] = Append(@, w)]
      /\ server' = server /\ unheard' = unheard /\ inbox' = inbox
  BY DEF TypeOK, LocalWrite
<1>2. \A l \in Leaf : Mirror(c, Overlay(w, view[c]))[l] \in K[l]
  BY DEF Mirror, Overlay, WritesOf, HoldsOnly
<1>3. \A d \in Client, l \in Leaf : view'[d][l] \in K[l]
  BY <1>1, <1>2 DEF HoldsOnly
<1>4. pending' \in [Client -> Seq(WritesOf(K))]
  <2>1. Append(pending[c], w) \in Seq(WritesOf(K))
    BY AppendProperties DEF HoldsOnly
  <2> QED
    BY <1>1, <2>1 DEF HoldsOnly
<1> QED
  BY <1>1, <1>3, <1>4 DEF HoldsOnly

LEMMA CommitHoldsOnly ==
  ASSUME TypeOK, NEW K, HoldsOnly(K), NEW c \in Client, Commit(c)
  PROVE  HoldsOnly(K)'
<1>1. PICK w : w = Head(pending[c])
  OBVIOUS
<1>2. /\ w \in WritesOf(K) /\ Tail(pending[c]) \in Seq(WritesOf(K))
      /\ [from |-> c, put |-> w] \in MessagesOf(K)
  <2>1. pending[c] \in Seq(WritesOf(K)) /\ pending[c] # <<>>
    BY DEF HoldsOnly, Commit
  <2>2. w \in WritesOf(K) /\ Tail(pending[c]) \in Seq(WritesOf(K))
    BY <1>1, <2>1, HeadTailProperties
  <2> QED
    BY <2>2 DEF MessagesOf
<1>3. /\ server' = Overlay(w, server) /\ view' = view
      /\ pending' = [pending EXCEPT ![c] = Tail(@)]
      /\ unheard' = [unheard EXCEPT ![c] = Append(@, w)]
      /\ inbox' = [d \in Client |-> IF d = c \/ Seen(d, w) # {}
                                    THEN Append(inbox[d], [from |-> c, put |-> w])
                                    ELSE inbox[d]]
  BY <1>1 DEF Commit
<1>4. \A l \in Leaf : server'[l] \in K[l]
  BY <1>2, <1>3 DEF Overlay, WritesOf, HoldsOnly
<1>5. Append(unheard[c], w) \in Seq(WritesOf(K))
  BY <1>2, AppendProperties DEF HoldsOnly
<1>6. \A d \in Client : Append(inbox[d], [from |-> c, put |-> w]) \in Seq(MessagesOf(K))
  BY <1>2, AppendProperties DEF HoldsOnly
<1> QED
  BY <1>2, <1>3, <1>4, <1>5, <1>6 DEF HoldsOnly

LEMMA DeliverHoldsOnly ==
  ASSUME TypeOK, NEW K, HoldsOnly(K), NEW c \in Client, Deliver(c)
  PROVE  HoldsOnly(K)'
<1>1. PICK m : m = Head(inbox[c])
  OBVIOUS
<1>2. m \in MessagesOf(K) /\ Tail(inbox[c]) \in Seq(MessagesOf(K))
  BY <1>1, HeadTailProperties DEF HoldsOnly, Deliver
<1>3. /\ server' = server /\ pending' = pending
      /\ inbox' = [inbox EXCEPT ![c] = Tail(@)]
      /\ view' = [view EXCEPT ![c] =
                    [l \in Leaf |-> IF m.from # c /\ l \in Seen(c, m.put) /\ ~Shadowed(c, l)
                                   THEN m.put[l] ELSE @[l]]]
      /\ unheard' = IF m.from = c
                    THEN [unheard EXCEPT ![c] = SubSeq(@, 2, Len(@))] ELSE unheard
  BY <1>1 DEF Deliver
<1>4. \A l \in Leaf : l \in Seen(c, m.put) => m.put[l] \in K[l]
  BY <1>2 DEF Seen, MessagesOf, WritesOf
<1>5. \A d \in Client, l \in Leaf : view'[d][l] \in K[l]
  <2> TAKE d \in Client, l \in Leaf
  <2>1. view[c][l] \in K[l] /\ view[d][l] \in K[l] /\ view \in [Client -> [Leaf -> Value]]
    BY DEF HoldsOnly, TypeOK
  <2> QED
    BY <1>3, <1>4, <2>1
<1>6. SubSeq(unheard[c], 2, Len(unheard[c])) \in Seq(WritesOf(K))
  <2>1. /\ unheard[c] \in Seq(WritesOf(K)) /\ Len(unheard[c]) \in Int
        /\ \A i \in 2 .. Len(unheard[c]) : unheard[c][i] \in WritesOf(K)
    BY DEF HoldsOnly
  <2> QED
    BY <2>1, SubSeqProperties
<1> QED
  BY <1>2, <1>3, <1>5, <1>6 DEF HoldsOnly

\* Client c starts afresh from the server's data and the writes ws.
LEMMA FreshHoldsOnly ==
  ASSUME TypeOK, NEW K, \A l \in Leaf : Blank[l] \in K[l], HoldsOnly(K),
         NEW c \in Client, NEW ws \in Seq(WritesOf(K)),
         pending' = [pending EXCEPT ![c] = ws],
         unheard' = [unheard EXCEPT ![c] = <<>>],
         inbox' = [inbox EXCEPT ![c] = <<>>],
         view' = [view EXCEPT ![c] = Mirror(c, Replay(ws, server))],
         server' = server
  PROVE  HoldsOnly(K)'
<1>1. ASSUME NEW l \in Leaf
      PROVE  Replay(ws, server)[l] \in K[l]
  <2>1. \A i \in DOMAIN ws : ws[i] \in WritesOf(K)
    OBVIOUS
  <2>2. CASE Touching(ws, l) = {}
    BY <2>2 DEF Replay, HoldsOnly
  <2>3. CASE Touching(ws, l) # {}
    <3>1. Touching(ws, l) \in SUBSET (1 .. Len(ws)) /\ Len(ws) \in Nat
      BY DEF Touching
    <3>2. PICK i \in Latest(Touching(ws, l)) :
            i = CHOOSE j \in Latest(Touching(ws, l)) : TRUE
      BY <2>3, <3>1, LatestExists
    <3>3. Replay(ws, server)[l] = ws[i][l]
      BY <2>3, <3>2 DEF Replay
    <3>4. ws[i] \in WritesOf(K) /\ l \in DOMAIN ws[i]
      BY <2>1, <3>2 DEF Latest, Touching
    <3> QED
      BY <3>3, <3>4 DEF WritesOf
  <2> QED
    BY <2>2, <2>3
<1>2. \A d \in Client, l \in Leaf : view'[d][l] \in K[l]
  <2> TAKE d \in Client, l \in Leaf
  <2>1. view[d][l] \in K[l] /\ view \in [Client -> [Leaf -> Value]]
    BY DEF HoldsOnly, TypeOK
  <2>2. Mirror(c, Replay(ws, server))[l] \in K[l]
    BY <1>1 DEF Mirror
  <2> QED
    BY <2>1, <2>2
<1>3. /\ <<>> \in Seq(WritesOf(K)) /\ <<>> \in Seq(MessagesOf(K))
  BY EmptySeq
<1> QED
  BY <1>2, <1>3 DEF HoldsOnly

LEMMA ReconnectHoldsOnly ==
  ASSUME TypeOK, NEW K, \A l \in Leaf : Blank[l] \in K[l], HoldsOnly(K),
         NEW c \in Client, Reconnect(c)
  PROVE  HoldsOnly(K)'
<1>1. Unacked(c) \in Seq(WritesOf(K))
  BY ConcatProperties DEF Unacked, HoldsOnly
<1> QED
  BY <1>1, FreshHoldsOnly DEF Reconnect

LEMMA RestartHoldsOnly ==
  ASSUME TypeOK, NEW K, \A l \in Leaf : Blank[l] \in K[l], HoldsOnly(K),
         NEW c \in Client, Restart(c)
  PROVE  HoldsOnly(K)'
<1>1. Replay(<<>>, server) = server
  BY DEF Replay, Touching, TypeOK
<1>2. <<>> \in Seq(WritesOf(K))
  BY EmptySeq
<1> QED
  BY <1>1, <1>2, FreshHoldsOnly DEF Restart

-----------------------------------------------------------------------------
(* Who writes what: for any sets P[c] of writes, as long as device c issues *)
(* only writes of P[c].                                                    *)

NewsFrom(P) == {m \in Message : m.put \in P[m.from]}

SentOnly(P) == \A c \in Client : /\ pending[c] \in Seq(P[c])
                                 /\ unheard[c] \in Seq(P[c])
                                 /\ inbox[c] \in Seq(NewsFrom(P))

LEMMA InitSentOnly ==
  ASSUME NEW P, Init
  PROVE  SentOnly(P)
BY EmptySeq DEF Init, SentOnly

LEMMA SentOnlyGrows ==
  ASSUME NEW P, NEW Q, \A c \in Client : P[c] \subseteq Q[c], SentOnly(P)
  PROVE  SentOnly(Q)
<1>1. NewsFrom(P) \subseteq NewsFrom(Q)
  BY DEF NewsFrom, Message
<1>2. \A c \in Client : Seq(P[c]) \subseteq Seq(Q[c])
  BY SeqMonotonic
<1>3. Seq(NewsFrom(P)) \subseteq Seq(NewsFrom(Q))
  BY <1>1, SeqMonotonic
<1> QED
  BY <1>2, <1>3 DEF SentOnly

LEMMA StepSentOnly ==
  ASSUME TypeOK, NEW P, SentOnly(P), NEW c \in Client,
         \/ \E w \in P[c] : LocalWrite(c, w)
         \/ Commit(c) \/ Deliver(c) \/ Reconnect(c) \/ Restart(c)
  PROVE  SentOnly(P)'
<1>1. /\ pending = [d \in Client |-> pending[d]] /\ unheard = [d \in Client |-> unheard[d]]
      /\ inbox = [d \in Client |-> inbox[d]]
  BY DEF TypeOK
<1>2. \A d \in Client : /\ pending[d] \in Seq(P[d]) /\ unheard[d] \in Seq(P[d])
                        /\ inbox[d] \in Seq(NewsFrom(P))
  BY DEF SentOnly
<1>3. ASSUME NEW w \in P[c], LocalWrite(c, w)
      PROVE  SentOnly(P)'
  <2>1. Append(pending[c], w) \in Seq(P[c])
    BY <1>2, AppendProperties
  <2>2. /\ pending' = [pending EXCEPT ![c] = Append(pending[c], w)]
        /\ unheard' = unheard /\ inbox' = inbox
    BY <1>3 DEF LocalWrite
  <2> QED
    BY <1>1, <1>2, <2>1, <2>2 DEF SentOnly
<1>4. ASSUME Commit(c)
      PROVE  SentOnly(P)'
  <2>1. PICK w : w = Head(pending[c])
    OBVIOUS
  <2>2. w \in P[c] /\ w \in Write /\ Tail(pending[c]) \in Seq(P[c])
    <3>1. pending[c] # <<>> /\ pending[c] \in Seq(P[c]) /\ pending[c] \in Seq(Write)
      BY <1>2, <1>4 DEF Commit, TypeOK
    <3> QED
      BY <2>1, <3>1, HeadTailProperties
  <2>3. PICK m : m = [from |-> c, put |-> w]
    OBVIOUS
  <2>4. m \in NewsFrom(P)
    BY <2>2, <2>3 DEF NewsFrom, Message
  <2>5. /\ pending' = [pending EXCEPT ![c] = Tail(pending[c])]
        /\ unheard' = [unheard EXCEPT ![c] = Append(unheard[c], w)]
        /\ inbox' = [d \in Client |-> IF d = c \/ Seen(d, w) # {} THEN Append(inbox[d], m) ELSE inbox[d]]
    BY <1>4, <2>1, <2>3 DEF Commit
  <2>6. \A d \in Client : Append(inbox[d], m) \in Seq(NewsFrom(P))
    BY <1>2, <2>4, AppendProperties
  <2>7. Append(unheard[c], w) \in Seq(P[c])
    BY <1>2, <2>2, AppendProperties
  <2> QED
    BY <1>1, <1>2, <2>2, <2>5, <2>6, <2>7 DEF SentOnly
<1>5. ASSUME Deliver(c)
      PROVE  SentOnly(P)'
  <2>1. Tail(inbox[c]) \in Seq(NewsFrom(P)) /\ SubSeq(unheard[c], 2, Len(unheard[c])) \in Seq(P[c])
    <3>1. inbox[c] # <<>> /\ inbox[c] \in Seq(NewsFrom(P)) /\ unheard[c] \in Seq(P[c])
      BY <1>2, <1>5 DEF Deliver
    <3>2. Tail(inbox[c]) \in Seq(NewsFrom(P))
      BY <3>1, HeadTailProperties
    <3>3. PICK u : u = unheard[c]
      OBVIOUS
    <3>4. u \in Seq(P[c]) /\ Len(u) \in Nat /\ \A i \in 2 .. Len(u) : u[i] \in P[c]
      BY <3>1, <3>3
    <3>5. SubSeq(u, 2, Len(u)) \in Seq(P[c])
      <4>1. PICK m, n, A : m = 2 /\ n = Len(u) /\ A = P[c]
        OBVIOUS
      <4>2. m \in Int /\ n \in Int /\ \A i \in m .. n : u[i] \in A
        BY <3>4, <4>1
      <4>3. SubSeq(u, m, n) \in Seq(A)
        BY <4>2, SubSeqProperties
      <4> QED
        BY <4>1, <4>3
    <3> QED
      BY <3>2, <3>3, <3>5
  <2>2. /\ inbox' = [inbox EXCEPT ![c] = Tail(inbox[c])] /\ pending' = pending
        /\ \/ unheard' = unheard
           \/ unheard' = [unheard EXCEPT ![c] = SubSeq(unheard[c], 2, Len(unheard[c]))]
    BY <1>5 DEF Deliver
  <2> QED
    BY <1>1, <1>2, <2>1, <2>2 DEF SentOnly
<1>6. ASSUME Reconnect(c)
      PROVE  SentOnly(P)'
  <2>1. Unacked(c) \in Seq(P[c])
    BY <1>2, ConcatProperties DEF Unacked
  <2>2. /\ pending' = [pending EXCEPT ![c] = Unacked(c)]
        /\ unheard' = [unheard EXCEPT ![c] = <<>>] /\ inbox' = [inbox EXCEPT ![c] = <<>>]
    BY <1>6 DEF Reconnect
  <2> QED
    BY <1>1, <1>2, <2>1, <2>2, EmptySeq DEF SentOnly
<1>7. ASSUME Restart(c)
      PROVE  SentOnly(P)'
  <2>1. /\ pending' = [pending EXCEPT ![c] = <<>>]
        /\ unheard' = [unheard EXCEPT ![c] = <<>>] /\ inbox' = [inbox EXCEPT ![c] = <<>>]
    BY <1>7 DEF Restart
  <2> QED
    BY <1>1, <1>2, <2>1, EmptySeq DEF SentOnly
<1> QED
  BY <1>3, <1>4, <1>5, <1>6, <1>7

\* A message changes what its receiver shows only as a write of another device.
LEMMA DeliverShows ==
  ASSUME TypeOK, NEW P, SentOnly(P), NEW c \in Client, Deliver(c)
  PROVE  /\ \A d \in Client \ {c} : view'[d] = view[d]
         /\ \E d \in Client : \E w \in P[d] :
              \A l \in Leaf : view'[c][l] # view[c][l] =>
                                d # c /\ l \in DOMAIN w /\ view'[c][l] = w[l]
<1>1. PICK m : m = Head(inbox[c])
  OBVIOUS
<1>2. m \in NewsFrom(P) /\ m.from \in Client /\ m.put \in P[m.from]
  <2>1. inbox[c] # <<>> /\ inbox[c] \in Seq(NewsFrom(P))
    BY DEF Deliver, SentOnly
  <2>2. m \in NewsFrom(P)
    BY <1>1, <2>1, HeadTailProperties
  <2> QED
    BY <2>2 DEF NewsFrom, Message
<1>3. view' = [view EXCEPT ![c] =
                 [l \in Leaf |-> IF m.from # c /\ l \in Seen(c, m.put) /\ ~Shadowed(c, l)
                                THEN m.put[l] ELSE view[c][l]]]
  BY <1>1 DEF Deliver
<1>4. view \in [Client -> [Leaf -> Value]]
  BY DEF TypeOK
<1>5. \A l \in Leaf : view'[c][l] # view[c][l] =>
        m.from # c /\ l \in DOMAIN m.put /\ view'[c][l] = m.put[l]
  BY <1>3, <1>4 DEF Seen
<1> QED
  BY <1>2, <1>3, <1>4, <1>5

\* Replaying one write less on data that shows it, and one more.
LEMMA ReplayHead ==
  ASSUME NEW ws \in Seq(Write), ws # <<>>, NEW data \in [Leaf -> Value], NEW l \in Leaf
  PROVE  Replay(Tail(ws), Overlay(Head(ws), data))[l] = Replay(ws, data)[l]
<1>1. Tail(ws) \in Seq(Write) /\ Head(ws) \in Write
  BY HeadTailProperties
<1>2. Overlay(Head(ws), data) \in [Leaf -> Value]
  BY <1>1, OverlayType
<1>3. PICK G : G = WritesTo(l)
  OBVIOUS
<1>4. /\ Touching(ws, l) = At(ws, G) /\ Touching(Tail(ws), l) = At(Tail(ws), G)
  BY <1>1, <1>3, TouchingAt
<1>5. /\ Head(ws) = ws[1] /\ 1 \in DOMAIN ws
      /\ \A i \in At(ws, G) : i # 1 => i - 1 \in At(Tail(ws), G)
      /\ \A i \in Latest(At(Tail(ws), G)) : i + 1 \in Latest(At(ws, G)) /\ Tail(ws)[i] = ws[i + 1]
  BY AtTail
<1>6. CASE At(Tail(ws), G) = {}
  <2>1. Replay(Tail(ws), Overlay(Head(ws), data))[l] = Overlay(Head(ws), data)[l]
    BY <1>1, <1>2, <1>4, <1>6, ReplayLast
  <2>2. At(ws, G) \subseteq {1}
    BY <1>5, <1>6
  <2>3. CASE 1 \in At(ws, G)
    <3>1. At(ws, G) = {1} /\ Latest({1}) = {1}
      BY <2>2, <2>3 DEF Latest
    <3>2. Replay(ws, data)[l] = ws[1][l]
      <4>1. 1 \in Latest(Touching(ws, l))
        BY <1>4, <3>1
      <4> QED
        BY <4>1, ReplayLast
    <3>3. l \in DOMAIN ws[1]
      BY <1>3, <2>3 DEF At, WritesTo
    <3> QED
      BY <1>5, <2>1, <3>2, <3>3 DEF Overlay
  <2>4. CASE 1 \notin At(ws, G)
    <3>1. Replay(ws, data)[l] = data[l]
      <4>1. Touching(ws, l) = {}
        BY <1>4, <2>2, <2>4
      <4> QED
        BY <4>1, ReplayLast
    <3>2. l \notin DOMAIN ws[1]
      BY <1>1, <1>3, <1>5, <2>4 DEF At, WritesTo
    <3> QED
      BY <1>5, <2>1, <3>1, <3>2 DEF Overlay
  <2> QED
    BY <2>3, <2>4
<1>7. CASE At(Tail(ws), G) # {}
  <2>1. Len(Tail(ws)) \in Nat /\ At(Tail(ws), G) \in SUBSET (1 .. Len(Tail(ws)))
    BY <1>1 DEF At
  <2>2. PICK i \in Latest(At(Tail(ws), G)) : TRUE
    BY <1>7, <2>1, LatestExists
  <2>3. Replay(Tail(ws), Overlay(Head(ws), data))[l] = Tail(ws)[i][l]
    <3>1. i \in Latest(Touching(Tail(ws), l))
      BY <1>4, <2>2
    <3> QED
      BY <1>1, <1>2, <3>1, ReplayLast
  <2>4. Replay(ws, data)[l] = ws[i + 1][l] /\ Tail(ws)[i] = ws[i + 1]
    <3>1. i + 1 \in Latest(Touching(ws, l)) /\ Tail(ws)[i] = ws[i + 1]
      BY <1>4, <1>5, <2>2
    <3> QED
      BY <3>1, ReplayLast
  <2> QED
    BY <2>3, <2>4
<1> QED
  BY <1>6, <1>7

LEMMA ReplayAppend ==
  ASSUME NEW ws \in Seq(Write), NEW w \in Write, NEW data \in [Leaf -> Value], NEW l \in Leaf
  PROVE  Replay(Append(ws, w), data)[l] = IF l \in DOMAIN w THEN w[l] ELSE Replay(ws, data)[l]
<1>1. PICK G, s : G = WritesTo(l) /\ s = Append(ws, w)
  OBVIOUS
<1>2. s \in Seq(Write)
  BY <1>1, AppendProperties
<1>3. Touching(ws, l) = At(ws, G) /\ Touching(s, l) = At(s, G)
  BY <1>1, <1>2, TouchingAt
<1>4. /\ w \in G => Latest(At(s, G)) = {Len(ws) + 1}
      /\ w \notin G => At(s, G) = At(ws, G)
      /\ s[Len(ws) + 1] = w /\ \A i \in DOMAIN ws : s[i] = ws[i]
  BY <1>1, AtAppend
<1>5. w \in G <=> l \in DOMAIN w
  BY <1>1 DEF WritesTo
<1>6. CASE w \in G
  <2>1. Len(ws) + 1 \in Latest(Touching(s, l))
    BY <1>3, <1>4, <1>6
  <2>2. Replay(s, data)[l] = s[Len(ws) + 1][l]
    BY <1>2, <2>1, ReplayLast
  <2> QED
    BY <1>1, <1>4, <1>5, <1>6, <2>2
<1>7. CASE w \notin G
  <2>1. CASE At(ws, G) = {}
    <3>1. Touching(ws, l) = {} /\ Touching(s, l) = {}
      BY <1>3, <1>4, <1>7, <2>1
    <3>2. Replay(s, data)[l] = data[l] /\ Replay(ws, data)[l] = data[l]
      BY <1>2, <3>1, ReplayLast
    <3> QED
      BY <1>1, <1>5, <1>7, <3>2
  <2>2. CASE At(ws, G) # {}
    <3>1. Len(ws) \in Nat /\ At(ws, G) \in SUBSET (1 .. Len(ws))
      BY DEF At
    <3>2. PICK i \in Latest(At(ws, G)) : TRUE
      BY <2>2, <3>1, LatestExists
    <3>3. i \in DOMAIN ws
      BY <3>2 DEF Latest, At
    <3>4. i \in Latest(Touching(ws, l)) /\ i \in Latest(Touching(s, l)) /\ s[i] = ws[i]
      BY <1>3, <1>4, <1>7, <3>2, <3>3
    <3>5. Replay(s, data)[l] = s[i][l] /\ Replay(ws, data)[l] = ws[i][l]
      BY <1>2, <3>4, ReplayLast
    <3> QED
      BY <1>1, <1>5, <1>7, <3>4, <3>5
  <2> QED
    BY <2>1, <2>2
<1> QED
  BY <1>6, <1>7

-----------------------------------------------------------------------------
(* A leaf that only one client writes: whatever is lost, resent or still   *)
(* under way, what the client shows of it is what it wrote last.           *)

\* s is u followed by w.
Joins(s, u, w) == s = u \o w

\* s without its first.
Rest(s) == SubSeq(s, 2, Len(s))

\* The last of the writes ws that touches l decides.
LEMMA ReplayConcat ==
  ASSUME NEW us \in Seq(Write), NEW ws \in Seq(Write), NEW s, Joins(s, us, ws),
         NEW data \in [Leaf -> Value], NEW l \in Leaf
  PROVE  /\ s \in Seq(Write)
         /\ Touching(ws, l) # {} => Replay(s, data)[l] = Replay(ws, data)[l]
         /\ Touching(ws, l) = {} => Replay(s, data)[l] = Replay(us, data)[l]
<1>1. PICK m, n : m = Len(us) /\ n = Len(ws)
  OBVIOUS
<1>2. /\ m \in Nat /\ n \in Nat /\ DOMAIN us = 1 .. m /\ DOMAIN ws = 1 .. n
      /\ s \in Seq(Write) /\ DOMAIN s = 1 .. (m + n)
      /\ \A i \in 1 .. m : s[i] = us[i]
      /\ \A i \in 1 .. n : s[m + i] = ws[i]
  <2>1. /\ s \in Seq(Write) /\ Len(s) = m + n
        /\ \A i \in 1 .. (m + n) : s[i] = IF i =< m THEN us[i] ELSE ws[i - m]
    BY <1>1, ConcatProperties DEF Joins
  <2>2. m \in Nat /\ n \in Nat
    BY <1>1
  <2>3. \A i \in 1 .. m : i \in 1 .. (m + n) /\ i =< m
    BY <2>2
  <2>4. \A i \in 1 .. n : m + i \in 1 .. (m + n) /\ ~ (m + i =< m) /\ m + i - m = i
    BY <2>2
  <2>5. DOMAIN s = 1 .. (m + n) /\ DOMAIN us = 1 .. m /\ DOMAIN ws = 1 .. n
    BY <1>1, <2>1
  <2> QED
    BY <2>1, <2>2, <2>3, <2>4, <2>5
<1>3. CASE Touching(ws, l) # {}
  <2>1. Touching(ws, l) \in SUBSET (1 .. n)
    BY <1>2 DEF Touching
  <2>2. PICK i \in Latest(Touching(ws, l)) : TRUE
    BY <1>2, <1>3, <2>1, LatestExists
  <2>3. i \in 1 .. n /\ l \in DOMAIN ws[i] /\ \A j \in 1 .. n : l \in DOMAIN ws[j] => j =< i
    BY <1>2, <2>2 DEF Latest, Touching
  <2>4. m + i \in Latest(Touching(s, l))
    <3>1. m + i \in Touching(s, l)
      BY <1>2, <2>3 DEF Touching
    <3>2. ASSUME NEW j \in Touching(s, l)
          PROVE  j =< m + i
      <4>1. j \in 1 .. (m + n) /\ l \in DOMAIN s[j]
        BY <1>2, <3>2 DEF Touching
      <4>2. CASE j =< m
        BY <1>2, <2>3, <4>1, <4>2
      <4>3. CASE ~ (j =< m)
        <5>1. PICK k : k = j - m
          OBVIOUS
        <5>2. k \in 1 .. n /\ j = m + k
          BY <1>2, <4>1, <4>3, <5>1
        <5>3. l \in DOMAIN ws[k]
          BY <1>2, <4>1, <5>2
        <5>4. k =< i
          BY <2>3, <5>2, <5>3
        <5> QED
          BY <1>2, <2>3, <5>2, <5>4
      <4> QED
        BY <4>2, <4>3
    <3> QED
      BY <3>1, <3>2 DEF Latest
  <2>5. Replay(s, data)[l] = s[m + i][l] /\ Replay(ws, data)[l] = ws[i][l]
    BY <1>2, <2>2, <2>4, ReplayLast
  <2> QED
    BY <1>1, <1>2, <1>3, <2>3, <2>5
<1>4. CASE Touching(ws, l) = {}
  <2>1. Touching(s, l) = Touching(us, l)
    <3>1. ASSUME NEW j \in Touching(s, l)
          PROVE  j \in Touching(us, l)
      <4>1. j \in 1 .. (m + n) /\ l \in DOMAIN s[j]
        BY <1>2, <3>1 DEF Touching
      <4>2. j =< m
        <5>1. SUFFICES ASSUME ~ (j =< m) PROVE FALSE
          OBVIOUS
        <5>2. PICK k : k = j - m
          OBVIOUS
        <5>3. k \in 1 .. n /\ j = m + k
          BY <1>2, <4>1, <5>1, <5>2
        <5>4. k \in Touching(ws, l)
          BY <1>2, <4>1, <5>3 DEF Touching
        <5> QED
          BY <1>4, <5>4
      <4>3. j \in 1 .. m
        BY <1>2, <4>1, <4>2
      <4> QED
        BY <1>2, <4>1, <4>3 DEF Touching
    <3>2. ASSUME NEW j \in Touching(us, l)
          PROVE  j \in Touching(s, l)
      <4>1. j \in 1 .. m /\ l \in DOMAIN us[j]
        BY <1>2, <3>2 DEF Touching
      <4>2. j \in 1 .. (m + n)
        BY <1>2, <4>1
      <4> QED
        BY <1>2, <4>1, <4>2 DEF Touching
    <3> QED
      BY <3>1, <3>2
  <2>2. CASE Touching(us, l) = {}
    <3>1. Replay(s, data)[l] = data[l] /\ Replay(us, data)[l] = data[l]
      BY <1>2, <2>1, <2>2, ReplayLast
    <3> QED
      BY <1>1, <1>2, <1>4, <3>1
  <2>3. CASE Touching(us, l) # {}
    <3>1. Touching(us, l) \in SUBSET (1 .. m)
      BY <1>2 DEF Touching
    <3>2. PICK i \in Latest(Touching(us, l)) : TRUE
      BY <1>2, <2>3, <3>1, LatestExists
    <3>3. i \in 1 .. m
      BY <3>1, <3>2 DEF Latest
    <3>4. Replay(s, data)[l] = s[i][l] /\ Replay(us, data)[l] = us[i][l]
      BY <1>2, <2>1, <3>2, ReplayLast
    <3> QED
      BY <1>1, <1>2, <1>4, <3>3, <3>4
  <2> QED
    BY <2>2, <2>3
<1> QED
  BY <1>1, <1>2, <1>3, <1>4

\* The writes that are processed have left l as it is on the server; with those that
\* are not, it is as c shows it.
OwnShown(c, l) == /\ Replay(unheard[c], server)[l] = server[l]
                  /\ Replay(Unacked(c), server)[l] = view[c][l]

LEMMA ReplayAt ==
  ASSUME NEW ws, NEW l \in Leaf, NEW x, NEW y, x[l] = y[l] \/ Touching(ws, l) # {}
  PROVE  Replay(ws, x)[l] = Replay(ws, y)[l]
BY DEF Replay

LEMMA ReplayNone ==
  ASSUME NEW l \in Leaf, NEW x
  PROVE  Replay(<<>>, x)[l] = x[l]
BY DEF Replay, Touching

\* The acknowledgement of the first write.
LEMMA ReplayRest ==
  ASSUME NEW us \in Seq(Write), NEW ws \in Seq(Write), NEW data \in [Leaf -> Value], NEW l \in Leaf,
         NEW us2, us2 = Rest(us), Replay(us, data)[l] = data[l],
         NEW s, Joins(s, us, ws), NEW t, Joins(t, us2, ws)
  PROVE  /\ us2 \in Seq(Write) /\ Replay(us2, data)[l] = data[l]
         /\ Replay(t, data)[l] = Replay(s, data)[l]
<1>1. us2 \in Seq(Write) /\ Replay(us2, data)[l] = data[l]
  <2>1. CASE us = <<>>
    <3>1. us2 = <<>> /\ us2 \in Seq(Write)
      BY <2>1 DEF Rest
    <3>2. Replay(<<>>, data)[l] = data[l]
      BY ReplayNone
    <3> QED
      BY <3>1, <3>2
  <2>2. CASE us # <<>>
    <3>1. PICK h, hs : h = Head(us) /\ hs = <<h>>
      OBVIOUS
    <3>2. h \in Write /\ us2 \in Seq(Write) /\ hs \in Seq(Write)
      BY <2>2, <3>1, HeadTailProperties DEF Rest
    <3>3. Joins(us, hs, us2)
      BY <2>2, <3>1 DEF Joins, Rest
    <3>4. CASE Touching(us2, l) = {}
      BY <3>2, <3>4 DEF Replay
    <3>5. CASE Touching(us2, l) # {}
      <4>1. Replay(us, data)[l] = Replay(us2, data)[l]
        <5>1. \A W, V \in Seq(Write) :
                Joins(us, V, W) /\ Touching(W, l) # {} => Replay(us, data)[l] = Replay(W, data)[l]
          BY ReplayConcat
        <5> QED
          BY <3>2, <3>3, <3>5, <5>1
      <4> QED
        BY <3>2, <4>1
    <3> QED
      BY <3>2, <3>4, <3>5
  <2> QED
    BY <2>1, <2>2
<1>2. CASE Touching(ws, l) = {}
  <2>1. Replay(t, data)[l] = Replay(us2, data)[l]
    BY <1>1, <1>2, ReplayConcat
  <2>2. Replay(s, data)[l] = Replay(us, data)[l]
    BY <1>2, ReplayConcat
  <2> QED
    BY <1>1, <2>1, <2>2
<1>3. CASE Touching(ws, l) # {}
  <2>1. Replay(t, data)[l] = Replay(ws, data)[l]
    BY <1>1, <1>3, ReplayConcat
  <2>2. Replay(s, data)[l] = Replay(ws, data)[l]
    BY <1>3, ReplayConcat
  <2> QED
    BY <1>1, <2>1, <2>2
<1> QED
  BY <1>1, <1>2, <1>3

\* What c shows of l changes by its own writes alone, or as the app starts again.
LEMMA OwnViewStep ==
  ASSUME TypeOK, NEW P, SentOnly(P), NEW c \in Client, NEW l \in Listens[c], l \in Leaf,
         \A d \in Client \ {c} : \A w \in P[d] : l \notin DOMAIN w,
         OwnShown(c, l), NEW b \in Client
  PROVE  /\ \A w \in P[b] : LocalWrite(b, w) =>
              view'[c][l] = IF b = c /\ l \in DOMAIN w THEN w[l] ELSE view[c][l]
         /\ Commit(b) \/ Deliver(b) \/ Reconnect(b) => view'[c][l] = view[c][l]
         /\ Restart(b) => view'[c][l] = IF b = c THEN server[l] ELSE view[c][l]
<1>1. view \in [Client -> [Leaf -> Value]]
  BY DEF TypeOK
<1>2. ASSUME NEW w \in P[b], LocalWrite(b, w)
      PROVE  view'[c][l] = IF b = c /\ l \in DOMAIN w THEN w[l] ELSE view[c][l]
  BY <1>1, <1>2 DEF LocalWrite, Mirror, Overlay
<1>3. ASSUME Commit(b)
      PROVE  view'[c][l] = view[c][l]
  BY <1>3 DEF Commit
<1>4. ASSUME Deliver(b)
      PROVE  view'[c][l] = view[c][l]
  <2>1. /\ \A d \in Client \ {b} : view'[d] = view[d]
        /\ \E d \in Client : \E w \in P[d] :
             \A m \in Leaf : view'[b][m] # view[b][m] =>
                               d # b /\ m \in DOMAIN w /\ view'[b][m] = w[m]
    BY <1>4, DeliverShows
  <2> QED
    BY <2>1
<1>5. ASSUME Reconnect(b)
      PROVE  view'[c][l] = view[c][l]
  BY <1>1, <1>5 DEF Reconnect, Mirror, OwnShown
<1>6. ASSUME Restart(b)
      PROVE  view'[c][l] = IF b = c THEN server[l] ELSE view[c][l]
  BY <1>1, <1>6 DEF Restart, Mirror
<1> QED
  BY <1>2, <1>3, <1>4, <1>5, <1>6

LEMMA OwnShownStep ==
  ASSUME TypeOK, NEW P, SentOnly(P), NEW c \in Client, NEW l \in Listens[c], l \in Leaf,
         \A d \in Client \ {c} : \A w \in P[d] : l \notin DOMAIN w,
         OwnShown(c, l), NEW b \in Client,
         \/ \E w \in P[b] : w \in Write /\ LocalWrite(b, w)
         \/ Commit(b) \/ Deliver(b) \/ Reconnect(b) \/ Restart(b)
  PROVE  OwnShown(c, l)'
<1>1. PICK U, Q, S, v : U = unheard[c] /\ Q = pending[c] /\ S = server /\ v = view[c][l]
  OBVIOUS
<1>2. /\ U \in Seq(Write) /\ Q \in Seq(Write) /\ S \in [Leaf -> Value]
      /\ unheard = [d \in Client |-> unheard[d]] /\ pending = [d \in Client |-> pending[d]]
      /\ inbox = [d \in Client |-> inbox[d]]
  BY <1>1 DEF TypeOK
<1>3. Replay(U, S)[l] = S[l] /\ Replay(U \o Q, S)[l] = v
  BY <1>1 DEF OwnShown, Unacked
<1>4. SUFFICES ASSUME NEW U2, U2 = unheard'[c], NEW Q2, Q2 = pending'[c], NEW S2, S2 = server',
                      NEW v2, v2 = view'[c][l]
               PROVE  Replay(U2, S2)[l] = S2[l] /\ Replay(U2 \o Q2, S2)[l] = v2
  BY <1>4 DEF OwnShown, Unacked
<1>5. ASSUME NEW w \in P[b], w \in Write, LocalWrite(b, w)
      PROVE  Replay(U2, S2)[l] = S2[l] /\ Replay(U2 \o Q2, S2)[l] = v2
  <2>1. v2 = IF b = c /\ l \in DOMAIN w THEN w[l] ELSE v
    BY <1>1, <1>4, <1>5, OwnViewStep
  <2>2. U2 = U /\ S2 = S /\ Q2 = IF b = c THEN Append(Q, w) ELSE Q
    BY <1>1, <1>2, <1>4, <1>5 DEF LocalWrite
  <2>3. CASE b # c
    BY <1>3, <2>1, <2>2, <2>3
  <2>4. CASE b = c
    <3>1. PICK W : W = U \o Q
      OBVIOUS
    <3>2. W \in Seq(Write) /\ U2 \o Q2 = Append(W, w)
      BY <1>2, <1>5, <2>2, <2>4, <3>1
    <3>3. Replay(Append(W, w), S)[l] = IF l \in DOMAIN w THEN w[l] ELSE Replay(W, S)[l]
      BY <1>2, <1>5, <3>2, ReplayAppend
    <3> QED
      BY <1>3, <2>1, <2>2, <2>4, <3>1, <3>2, <3>3
  <2> QED
    BY <2>3, <2>4
<1>6. ASSUME Commit(b)
      PROVE  Replay(U2, S2)[l] = S2[l] /\ Replay(U2 \o Q2, S2)[l] = v2
  <2>1. v2 = v
    BY <1>1, <1>4, <1>6, OwnViewStep
  <2>2. PICK w, A : w = Head(pending[b]) /\ A = pending[b]
    OBVIOUS
  <2>3. A # <<>> /\ A \in Seq(Write) /\ w \in Write /\ w \in P[b] /\ w = Head(A)
    <3>1. A # <<>> /\ A \in Seq(Write) /\ A \in Seq(P[b])
      BY <1>6, <2>2 DEF Commit, TypeOK, SentOnly
    <3> QED
      BY <2>2, <3>1, HeadTailProperties
  <2>4. S2 = Overlay(w, S)
    BY <1>1, <1>4, <1>6, <2>2 DEF Commit
  <2>5. S2[l] = (IF l \in DOMAIN w THEN w[l] ELSE S[l]) /\ S2 \in [Leaf -> Value]
    BY <1>2, <2>3, <2>4, OverlayType DEF Overlay
  <2>6. CASE b # c
    <3>1. S2[l] = S[l] /\ U2 = U /\ Q2 = Q
      BY <1>1, <1>2, <1>4, <1>6, <2>3, <2>5, <2>6 DEF Commit
    <3> QED
      BY <1>3, <2>1, <3>1, ReplayAt
  <2>7. CASE b = c
    <3>1. U2 = Append(U, w) /\ Q2 = Tail(Q) /\ A = Q
      BY <1>1, <1>2, <1>4, <1>6, <2>2, <2>7 DEF Commit
    <3>2. Replay(U2, S2)[l] = S2[l]
      <4>1. Replay(Append(U, w), S2)[l] = IF l \in DOMAIN w THEN w[l] ELSE Replay(U, S2)[l]
        BY <1>2, <2>3, <2>5, ReplayAppend
      <4>2. l \notin DOMAIN w => Replay(U, S2)[l] = S[l]
        BY <1>3, <2>5, ReplayAt
      <4> QED
        BY <2>5, <3>1, <4>1, <4>2
    <3>3. U2 \o Q2 = U \o Q
      BY <1>2, <2>3, <3>1
    <3>4. l \in DOMAIN w => Touching(U \o Q, l) # {}
      <4>1. Len(U) + 1 \in DOMAIN (U \o Q) /\ (U \o Q)[Len(U) + 1] = w
        BY <1>2, <2>3, <3>1
      <4> QED
        BY <4>1 DEF Touching
    <3>5. Replay(U \o Q, S2)[l] = Replay(U \o Q, S)[l]
      BY <2>5, <3>4, ReplayAt
    <3> QED
      BY <1>3, <2>1, <3>2, <3>3, <3>5
  <2> QED
    BY <2>6, <2>7
<1>7. ASSUME Deliver(b)
      PROVE  Replay(U2, S2)[l] = S2[l] /\ Replay(U2 \o Q2, S2)[l] = v2
  <2>1. v2 = v
    BY <1>1, <1>4, <1>7, OwnViewStep
  <2>2. S2 = S /\ Q2 = Q /\ (U2 = U \/ U2 = Rest(U))
    BY <1>1, <1>2, <1>4, <1>7 DEF Deliver, Rest
  <2>3. CASE U2 = U
    BY <1>3, <2>1, <2>2, <2>3
  <2>4. CASE U2 = Rest(U)
    <3>1. PICK s, t : s = U \o Q /\ t = U2 \o Q
      OBVIOUS
    <3>2. Replay(U, S)[l] = S[l] /\ Replay(s, S)[l] = v
      BY <1>3, <3>1
    <3>3. Replay(U2, S)[l] = S[l] /\ Replay(t, S)[l] = Replay(s, S)[l]
      <4>1. Joins(s, U, Q) /\ Joins(t, U2, Q)
        BY <3>1 DEF Joins
      <4>2. Replay(U, S)[l] = S[l]
        BY <3>2
      <4> QED
        BY <1>2, <2>4, <4>1, <4>2, ReplayRest
    <3> QED
      BY <2>1, <2>2, <3>1, <3>2, <3>3
  <2> QED
    BY <2>2, <2>3, <2>4
<1>8. ASSUME Reconnect(b)
      PROVE  Replay(U2, S2)[l] = S2[l] /\ Replay(U2 \o Q2, S2)[l] = v2
  <2>1. v2 = v /\ S2 = S
    BY <1>1, <1>4, <1>8, OwnViewStep DEF Reconnect
  <2>2. CASE b # c
    <3>1. U2 = U /\ Q2 = Q
      BY <1>1, <1>2, <1>4, <1>8, <2>2 DEF Reconnect
    <3> QED
      BY <1>3, <2>1, <3>1
  <2>3. CASE b = c
    <3>1. U2 = <<>> /\ Q2 = U \o Q
      BY <1>1, <1>2, <1>4, <1>8, <2>3 DEF Reconnect, Unacked
    <3>2. U2 \o Q2 = U \o Q
      BY <1>2, <3>1, ConcatEmptySeq, ConcatProperties
    <3> QED
      BY <1>3, <2>1, <3>1, <3>2, ReplayNone
  <2> QED
    BY <2>2, <2>3
<1>9. ASSUME Restart(b)
      PROVE  Replay(U2, S2)[l] = S2[l] /\ Replay(U2 \o Q2, S2)[l] = v2
  <2>1. v2 = (IF b = c THEN S[l] ELSE v) /\ S2 = S
    <3>1. view'[c][l] = IF b = c THEN server[l] ELSE view[c][l]
      BY <1>9, OwnViewStep
    <3> QED
      BY <1>1, <1>4, <1>9, <3>1 DEF Restart
  <2>2. CASE b # c
    <3>1. U2 = U /\ Q2 = Q
      BY <1>1, <1>2, <1>4, <1>9, <2>2 DEF Restart
    <3> QED
      BY <1>3, <2>1, <2>2, <3>1
  <2>3. CASE b = c
    <3>1. U2 = <<>> /\ Q2 = <<>> /\ <<>> \o <<>> = <<>>
      BY <1>1, <1>2, <1>4, <1>9, <2>3, ConcatEmptySeq DEF Restart
    <3> QED
      BY <2>1, <2>3, <3>1, ReplayNone
  <2> QED
    BY <2>2, <2>3
<1> QED
  BY <1>5, <1>6, <1>7, <1>8, <1>9

LEMMA OwnShownInit ==
  ASSUME Init, NEW c \in Client, NEW l \in Leaf
  PROVE  OwnShown(c, l)
<1>1. unheard[c] = <<>> /\ pending[c] = <<>> /\ view[c][l] = server[l]
  BY DEF Init
<1>2. Unacked(c) = <<>>
  BY <1>1, ConcatEmptySeq DEF Unacked
<1> QED
  BY <1>1, <1>2, ReplayNone DEF OwnShown
=============================================================================
