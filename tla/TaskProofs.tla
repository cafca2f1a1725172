----------------------------- MODULE TaskProofs -----------------------------
(***************************************************************************)
(* Proofs about what the app writes of a task: that an assignment and a    *)
(* completion, which look the request up by its name, fall on the request  *)
(* that was meant, as long as no two requests share a name; and about the  *)
(* lists it extends by reading them and writing them back whole, the       *)
(* activity log and the grades of an account: what one device alone enters *)
(* in a list is not lost, and a log only grows, when users wait for the    *)
(* app to come to rest.                                                    *)
(***************************************************************************)
EXTENDS ElderisticProofs

\* What the proofs below refer to of the history, as one value: h, or g later on.
Past == [issued |-> issued, chosen |-> chosen, accepted |-> accepted]

\* No two requests were ever given the same name, and none the empty one.
ToldApart(h) ==
  \A i \in DOMAIN h.issued :
     /\ h.issued[i].name # NoName
     /\ \A j \in DOMAIN h.issued : h.issued[j].name = h.issued[i].name => j = i

WasAccepted(k, h) == \E v \in Volunteers : <<k, v>> \in h.accepted

\* A heading is that of the request as it was filed; a status is explained.
Fits(l, x, h) ==
  /\ (l[2] = "request" /\ x # Absent) => l[1] \in DOMAIN h.issued /\ x = h.issued[l[1]]
  /\ (l[2] = "status" /\ l[1] \in Key /\ x = Scheduled) => WasAccepted(l[1], h)
  /\ (l[2] = "status" /\ l[1] \in Key /\ x = Finished /\ ToldApart(h)) => WasAccepted(l[1], h)

Right(h) == [l \in Leaf |-> {x \in Value : Fits(l, x, h)}]

\* A row, and a screen opened from it, are about the request their key says.
RowFits(r, h) ==
  r.key \in Key => /\ r.request # Absent =>
                        r.key \in DOMAIN h.issued /\ r.request = h.issued[r.key]
                   /\ r.status = Scheduled => WasAccepted(r.key, h)

ScreenFits(d, s, h) ==
  /\ s.key = NoKey => s.name = NoName
  /\ s.key \in Key => /\ s.key \in DOMAIN h.issued /\ s.name = h.issued[s.key].name
                      /\ s.status # Absent
                      /\ s.status = Scheduled => WasAccepted(s.key, h)
                      /\ (d \in Volunteers /\ s.page = "rate") => s.status = Scheduled

\* An update by name is about a request that was chosen, or accepted.
Means(n, puts, h) ==
  n = NoName \/ \E k \in DOMAIN h.issued :
                   /\ n = h.issued[k].name
                   /\ \A v \in Volunteers :
                        puts = << <<"status", Registered>>, <<"volunteer", v>> >> => <<k, v>> \in h.chosen
                   /\ puts = << <<"status", Finished>> >> => WasAccepted(k, h)

CallFits(c, h) == /\ c.op = "write" => \A l \in DOMAIN c.put : Fits(l, c.put[l], h)
                  /\ c.op = "find" => Means(c.name, c.puts, h)
AllFit(q, h) == \A i \in DOMAIN q : CallFits(q[i], h)

LocalFits(d, h) == /\ \A r \in rows[d] : RowFits(r, h)
                   /\ \A r \in found[d].rows : RowFits(r, h)
                   /\ ScreenFits(d, screen[d], h)
                   /\ AllFit(calls[d], h)

\* History at the start.
AtStart == [issued |-> [i \in DOMAIN Filed |-> [elder |-> Filed[i].elder, name |-> Filed[i].name]],
            chosen |-> TakenAtStart, accepted |-> TakenAtStart]

\* What came later: more was chosen and accepted, requests were filed.
Later(h, g) == /\ h.chosen \subseteq g.chosen /\ h.accepted \subseteq g.accepted
               /\ \A k \in DOMAIN h.issued : k \in DOMAIN g.issued /\ g.issued[k] = h.issued[k]

TaskInv == /\ Later(AtStart, Past)
           /\ M!HoldsOnly(Right(Past))
           /\ \A d \in Device : LocalFits(d, Past)
           /\ ToldApart(Past) => assigned \subseteq chosen

-----------------------------------------------------------------------------
(* History only grows, and what fits goes on fitting.                      *)

LEMMA ToldApartBefore ==
  ASSUME NEW h, NEW g, Later(h, g), ToldApart(g)
  PROVE  ToldApart(h)
BY DEF Later, ToldApart

LEMMA FitsLater ==
  ASSUME NEW h, NEW g, Later(h, g), NEW l, NEW x, Fits(l, x, h)
  PROVE  Fits(l, x, g)
BY ToldApartBefore DEF Later, Fits, WasAccepted

LEMMA MeansLater ==
  ASSUME NEW h, NEW g, Later(h, g), NEW n, NEW puts, Means(n, puts, h)
  PROVE  Means(n, puts, g)
<1>1. CASE n = NoName
  BY <1>1 DEF Means
<1>2. CASE n # NoName
  <2>1. PICK k \in DOMAIN h.issued :
          /\ n = h.issued[k].name
          /\ \A v \in Volunteers :
               puts = << <<"status", Registered>>, <<"volunteer", v>> >> => <<k, v>> \in h.chosen
          /\ puts = << <<"status", Finished>> >> => WasAccepted(k, h)
    BY <1>2 DEF Means
  <2>2. /\ k \in DOMAIN g.issued /\ n = g.issued[k].name
        /\ \A v \in Volunteers :
             puts = << <<"status", Registered>>, <<"volunteer", v>> >> => <<k, v>> \in g.chosen
        /\ puts = << <<"status", Finished>> >> => WasAccepted(k, g)
    BY <2>1 DEF Later, WasAccepted
  <2> QED
    BY <2>2 DEF Means
<1> QED
  BY <1>1, <1>2

LEMMA LocalLater ==
  ASSUME NEW h, NEW g, Later(h, g)
  PROVE  /\ \A r : RowFits(r, h) => RowFits(r, g)
         /\ \A d, s : ScreenFits(d, s, h) => ScreenFits(d, s, g)
         /\ \A q : AllFit(q, h) => AllFit(q, g)
<1>1. \A k : WasAccepted(k, h) => WasAccepted(k, g)
  BY DEF Later, WasAccepted
<1>2. ASSUME NEW c, CallFits(c, h)
      PROVE  CallFits(c, g)
  <2>1. c.op = "write" => \A l \in DOMAIN c.put : Fits(l, c.put[l], g)
    <3> SUFFICES ASSUME c.op = "write", NEW l \in DOMAIN c.put
                 PROVE  Fits(l, c.put[l], g)
      OBVIOUS
    <3>1. PICK x : x = c.put[l]
      OBVIOUS
    <3>2. Fits(l, x, h)
      BY <1>2, <3>1 DEF CallFits
    <3>3. Fits(l, x, g)
      BY <3>2, FitsLater
    <3> QED
      BY <3>1, <3>3
  <2>2. c.op = "find" => Means(c.name, c.puts, g)
    <3>1. PICK n, p : n = c.name /\ p = c.puts
      OBVIOUS
    <3>2. c.op = "find" => Means(n, p, h)
      BY <1>2, <3>1 DEF CallFits
    <3>3. c.op = "find" => Means(n, p, g)
      BY <3>2, MeansLater
    <3> QED
      BY <3>1, <3>3
  <2> QED
    BY <2>1, <2>2 DEF CallFits
<1>3. \A q : AllFit(q, h) => AllFit(q, g)
  BY <1>2 DEF AllFit
<1>4. \A r : RowFits(r, h) => RowFits(r, g)
  BY <1>1 DEF RowFits, Later
<1>5. \A d, s : ScreenFits(d, s, h) => ScreenFits(d, s, g)
  BY <1>1 DEF ScreenFits, Later
<1> QED
  BY <1>3, <1>4, <1>5

LEMMA RightLater ==
  ASSUME NEW h, NEW g, Later(h, g)
  PROVE  \A l \in Leaf : Right(h)[l] \subseteq Right(g)[l]
BY FitsLater DEF Right

LEMMA LaterStill ==
  ASSUME NEW h, NEW g, NEW i, Later(h, g), Later(g, i)
  PROVE  Later(h, i)
BY DEF Later

-----------------------------------------------------------------------------
(* What a write must be to fit.                                            *)

LEMMA RightFits ==
  ASSUME NEW h, NEW v, \A l \in Leaf : v[l] \in Right(h)[l]
  PROVE  \A l \in Leaf : Fits(l, v[l], h)
BY DEF Right

LEMMA WriteFits ==
  ASSUME NEW h, NEW w \in M!Write, \A l \in DOMAIN w : Fits(l, w[l], h)
  PROVE  w \in M!WritesOf(Right(h))
<1>1. \A l \in DOMAIN w : l \in Leaf /\ w[l] \in Value
  BY DEF M!Write
<1> QED
  BY <1>1 DEF Right, M!WritesOf

LEMMA RightWrites ==
  ASSUME NEW h, NEW w \in M!WritesOf(Right(h))
  PROVE  \A l \in DOMAIN w : Fits(l, w[l], h)
BY DEF Right, M!WritesOf, M!Write

\* Values that need no explanation.
LEMMA PlainFits ==
  ASSUME NEW h, NEW l, NEW x,
         \/ x = Absent
         \/ l[2] \notin {"request", "status"}
         \/ l[2] = "status" /\ x \in {Active, Registered}
  PROVE  Fits(l, x, h)
<1>1. /\ Absent # Scheduled /\ Absent # Finished /\ Active # Scheduled /\ Active # Finished
      /\ Registered # Scheduled /\ Registered # Finished
  BY SchemaAssumption DEF Status, Active, Registered, Scheduled, Finished
<1> QED
  BY <1>1 DEF Fits

LEMMA BlankFits == \A l \in Leaf : Blank[l] \in Right(AtStart)[l]
<1> SUFFICES ASSUME NEW l \in Leaf
             PROVE  Fits(l, Blank[l], AtStart)
  BY BlankKnown, KnownTypes DEF Right
<1>1. CASE l[2] \notin {"request", "status"}
  BY <1>1, PlainFits
<1>2. CASE l[2] \in {"request", "status"} /\ l[1] \notin DOMAIN Filed
  <2>1. Blank[l] = Absent
    BY <1>2 DEF Blank, ListField, RequestField
  <2> QED
    BY <2>1, PlainFits
<1>3. CASE l[2] = "request" /\ l[1] \in DOMAIN Filed
  <2>1. Blank[l] = [elder |-> Filed[l[1]].elder, name |-> Filed[l[1]].name]
    BY <1>3 DEF Blank, ListField, RequestField, FiledField
  <2> QED
    BY <1>3, <2>1 DEF Fits, AtStart
<1>4. CASE l[2] = "status" /\ l[1] \in DOMAIN Filed
  <2>1. Blank[l] = Filed[l[1]].status
    BY <1>4 DEF Blank, ListField, RequestField, FiledField
  <2>2. PICK k \in DOMAIN Filed : k = l[1]
    BY <1>4
  <2>3. Filed[k].status = Scheduled => WasAccepted(k, AtStart)
    <3>1. Filed[k].status = Scheduled => Filed[k].volunteer \in Volunteers
      BY FiledTypes, TakenTypes DEF Active, Scheduled
    <3>2. Filed[k].status = Scheduled => <<k, Filed[k].volunteer>> \in TakenAtStart
      BY DEF TakenAtStart, Taken
    <3> QED
      BY <3>1, <3>2 DEF WasAccepted, AtStart
  <2>4. Filed[k].status # Finished
    BY FiledTypes DEF Active, Scheduled, Finished
  <2> QED
    BY <1>4, <2>1, <2>2, <2>3, <2>4 DEF Fits
<1> QED
  BY <1>1, <1>2, <1>3, <1>4

\* What the mirrors do in a step when devices write only values of K.
Writing(K) == \/ \E d \in Device, w \in M!WritesOf(K) : Sync!LocalWrite(d, w)
              \/ \E d \in Device : \/ Sync!Commit(d) \/ Sync!Deliver(d)
                                   \/ Sync!Reconnect(d) \/ Sync!Restart(d)
              \/ UNCHANGED syncVars

LEMMA WritingHolds ==
  ASSUME AppInv, NEW K, \A l \in Leaf : Blank[l] \in K[l], M!HoldsOnly(K), Writing(K)
  PROVE  M!HoldsOnly(K)'
<1>1. M!TypeOK
  BY DEF AppInv, MirrorInv, M!IInv
<1>2. ASSUME NEW d \in Device, NEW w \in M!WritesOf(K), Sync!LocalWrite(d, w)
      PROVE  M!HoldsOnly(K)'
  <2>1. M!LocalWrite(d, w)
    BY <1>2, SyncActions
  <2> QED
    BY <1>1, <2>1, MirrorAssumptions, M!LocalWriteHoldsOnly
<1>3. ASSUME NEW d \in Device, Sync!Commit(d)
      PROVE  M!HoldsOnly(K)'
  BY <1>1, <1>3, SyncActions, MirrorAssumptions, M!CommitHoldsOnly
<1>4. ASSUME NEW d \in Device, Sync!Deliver(d)
      PROVE  M!HoldsOnly(K)'
  BY <1>1, <1>4, SyncActions, MirrorAssumptions, M!DeliverHoldsOnly
<1>5. ASSUME NEW d \in Device, Sync!Reconnect(d)
      PROVE  M!HoldsOnly(K)'
  BY <1>1, <1>5, SyncActions, MirrorAssumptions, M!ReconnectHoldsOnly
<1>6. ASSUME NEW d \in Device, Sync!Restart(d)
      PROVE  M!HoldsOnly(K)'
  BY <1>1, <1>6, SyncActions, MirrorAssumptions, M!RestartHoldsOnly
<1>7. CASE UNCHANGED syncVars
  BY <1>7 DEF syncVars, M!HoldsOnly
<1> QED
  BY <1>2, <1>3, <1>4, <1>5, <1>6, <1>7 DEF Writing

-----------------------------------------------------------------------------
(* What a device derives from its view.                                    *)

LEMMA RowForFits ==
  ASSUME NEW h, NEW v, \A l \in Leaf : v[l] \in Right(h)[l], NEW k \in Key, NEW key \in {k, NoKey}
  PROVE  RowFits(RowFor(v, k, key), h)
<1>1. PICK r : r = RowFor(v, k, key)
  OBVIOUS
<1>2. r.key = key /\ r.request = v[<<k, "request">>] /\ r.status = v[<<k, "status">>]
  BY <1>1 DEF RowFor, Request, StatusOf
<1>3. <<k, "request">> \in Leaf /\ <<k, "status">> \in Leaf
  BY Leaves DEF RequestField
<1>4. Fits(<<k, "request">>, r.request, h) /\ Fits(<<k, "status">>, r.status, h)
  BY <1>2, <1>3, RightFits
<1>5. r.key \in Key => r.key = k
  BY <1>2, KeyTypes
<1> QED
  BY <1>1, <1>4, <1>5 DEF RowFits, Fits

LEMMA FetchedFit ==
  ASSUME NEW h, NEW v, \A l \in Leaf : v[l] \in Right(h)[l], NEW d
  PROVE  \A r \in Fetched(d, v) : RowFits(r, h)
BY RowForFits DEF Fetched

LEMMA RowsAfterFit ==
  ASSUME NEW h, NEW new, \A l \in Leaf : new[l] \in Right(h)[l], NEW old, NEW d,
         NEW R, R \subseteq Row, \A r \in R : RowFits(r, h)
  PROVE  \A r \in RowsAfter(d, R, old, new) : RowFits(r, h)
<1>1. \A r \in Appended(d, old, new) : RowFits(r, h)
  BY RowForFits DEF Appended
<1>2. ASSUME NEW r \in Kept(d, R, old, new)
      PROVE  RowFits(r, h)
  <2>1. PICK q \in R : r = q \/ (q.key # NoKey /\ r = RowFor(new, q.key, NoKey))
    BY <1>2 DEF Kept
  <2>2. q.key \in Key \cup {NoKey}
    BY DEF Row
  <2> QED
    BY <2>1, <2>2, RowForFits
<1> QED
  BY <1>1, <1>2 DEF RowsAfter

LEMMA ScreenAfterFits ==
  ASSUME NEW h, NEW d, NEW s \in ScreenType, ScreenFits(d, s, h), NEW v
  PROVE  ScreenFits(d, ScreenAfter(d, s, v), h)
<1>1. PICK t : t = ScreenAfter(d, s, v)
  OBVIOUS
<1>2. t.key = s.key /\ t.name = s.name /\ t.status = s.status /\ t.page = s.page
  BY <1>1 DEF ScreenAfter, ScreenType
<1> QED
  BY <1>1, <1>2 DEF ScreenFits

LEMMA EmptyScreensFit ==
  ASSUME NEW h, NEW d, NEW s \in {NoScreen, BlankDetails, LoginScreen}
  PROVE  ScreenFits(d, s, h)
<1>1. s.key = NoKey /\ s.name = NoName
  BY DEF NoScreen, BlankDetails, LoginScreen, Screen
<1> QED
  BY <1>1, KeyTypes DEF ScreenFits

\* A screen opened from a complete row.
LEMMA OpenedFits ==
  ASSUME NEW h, NEW d, NEW r \in Row, RowFits(r, h), Complete(r), NEW p
  PROVE  ScreenFits(d, Screen("details", r.key, r.request.name, r.status, p, FALSE), h)
<1>1. PICK s : s = Screen("details", r.key, r.request.name, r.status, p, FALSE)
  OBVIOUS
<1>2. s.key = r.key /\ s.name = r.request.name /\ s.status = r.status /\ s.page = "details"
  BY <1>1 DEF Screen
<1>3. r.key \in Key /\ r.request # Absent /\ r.status # Absent
  BY DEF Row, Complete
<1> QED
  BY <1>1, <1>2, <1>3, KeyTypes DEF ScreenFits, RowFits

-----------------------------------------------------------------------------
(* The queue of callbacks.                                                 *)

LEMMA JoinFits ==
  ASSUME NEW C, NEW p \in Seq(C), NEW q \in Seq(C), NEW h, AllFit(p, h), AllFit(q, h)
  PROVE  AllFit(p \o q, h) /\ p \o q \in Seq(C)
<1>1. p \o q \in Seq(C) /\ Len(p \o q) = Len(p) + Len(q) /\ Len(p) \in Nat /\ Len(q) \in Nat
  BY ConcatProperties
<1>2. ASSUME NEW i \in DOMAIN (p \o q)
      PROVE  CallFits((p \o q)[i], h)
  <2>1. i \in 1 .. Len(p) + Len(q)
    BY <1>1
  <2>2. CASE i =< Len(p)
    <3>1. (p \o q)[i] = p[i] /\ i \in DOMAIN p
      BY <1>1, <2>1, <2>2
    <3> QED
      BY <3>1 DEF AllFit
  <2>3. CASE i > Len(p)
    <3>1. (p \o q)[i] = q[i - Len(p)] /\ i - Len(p) \in DOMAIN q
      BY <1>1, <2>1, <2>3
    <3> QED
      BY <3>1 DEF AllFit
  <2> QED
    BY <1>1, <2>1, <2>2, <2>3
<1> QED
  BY <1>1, <1>2 DEF AllFit

LEMMA PartsFit ==
  ASSUME NEW C, NEW q \in Seq(C), NEW h, AllFit(q, h), NEW i \in DOMAIN q
  PROVE  /\ AllFit(SubSeq(q, 1, i - 1), h) /\ AllFit(SubSeq(q, i + 1, Len(q)), h)
         /\ AllFit(RemoveAt(q, i), h)
<1>1. Len(q) \in Nat /\ i \in 1 .. Len(q) /\ \A j \in 1 .. Len(q) : CallFits(q[j], h)
  BY DEF AllFit
<1>2. PICK a, b : a = SubSeq(q, 1, i - 1) /\ b = SubSeq(q, i + 1, Len(q))
  OBVIOUS
<1>3. a \in Seq(C) /\ b \in Seq(C)
  BY <1>2, RemovedKnown
<1>4. AllFit(a, h)
  <2>1. ASSUME NEW j \in DOMAIN a
        PROVE  CallFits(a[j], h)
    <3>1. Len(a) = i - 1 /\ j \in 1 .. i - 1 /\ a[j] = q[j]
      BY <1>1, <1>2, <2>1, SubSeqProperties
    <3>2. j \in 1 .. Len(q)
      BY <1>1, <3>1
    <3> QED
      BY <1>1, <3>1, <3>2
  <2> QED
    BY <2>1 DEF AllFit
<1>5. AllFit(b, h)
  <2>1. ASSUME NEW j \in DOMAIN b
        PROVE  CallFits(b[j], h)
    <3>1. DOMAIN b = 1 .. Len(q) - i /\ j \in 1 .. Len(q) - i /\ b[j] = q[i + j]
      BY <1>1, <1>2, <2>1
    <3>2. i + j \in 1 .. Len(q)
      BY <1>1, <3>1
    <3> QED
      BY <1>1, <3>1, <3>2
  <2> QED
    BY <2>1 DEF AllFit
<1>6. AllFit(RemoveAt(q, i), h)
  BY <1>2, <1>3, <1>4, <1>5, JoinFits DEF RemoveAt
<1> QED
  BY <1>2, <1>4, <1>5, <1>6

LEMMA FitIsType ==
  ASSUME NEW C, NEW q \in Seq(C), NEW h
  PROVE  AllFit(q, h) <=> q \in Seq({c \in C : CallFits(c, h)})
<1> DEFINE F == {c \in C : CallFits(c, h)}
<1>1. Len(q) \in Nat /\ DOMAIN q = 1 .. Len(q) /\ \A i \in 1 .. Len(q) : q[i] \in C
  OBVIOUS
<1>2. ASSUME AllFit(q, h)
      PROVE  q \in Seq(F)
  <2>1. \A i \in 1 .. Len(q) : q[i] \in F
    BY <1>1, <1>2 DEF AllFit
  <2>2. q \in [1 .. Len(q) -> F]
    <3> HIDE DEF F
    <3> QED
      BY <1>1, <2>1
  <2> HIDE DEF F
  <2> QED
    BY <1>1, <2>2
<1>3. ASSUME q \in Seq(F)
      PROVE  AllFit(q, h)
  <2>1. \A i \in 1 .. Len(q) : q[i] \in F
    <3> HIDE DEF F
    <3> QED
      BY <1>3
  <2> QED
    BY <1>1, <2>1 DEF AllFit
<1> QED
  BY <1>2, <1>3

LEMMA PoppedFit ==
  ASSUME NEW C, NEW q \in Seq(C), NEW h, AllFit(q, h)
  PROVE  AllFit(Popped(q), h)
<1>1. PICK F : F = {c \in C : CallFits(c, h)}
  OBVIOUS
<1>2. q \in Seq(F) /\ Popped(q) \in Seq(C)
  BY <1>1, FitIsType, PoppedKnown
<1>3. Popped(q) \in Seq(F)
  BY <1>2, PoppedKnown
<1> QED
  BY <1>1, <1>2, <1>3, FitIsType

LEMMA RatingEventsFit ==
  ASSUME NEW d, NEW old, NEW new, NEW h
  PROVE  AllFit(RatingEvents(d, old, new), h)
<1>1. PICK q : q = RatingEvents(d, old, new)
  OBVIOUS
<1>2. \A j \in DOMAIN q : q[j].op = "rate"
  BY <1>1 DEF RatingEvents
<1> QED
  BY <1>1, <1>2 DEF AllFit, CallFits

-----------------------------------------------------------------------------
(* The shapes of a step of device d.                                       *)

\* What d has goes on fitting.
LEMMA FitStays ==
  ASSUME AppInv, TaskInv, NEW d \in Device, NEW g, Later(Past, g)
  PROVE  /\ rows = [rows EXCEPT ![d] = rows[d]] /\ rows[d] \subseteq Row
         /\ \A r \in rows[d] : RowFits(r, g)
         /\ found = [found EXCEPT ![d] = found[d]] /\ found[d].rows \subseteq Row
         /\ \A r \in found[d].rows : RowFits(r, g)
         /\ screen = [screen EXCEPT ![d] = screen[d]] /\ screen[d] \in ScreenType
         /\ ScreenFits(d, screen[d], g)
         /\ calls = [calls EXCEPT ![d] = calls[d]] /\ AllFit(calls[d], g)
         /\ calls[d] \in Seq(CallsFor(Len(watches[d]), Allowed(accepted, assigned)))
<1>1. LocalAt(d) /\ PerDevice /\ LocalFits(d, Past)
  BY DEF AppInv, TaskInv
<1>2. PICK h : h = Past
  OBVIOUS
<1>3. /\ \A r \in rows[d] : RowFits(r, g)
      /\ \A r \in found[d].rows : RowFits(r, g)
      /\ ScreenFits(d, screen[d], g) /\ AllFit(calls[d], g)
  BY <1>1, <1>2, LocalLater DEF LocalFits
<1>4. /\ rows = [rows EXCEPT ![d] = rows[d]] /\ found = [found EXCEPT ![d] = found[d]]
      /\ screen = [screen EXCEPT ![d] = screen[d]] /\ calls = [calls EXCEPT ![d] = calls[d]]
  BY <1>1 DEF PerDevice
<1> QED
  BY <1>1, <1>3, <1>4 DEF LocalAt, RowsFor, ScreensFor

LEMMA FitStep ==
  ASSUME AppInv, TaskInv, NEW d \in Device, NEW h, h = Past', Later(Past, h), Writing(Right(h)),
         ToldApart(h) => assigned' \subseteq chosen',
         NEW R, rows' = [rows EXCEPT ![d] = R], \A r \in R : RowFits(r, h),
         NEW f, found' = [found EXCEPT ![d] = f], \A r \in f.rows : RowFits(r, h),
         NEW s, screen' = [screen EXCEPT ![d] = s], ScreenFits(d, s, h),
         NEW q, calls' = [calls EXCEPT ![d] = q], AllFit(q, h)
  PROVE  TaskInv'
<1>1. PICK p : p = Past
  OBVIOUS
<1>2. Later(AtStart, p) /\ Later(p, h) /\ Later(AtStart, h)
  BY <1>1, LaterStill DEF TaskInv
<1>3. PICK K : K = Right(h)
  OBVIOUS
<1>4. M!HoldsOnly(K)'
  <2>1. \A l \in Leaf : Blank[l] \in K[l] /\ Right(p)[l] \subseteq K[l]
    BY <1>2, <1>3, BlankFits, RightLater
  <2>2. M!HoldsOnly(Right(p))
    BY <1>1 DEF TaskInv
  <2>3. M!HoldsOnly(K)
    BY <2>1, <2>2, MirrorAssumptions, M!HoldsOnlyGrows DEF AppInv, MirrorInv, M!IInv
  <2> QED
    BY <1>3, <2>1, <2>3, WritingHolds
<1>5. M!HoldsOnly(Right(Past))'
  <2>1. K = Right(Past)'
    BY <1>3
  <2>2. /\ \A l \in Leaf : server'[l] \in K[l]
        /\ \A c \in Device, l \in Leaf : view'[c][l] \in K[l]
    BY <1>4 DEF M!HoldsOnly
  <2> QED
    BY <1>4, <2>1 DEF M!HoldsOnly
<1>6. \A c \in Device : LocalFits(c, h)'
  <2> SUFFICES ASSUME NEW c \in Device
               PROVE  LocalFits(c, h)'
    OBVIOUS
  <2>1. PerDevice
    BY DEF AppInv
  <2>2. CASE c = d
    <3>1. rows'[d] = R /\ found'[d] = f /\ screen'[d] = s /\ calls'[d] = q
      BY <2>1 DEF PerDevice
    <3> QED
      BY <2>2, <3>1 DEF LocalFits
  <2>3. CASE c # d
    <3>1. /\ rows'[c] = rows[c] /\ found'[c] = found[c] /\ screen'[c] = screen[c]
          /\ calls'[c] = calls[c]
      BY <2>1, <2>3 DEF PerDevice
    <3> QED
      BY <1>1, <1>2, <3>1, FitStays DEF LocalFits
  <2> QED
    BY <2>2, <2>3
<1>7. \A c \in Device : LocalFits(c, Past)'
  BY <1>6
<1> QED
  BY <1>2, <1>5, <1>7 DEF TaskInv

\* A tap that writes nothing at once.
LEMMA FitQuiet ==
  ASSUME AppInv, TaskInv, NEW d \in Device, NEW h, h = Past', Later(Past, h),
         ToldApart(h) => assigned' \subseteq chosen',
         UNCHANGED <<syncVars, rows, found>>,
         NEW s, screen' = [screen EXCEPT ![d] = s], ScreenFits(d, s, h),
         NEW q, calls' = [calls EXCEPT ![d] = q], AllFit(q, h)
  PROVE  TaskInv'
<1>1. Writing(Right(h))
  BY DEF Writing
<1>2. /\ rows' = [rows EXCEPT ![d] = rows[d]] /\ \A r \in rows[d] : RowFits(r, h)
      /\ found' = [found EXCEPT ![d] = found[d]] /\ \A r \in found[d].rows : RowFits(r, h)
  BY FitStays
<1> QED
  BY <1>1, <1>2, FitStep

LEMMA HistoryStands ==
  ASSUME TaskInv, UNCHANGED history
  PROVE  /\ Past' = Past /\ Later(Past, Past')
         /\ ToldApart(Past') => assigned' \subseteq chosen'
<1>1. Past' = Past /\ assigned' = assigned /\ chosen' = chosen
  BY DEF history, Past
<1> QED
  BY <1>1 DEF TaskInv, Later

\* A look at the table.
LEMMA FitRows ==
  ASSUME AppInv, TaskInv, NEW d \in Device, UNCHANGED <<syncVars, calls, history>>,
         NEW R, rows' = [rows EXCEPT ![d] = R], \A r \in R : RowFits(r, Past),
         NEW f, found' = [found EXCEPT ![d] = f], \A r \in f.rows : RowFits(r, Past),
         NEW s, screen' = [screen EXCEPT ![d] = s], ScreenFits(d, s, Past)
  PROVE  TaskInv'
<1>1. PICK h : h = Past'
  OBVIOUS
<1>2. h = Past /\ Later(Past, h) /\ (ToldApart(h) => assigned' \subseteq chosen')
  BY <1>1, HistoryStands
<1>3. Writing(Right(h))
  BY DEF Writing
<1>4. calls' = [calls EXCEPT ![d] = calls[d]] /\ AllFit(calls[d], h)
  BY <1>2, FitStays
<1>5. /\ \A r \in R : RowFits(r, h)
      /\ \A r \in f.rows : RowFits(r, h)
      /\ ScreenFits(d, s, h)
  BY <1>2
<1> QED
  BY <1>1, <1>2, <1>3, <1>4, <1>5, FitStep

LEMMA ViewFits ==
  ASSUME AppInv, TaskInv, NEW h, h = Past', Later(Past, h), Writing(Right(h))
  PROVE  \A d \in Device, l \in Leaf : /\ view[d][l] \in Right(h)[l]
                                       /\ view'[d][l] \in Right(h)[l]
<1>1. PICK p : p = Past
  OBVIOUS
<1>2. Later(AtStart, p) /\ Later(p, h) /\ Later(AtStart, h)
  BY <1>1, LaterStill DEF TaskInv
<1>3. PICK K : K = Right(h)
  OBVIOUS
<1>4. \A l \in Leaf : Blank[l] \in K[l] /\ Right(p)[l] \subseteq K[l]
  BY <1>2, <1>3, BlankFits, RightLater
<1>5. M!HoldsOnly(Right(p))
  BY <1>1 DEF TaskInv
<1>6. M!HoldsOnly(K)
  BY <1>4, <1>5, MirrorAssumptions, M!HoldsOnlyGrows DEF AppInv, MirrorInv, M!IInv
<1>7. M!HoldsOnly(K)'
  BY <1>3, <1>4, <1>6, WritingHolds
<1> QED
  BY <1>3, <1>6, <1>7 DEF M!HoldsOnly

\* A change of what d shows, and its observers.
LEMMA FitObserve ==
  ASSUME AppInv, AppInv', TaskInv, NEW d \in Device, NEW h, h = Past', Later(Past, h),
         Writing(Right(h)), ToldApart(h) => assigned' \subseteq chosen', UNCHANGED found,
         NEW C, NEW q \in Seq(C), AllFit(q, h), NEW s \in ScreenType, ScreenFits(d, s, h),
         Observe(d, q, s), RatingEvents(d, view[d], view'[d]) \in Seq(C)
  PROVE  TaskInv'
<1>1. PICK old, new : old = view[d] /\ new = view'[d]
  OBVIOUS
<1>2. \A l \in Leaf : new[l] \in Right(h)[l]
  BY <1>1, ViewFits
<1>3. rows[d] \subseteq Row /\ \A r \in rows[d] : RowFits(r, h)
  BY FitStays
<1>4. PICK R0, R : R0 = rows[d] /\ R = RowsAfter(d, R0, old, new)
  OBVIOUS
<1>5. rows' = [rows EXCEPT ![d] = R] /\ \A r \in R : RowFits(r, h)
  BY <1>1, <1>2, <1>3, <1>4, RowsAfterFit DEF Observe
<1>6. PICK t : t = ScreenAfter(d, s, new)
  OBVIOUS
<1>7. screen' = [screen EXCEPT ![d] = t] /\ ScreenFits(d, t, h)
  BY <1>1, <1>6, ScreenAfterFits DEF Observe
<1>8. PICK e : e = RatingEvents(d, old, new)
  OBVIOUS
<1>9. calls' = [calls EXCEPT ![d] = q \o e] /\ AllFit(q \o e, h)
  <2>1. AllFit(e, h) /\ e \in Seq(C)
    BY <1>1, <1>8, RatingEventsFit
  <2>2. AllFit(q \o e, h)
    BY <2>1, JoinFits
  <2> QED
    BY <1>1, <1>8, <2>2 DEF Observe
<1>10. found' = [found EXCEPT ![d] = found[d]] /\ \A r \in found[d].rows : RowFits(r, h)
  BY FitStays
<1> QED
  BY <1>5, <1>7, <1>9, <1>10, FitStep

LEMMA FitHeard ==
  ASSUME AppInv, AppInv', TaskInv, NEW d \in Device, NEW h, h = Past', Later(Past, h),
         Writing(Right(h)), ToldApart(h) => assigned' \subseteq chosen', UNCHANGED found,
         NEW q \in Seq(CallsFor(Len(watches[d]), Allowed(accepted', assigned'))), AllFit(q, h),
         NEW s \in ScreenType, ScreenFits(d, s, h), Observe(d, q, s)
  PROVE  TaskInv'
<1>1. PICK acc, asg : acc = accepted' /\ asg = assigned'
  OBVIOUS
<1>2. PICK old, new : old = view[d] /\ new = view'[d]
  OBVIOUS
<1>3. \A l \in Leaf : new[l] \in Allowed(acc, asg)[l]
  BY <1>1, <1>2 DEF AppInv, MirrorInv, M!HoldsOnly
<1>4. watches[d] \in Seq(WatchesFor)
  BY DEF AppInv, LocalAt
<1>5. PICK C : C = CallsFor(Len(watches[d]), Allowed(acc, asg))
  OBVIOUS
<1>6. RatingEvents(d, old, new) \in Seq(C)
  BY <1>3, <1>4, <1>5, RatingEventsKnown
<1>7. q \in Seq(C) /\ RatingEvents(d, view[d], view'[d]) \in Seq(C)
  BY <1>1, <1>2, <1>5, <1>6
<1> QED
  BY <1>7, FitObserve

\* One write that fits.
LEMMA FitEmit ==
  ASSUME AppInv, AppInv', TaskInv, NEW d \in Device, NEW h, h = Past', Later(Past, h),
         ToldApart(h) => assigned' \subseteq chosen', UNCHANGED found,
         NEW w \in M!Write, \A l \in DOMAIN w : Fits(l, w[l], h),
         NEW q \in Seq(CallsFor(Len(watches[d]), Allowed(accepted', assigned'))), AllFit(q, h),
         NEW s \in ScreenType, ScreenFits(d, s, h), Emit(d, w, q, s)
  PROVE  TaskInv'
<1>1. w \in M!WritesOf(Right(h))
  BY WriteFits
<1>2. Writing(Right(h))
  BY <1>1 DEF Writing, Emit
<1> QED
  BY <1>2, FitHeard DEF Emit

-----------------------------------------------------------------------------
(* What handlers leave to be done.                                         *)

LEMMA NothingFits ==
  ASSUME NEW h
  PROVE  AllFit(<<>>, h)
BY DEF AllFit

LEMMA PutFits ==
  ASSUME NEW l, NEW x, NEW h, Fits(l, x, h)
  PROVE  /\ \A m \in DOMAIN PutLeaf(l, x) : Fits(m, PutLeaf(l, x)[m], h)
         /\ CallFits(WriteCall(PutLeaf(l, x)), h)
<1>1. \A m \in DOMAIN PutLeaf(l, x) : m = l /\ PutLeaf(l, x)[m] = x
  BY DEF PutLeaf
<1>2. PICK c, w : c = WriteCall(w) /\ w = PutLeaf(l, x)
  OBVIOUS
<1>3. c.op = "write" /\ c.put = w
  BY <1>2 DEF WriteCall
<1> QED
  BY <1>1, <1>2, <1>3 DEF CallFits

LEMMA InsertFits ==
  ASSUME NEW h, NEW d, NEW u, NEW field \in ListField, NEW item
  PROVE  AllFit(Insert(d, u, field, item), h)
<1>1. PICK l, x : l = <<SafeEmail[u], field>> /\ x = Append(view[d][l], item)
  OBVIOUS
<1>2. Fits(l, x, h)
  BY <1>1, PlainFits DEF ListField
<1>3. PICK c : c = WriteCall(PutLeaf(l, x))
  OBVIOUS
<1>4. CallFits(c, h)
  BY <1>2, <1>3, PutFits
<1>5. Insert(d, u, field, item) = <<c>>
  BY <1>1, <1>3 DEF Insert
<1> QED
  BY <1>4, <1>5 DEF AllFit

LEMMA InsertRatingFits ==
  ASSUME NEW h, NEW d, NEW u
  PROVE  AllFit(InsertRating(d, u), h)
<1>1. PICK gs, c : c = [op |-> "rate", watch |-> Len(watches[d]) + 1, grades |-> gs]
                   /\ gs = view[d][<<SafeEmail[u], "grades">>]
  OBVIOUS
<1>2. InsertRating(d, u) = <<>> \/ InsertRating(d, u) = <<c>>
  BY <1>1 DEF InsertRating
<1>3. CallFits(c, h)
  BY <1>1 DEF CallFits
<1>4. AllFit(<<>>, h) /\ AllFit(<<c>>, h)
  BY <1>3, NothingFits DEF AllFit
<1> QED
  BY <1>2, <1>4

LEMMA UpdateFits ==
  ASSUME NEW h, NEW k, NEW puts, \A i \in DOMAIN puts : Fits(<<k, puts[i][1]>>, puts[i][2], h)
  PROVE  AllFit(UpdateCalls(k, puts), h)
<1>1. ASSUME NEW i \in DOMAIN puts
      PROVE  CallFits(WriteCall(PutField(k, puts[i][1], puts[i][2])), h)
  <2>1. PICK l, x : l = <<k, puts[i][1]>> /\ x = puts[i][2]
    OBVIOUS
  <2>2. Fits(l, x, h)
    BY <1>1, <2>1
  <2> QED
    BY <2>1, <2>2, PutFits DEF PutField
<1>2. PICK q : q = UpdateCalls(k, puts)
  OBVIOUS
<1>3. DOMAIN q = DOMAIN puts
      /\ \A i \in DOMAIN puts : q[i] = WriteCall(PutField(k, puts[i][1], puts[i][2]))
  BY <1>2 DEF UpdateCalls
<1> QED
  BY <1>1, <1>2, <1>3 DEF AllFit

\* An update by name falls, while no two requests share a name, on the one meant.
LEMMA NamedIsMeant ==
  ASSUME NEW h, NEW v, \A l \in Leaf : v[l] \in Right(h)[l], ToldApart(h),
         NEW n, NEW puts, Means(n, puts, h), NEW k \in Named(v, n)
  PROVE  /\ k \in DOMAIN h.issued /\ n = h.issued[k].name
         /\ \A u \in Volunteers :
              puts = << <<"status", Registered>>, <<"volunteer", u>> >> => <<k, u>> \in h.chosen
         /\ puts = << <<"status", Finished>> >> => WasAccepted(k, h)
<1>1. k \in Key /\ Request(v, k) # Absent /\ Request(v, k).name = n
  BY DEF Named
<1>2. <<k, "request">> \in Leaf /\ Request(v, k) = v[<<k, "request">>]
  BY <1>1, Leaves DEF RequestField, Request
<1>3. k \in DOMAIN h.issued /\ Request(v, k) = h.issued[k]
  BY <1>1, <1>2, RightFits DEF Fits
<1>4. n # NoName
  BY <1>1, <1>3 DEF ToldApart
<1>5. PICK j \in DOMAIN h.issued :
        /\ n = h.issued[j].name
        /\ \A u \in Volunteers :
             puts = << <<"status", Registered>>, <<"volunteer", u>> >> => <<j, u>> \in h.chosen
        /\ puts = << <<"status", Finished>> >> => WasAccepted(j, h)
  BY <1>4 DEF Means
<1>6. j = k
  BY <1>1, <1>3, <1>5 DEF ToldApart
<1> QED
  BY <1>3, <1>5, <1>6

\* The updates of a request by name.
LEMMA NamedUpdatesFit ==
  ASSUME NEW h, NEW v, \A l \in Leaf : v[l] \in Right(h)[l],
         NEW n, NEW puts \in FindPuts, Means(n, puts, h), NEW k \in Named(v, n)
  PROVE  AllFit(UpdateCalls(k, puts), h)
<1>1. CASE puts = << <<"status", Finished>> >>
  <2>1. DOMAIN puts = 1 .. 1 /\ \A i \in 1 .. 1 : puts[i][1] = "status" /\ puts[i][2] = Finished
    BY <1>1
  <2>2. Finished # Scheduled /\ (ToldApart(h) => WasAccepted(k, h))
    BY <1>1, NamedIsMeant DEF Finished, Scheduled
  <2>3. Fits(<<k, "status">>, Finished, h)
    BY <2>2 DEF Fits
  <2> QED
    BY <2>1, <2>3, UpdateFits
<1>2. ASSUME NEW u \in Volunteers, puts = << <<"status", Registered>>, <<"volunteer", u>> >>
      PROVE  AllFit(UpdateCalls(k, puts), h)
  <2>1. /\ DOMAIN puts = 1 .. 2 /\ puts[1][1] = "status" /\ puts[1][2] = Registered
        /\ puts[2][1] = "volunteer" /\ puts[2][2] = u
    BY <1>2
  <2>2. Fits(<<k, "status">>, Registered, h) /\ Fits(<<k, "volunteer">>, u, h)
    BY PlainFits
  <2>3. \A i \in 1 .. 2 : Fits(<<k, puts[i][1]>>, puts[i][2], h)
    <3> TAKE i \in 1 .. 2
    <3>1. i = 1 \/ i = 2
      OBVIOUS
    <3> QED
      BY <2>1, <2>2, <3>1
  <2> QED
    BY <2>1, <2>3, UpdateFits
<1> QED
  BY <1>1, <1>2 DEF FindPuts

LEMMA UpdateNamedFits ==
  ASSUME NEW h, NEW d, \A l \in Leaf : view[d][l] \in Right(h)[l],
         NEW n, NEW puts \in FindPuts, Means(n, puts, h)
  PROVE  AllFit(UpdateNamed(d, n, puts), h)
<1>1. CASE Named(view[d], n) # {}
  <2>1. PICK v, k : v = view[d] /\ k = Min(Named(v, n))
    OBVIOUS
  <2>2. Named(v, n) \in SUBSET Key
    BY DEF Named
  <2>3. k \in Named(v, n)
    BY <1>1, <2>1, <2>2, FirstKey
  <2>4. AllFit(UpdateCalls(k, puts), h)
    BY <2>1, <2>3, NamedUpdatesFit
  <2> QED
    BY <1>1, <2>1, <2>4 DEF UpdateNamed
<1>2. CASE Named(view[d], n) = {}
  <2>1. PICK c : c = [op |-> "find", name |-> n, puts |-> puts]
    OBVIOUS
  <2>2. CallFits(c, h)
    BY <2>1 DEF CallFits
  <2>3. UpdateNamed(d, n, puts) = <<c>>
    BY <1>2, <2>1 DEF UpdateNamed
  <2> QED
    BY <2>2, <2>3 DEF AllFit
<1> QED
  BY <1>1, <1>2

\* These are lists; put together they fit if each does.
IsList(q) == \E C : q \in Seq(C)

LEMMA JoinedFits ==
  ASSUME NEW p, NEW q, IsList(p), IsList(q), NEW h, AllFit(p, h), AllFit(q, h)
  PROVE  AllFit(p \o q, h) /\ IsList(p \o q)
<1>1. PICK A : p \in Seq(A)
  BY DEF IsList
<1>2. PICK B : q \in Seq(B)
  BY DEF IsList
<1>3. PICK C : C = A \cup B
  OBVIOUS
<1>4. A \subseteq C /\ B \subseteq C
  BY <1>3
<1>5. p \in Seq(C) /\ q \in Seq(C)
  BY <1>1, <1>2, <1>4, SeqMonotonic
<1> QED
  BY <1>5, JoinFits DEF IsList

LEMMA ShortLists == IsList(<<>>) /\ \A c : IsList(<<c>>)
<1>1. \A c : <<c>> \in Seq({c})
  OBVIOUS
<1>2. <<>> \in Seq({})
  BY EmptySeq
<1> QED
  BY <1>1, <1>2 DEF IsList

LEMMA CallLists ==
  ASSUME NEW d, NEW u
  PROVE  /\ \A field, item : IsList(Insert(d, u, field, item))
         /\ IsList(InsertRating(d, u))
         /\ \A k, puts : \A m \in Nat : DOMAIN puts = 1 .. m => IsList(UpdateCalls(k, puts))
         /\ \A n : \A puts \in FindPuts : IsList(UpdateNamed(d, n, puts))
<1>1. \A field, item : IsList(Insert(d, u, field, item))
  BY ShortLists DEF Insert
<1>2. IsList(InsertRating(d, u))
  <2>1. PICK c : c = [op |-> "rate", watch |-> Len(watches[d]) + 1,
                      grades |-> view[d][<<SafeEmail[u], "grades">>]]
    OBVIOUS
  <2>2. InsertRating(d, u) = <<>> \/ InsertRating(d, u) = <<c>>
    BY <2>1 DEF InsertRating
  <2> QED
    BY <2>2, ShortLists
<1>3. ASSUME NEW k, NEW puts, NEW m \in Nat, DOMAIN puts = 1 .. m
      PROVE  IsList(UpdateCalls(k, puts))
  <2>1. PICK q : q = UpdateCalls(k, puts)
    OBVIOUS
  <2>2. DOMAIN q = 1 .. m /\ q = [i \in 1 .. m |-> q[i]]
    BY <1>3, <2>1 DEF UpdateCalls
  <2>3. PICK C : C = {q[i] : i \in 1 .. m}
    OBVIOUS
  <2>4. q \in [1 .. m -> C]
    BY <2>2, <2>3
  <2>5. q \in Seq(C)
    BY <2>4
  <2> QED
    BY <2>1, <2>5 DEF IsList
<1>4. ASSUME NEW n, NEW puts \in FindPuts
      PROVE  IsList(UpdateNamed(d, n, puts))
  <2>1. DOMAIN puts = 1 .. 1 \/ DOMAIN puts = 1 .. 2
    <3>1. CASE puts = << <<"status", Finished>> >>
      BY <3>1
    <3>2. ASSUME NEW v \in Volunteers, puts = << <<"status", Registered>>, <<"volunteer", v>> >>
          PROVE  DOMAIN puts = 1 .. 2
      BY <3>2
    <3> QED
      BY <3>1, <3>2 DEF FindPuts
  <2>2. \A k : IsList(UpdateCalls(k, puts))
    BY <1>3, <2>1
  <2> QED
    BY <2>2, ShortLists DEF UpdateNamed
<1> QED
  BY <1>1, <1>2, <1>3, <1>4

-----------------------------------------------------------------------------
(* The elder's taps.                                                       *)

LEMMA CreateFits ==
  ASSUME AppInv, AppInv', TaskInv, NEW e \in Device, e \in Elders, NEW n \in Names \cup {NoName},
         NEW cs, IsList(cs), cs \in Seq(CallsFor(Len(watches[e]), Allowed(accepted', assigned'))),
         \A h : AllFit(cs, h), Create(e, n, cs)
  PROVE  TaskInv'
<1>1. issued \in Seq(Heading) /\ Len(issued) < MaxRequests
  BY DEF AppInv, Histories, Create
<1>2. PICK k, t : k = Len(issued) + 1 /\ t = [elder |-> e, name |-> n]
  OBVIOUS
<1>3. k \in Key /\ k \notin DOMAIN issued /\ t \in Heading
  BY <1>1, <1>2, SchemaAssumption DEF Key, Heading
<1>4. /\ issued' = Append(issued, t)
      /\ UNCHANGED <<found, watches, chosen, assigned, accepted>>
      /\ Emit(e, CreateRecord(k, e, n), calls[e] \o cs, screen[e])
  BY <1>2 DEF Create
<1>5. PICK h : h = Past'
  OBVIOUS
<1>6. /\ h.chosen = chosen /\ h.accepted = accepted /\ h.issued = issued'
      /\ k \in DOMAIN h.issued /\ h.issued[k] = t
      /\ \A j \in DOMAIN issued : j \in DOMAIN h.issued /\ h.issued[j] = issued[j]
  <2>1. h.chosen = chosen /\ h.accepted = accepted /\ h.issued = issued'
    BY <1>4, <1>5 DEF Past
  <2>2. /\ DOMAIN Append(issued, t) = 1 .. k /\ Append(issued, t)[k] = t
        /\ \A j \in 1 .. Len(issued) : Append(issued, t)[j] = issued[j]
        /\ DOMAIN issued = 1 .. Len(issued)
    BY <1>1, <1>2, <1>3
  <2> QED
    BY <1>1, <1>2, <1>4, <2>1, <2>2
<1>7. Later(Past, h)
  BY <1>6 DEF Later, Past
<1>8. ToldApart(h) => assigned' \subseteq chosen'
  <2>1. PICK p : p = Past
    OBVIOUS
  <2>2. ToldApart(h) => ToldApart(p)
    BY <1>7, <2>1, ToldApartBefore
  <2> QED
    BY <1>4, <2>1, <2>2 DEF TaskInv
<1>9. PICK w : w = CreateRecord(k, e, n)
  OBVIOUS
<1>10. w \in M!Write
  BY <1>3, <1>9, CreateKnown DEF M!WritesOf
<1>11. \A l \in DOMAIN w : Fits(l, w[l], h)
  <2>1. DOMAIN w = {k} \X RequestField /\ \A l \in DOMAIN w : w[l] = NewField(l[2], e, n)
    BY <1>9 DEF CreateRecord
  <2>2. ASSUME NEW l \in DOMAIN w
        PROVE  Fits(l, w[l], h)
    <3>1. /\ l[1] = k /\ l[2] \in {"request", "status", "volunteer"} /\ w[l] = NewField(l[2], e, n)
      BY <2>1, <2>2 DEF RequestField
    <3>2. CASE l[2] = "request"
      BY <1>2, <1>6, <3>1, <3>2 DEF NewField, Fits
    <3>3. CASE l[2] = "status"
      BY <3>1, <3>3, PlainFits DEF NewField
    <3>4. CASE l[2] = "volunteer"
      BY <3>4, PlainFits
    <3> QED
      BY <3>1, <3>2, <3>3, <3>4
  <2> QED
    BY <2>2
<1>12. /\ screen[e] \in ScreenType /\ ScreenFits(e, screen[e], h) /\ AllFit(calls[e], h)
       /\ calls[e] \in Seq(CallsFor(Len(watches[e]), Allowed(accepted, assigned)))
  BY <1>7, FitStays
<1>13. PICK q : q = calls[e] \o cs
  OBVIOUS
<1>14. /\ q \in Seq(CallsFor(Len(watches[e]), Allowed(accepted', assigned')))
       /\ AllFit(q, h)
  <2>1. calls[e] \in Seq(CallsFor(Len(watches[e]), Allowed(accepted', assigned')))
    BY <1>4, <1>12
  <2>2. q \in Seq(CallsFor(Len(watches[e]), Allowed(accepted', assigned')))
    BY <1>13, <2>1, ConcatProperties
  <2>3. AllFit(q, h)
    BY <1>12, <1>13, <2>1, JoinFits
  <2> QED
    BY <2>2, <2>3
<1>15. UNCHANGED found /\ Emit(e, w, q, screen[e])
  BY <1>4, <1>9, <1>13
<1> QED
  BY <1>5, <1>7, <1>8, <1>10, <1>11, <1>12, <1>14, <1>15, FitEmit

LEMMA AddActivityFits ==
  ASSUME AppInv, AppInv', TaskInv, NEW e \in Device, e \in Elders, NEW n \in Names,
         AddActivity(e, n)
  PROVE  TaskInv'
<1>1. PICK cs : cs = Insert(e, e, "activities", n)
  OBVIOUS
<1>2. Create(e, n, cs) /\ UNCHANGED <<watches, accepted, assigned>>
  BY <1>1 DEF AddActivity, Create
<1>3. IsList(cs) /\ \A h : AllFit(cs, h)
  BY <1>1, CallLists, InsertFits DEF ListField
<1>4. cs \in Seq(CallsFor(Len(watches[e]), Allowed(accepted', assigned')))
  <2>1. PICK acc, asg : acc = accepted' /\ asg = assigned'
    OBVIOUS
  <2>2. \A l \in Leaf : view[e][l] \in Allowed(acc, asg)[l]
    BY <1>2, <2>1, ViewKnown DEF HistoryGrows
  <2>3. e \in Account \cup {NoUser} /\ n \in Names \cup {NoName}
    BY DEF Account
  <2> QED
    BY <1>1, <2>1, <2>2, <2>3, InsertsKnown
<1> QED
  BY <1>2, <1>3, <1>4, CreateFits

LEMMA AddFromMapFits ==
  ASSUME AppInv, AppInv', TaskInv, NEW e \in Device, e \in Elders, NEW n \in Names,
         AddFromMap(e, n)
  PROVE  TaskInv'
<1>1. PICK cs : cs = <<>>
  OBVIOUS
<1>2. cs \in Seq(CallsFor(Len(watches[e]), Allowed(accepted', assigned')))
  BY <1>1, EmptySeq
<1>3. IsList(cs) /\ \A h : AllFit(cs, h)
  BY <1>1, ShortLists, NothingFits
<1> QED
  BY <1>1, <1>2, <1>3, CreateFits DEF AddFromMap

LEMMA CancelFits ==
  ASSUME AppInv, AppInv', TaskInv, NEW e \in Device, Cancel(e)
  PROVE  TaskInv'
<1>1. PICK h : h = Past'
  OBVIOUS
<1>2. /\ UNCHANGED <<found, watches, history>>
      /\ Emit(e, RemoveRecord(screen[e].key), calls[e], NoScreen)
  BY DEF Cancel
<1>3. Later(Past, h) /\ (ToldApart(h) => assigned' \subseteq chosen')
  BY <1>1, <1>2, HistoryStands
<1>4. screen[e].key \in Key \cup {NoKey}
  BY DEF AppInv, LocalAt, ScreensFor, ScreenType
<1>5. PICK w : w = RemoveRecord(screen[e].key)
  OBVIOUS
<1>6. w \in M!Write
  BY <1>4, <1>5, RemoveKnown DEF M!WritesOf
<1>7. \A l \in DOMAIN w : Fits(l, w[l], h)
  BY <1>5, PlainFits DEF RemoveRecord
<1>8. /\ AllFit(calls[e], h) /\ NoScreen \in ScreenType /\ ScreenFits(e, NoScreen, h)
      /\ calls[e] \in Seq(CallsFor(Len(watches[e]), Allowed(accepted', assigned')))
  <2>1. /\ AllFit(calls[e], h)
        /\ calls[e] \in Seq(CallsFor(Len(watches[e]), Allowed(accepted, assigned)))
    BY <1>3, FitStays
  <2> QED
    BY <1>2, <2>1, EmptyScreensFit DEF NoScreen, Screen, ScreenType, history
<1> QED
  BY <1>1, <1>2, <1>3, <1>5, <1>6, <1>7, <1>8, FitEmit

-----------------------------------------------------------------------------
(* The screens and the tables.                                             *)

\* A tap that changes the screen and drops or keeps callbacks.
LEMMA FitTurn ==
  ASSUME AppInv, TaskInv, NEW d \in Device, UNCHANGED <<syncVars, rows, found, history>>,
         NEW s, screen' = [screen EXCEPT ![d] = s], ScreenFits(d, s, Past),
         NEW q, calls' = [calls EXCEPT ![d] = q], AllFit(q, Past)
  PROVE  TaskInv'
<1>1. PICK h : h = Past'
  OBVIOUS
<1>2. h = Past /\ Later(Past, h) /\ (ToldApart(h) => assigned' \subseteq chosen')
  BY <1>1, HistoryStands
<1>3. ScreenFits(d, s, h) /\ AllFit(q, h)
  BY <1>2
<1> QED
  BY <1>1, <1>2, <1>3, FitQuiet

LEMMA FitNow ==
  ASSUME AppInv, TaskInv, NEW d \in Device
  PROVE  /\ \A r \in Shown(d) : r \in Row /\ RowFits(r, Past)
         /\ \A r \in rows[d] : r \in Row /\ RowFits(r, Past)
         /\ \A r \in found[d].rows : r \in Row /\ RowFits(r, Past)
         /\ screen[d] \in ScreenType /\ ScreenFits(d, screen[d], Past)
         /\ calls = [calls EXCEPT ![d] = calls[d]] /\ AllFit(calls[d], Past)
         /\ calls[d] \in Seq(CallsFor(Len(watches[d]), Allowed(accepted, assigned)))
         /\ \A r \in Fetched(d, view[d]) : RowFits(r, Past)
         /\ rows = [rows EXCEPT ![d] = rows[d]] /\ found = [found EXCEPT ![d] = found[d]]
         /\ screen = [screen EXCEPT ![d] = screen[d]]
<1>1. PICK h : h = Past
  OBVIOUS
<1>2. Later(Past, h)
  BY <1>1 DEF Later
<1>3. \A r \in Fetched(d, view[d]) : RowFits(r, h)
  <2>1. PICK v : v = view[d]
    OBVIOUS
  <2>2. \A l \in Leaf : v[l] \in Right(h)[l]
    BY <1>1, <2>1 DEF TaskInv, M!HoldsOnly
  <2> QED
    BY <2>1, <2>2, FetchedFit
<1> QED
  BY <1>1, <1>2, <1>3, FitStays DEF Shown

LEMMA OpenFits ==
  ASSUME AppInv, TaskInv, NEW d \in Device, NEW s \in ScreenType, ScreenFits(d, s, Past), Open(d, s)
  PROVE  TaskInv'
<1>1. PICK h, t : h = Past /\ t = ScreenAfter(d, s, view[d])
  OBVIOUS
<1>2. ScreenFits(d, t, h)
  BY <1>1, ScreenAfterFits
<1>3. /\ UNCHANGED <<syncVars, rows, found, calls, history>>
      /\ screen' = [screen EXCEPT ![d] = t]
  BY <1>1 DEF Open, Quietly
<1>4. ScreenFits(d, t, Past) /\ calls' = [calls EXCEPT ![d] = calls[d]] /\ AllFit(calls[d], Past)
  BY <1>1, <1>2, <1>3, FitNow
<1> QED
  BY <1>3, <1>4, FitTurn

LEMMA OpenRowFits ==
  ASSUME AppInv, TaskInv, NEW d \in Device, NEW r \in Row, RowFits(r, Past),
         NEW p, p \in Account \cup {NoUser} \/ ~Complete(r),
         NEW s \in {BlankDetails, Screen("details", r.key, r.request.name, r.status, p, FALSE)},
         s = BlankDetails \/ Complete(r), Open(d, s)
  PROVE  TaskInv'
<1>1. PICK h : h = Past
  OBVIOUS
<1>2. CASE s = BlankDetails
  <2>1. s \in ScreenType
    BY <1>2 DEF BlankDetails, Screen, ScreenType
  <2>2. ScreenFits(d, s, h)
    BY <1>2, EmptyScreensFit
  <2> QED
    BY <1>1, <2>1, <2>2, OpenFits
<1>3. CASE s # BlankDetails
  <2>1. /\ Complete(r) /\ p \in Account \cup {NoUser}
        /\ s = Screen("details", r.key, r.request.name, r.status, p, FALSE)
    BY <1>3
  <2>2. ScreenFits(d, s, h)
    BY <1>1, <2>1, OpenedFits
  <2>3. s \in ScreenType
    <3>1. /\ r.key \in Key \cup {NoKey} /\ r.request \in Heading
          /\ r.status \in {Absent} \cup Status
      BY <2>1 DEF Row, Complete
    <3>2. r.request.name \in Names \cup {NoName}
      BY <3>1 DEF Heading
    <3> QED
      BY <2>1, <3>1, <3>2 DEF Screen, ScreenType
  <2> QED
    BY <1>1, <2>2, <2>3, OpenFits
<1> QED
  BY <1>2, <1>3

LEMMA OpensFit ==
  ASSUME AppInv, TaskInv, NEW d \in Device,
         OpenElderDetails(d) \/ OpenVolunteerDetails(d) \/ OpenActivityDetails(d)
  PROVE  TaskInv'
<1>1. ASSUME NEW r \in Row, Complete(r)
      PROVE  r.request.elder \in Account \cup {NoUser}
  BY <1>1 DEF Row, Complete, Heading, Account
<1>2. CASE OpenElderDetails(d)
  <2>1. PICK r \in Shown(d) : Open(d, ElderDetails(r))
    BY <1>2 DEF OpenElderDetails
  <2>2. r \in Row /\ RowFits(r, Past)
    BY <2>1, FitNow
  <2>3. PICK p, s : p = r.volunteer /\ s = ElderDetails(r)
    OBVIOUS
  <2>4. CASE ~Complete(r) \/ r.volunteer = Absent
    <3>1. s = BlankDetails
      BY <2>3, <2>4 DEF ElderDetails
    <3>2. PICK u : u = NoUser
      OBVIOUS
    <3> QED
      BY <2>1, <2>2, <2>3, <3>1, <3>2, OpenRowFits
  <2>5. CASE Complete(r) /\ r.volunteer # Absent
    <3>1. s = Screen("details", r.key, r.request.name, r.status, p, FALSE)
      BY <2>3, <2>5 DEF ElderDetails
    <3>2. p \in Account \cup {NoUser}
      BY <2>2, <2>3, <2>5 DEF Row, Account
    <3> QED
      BY <2>1, <2>2, <2>3, <2>5, <3>1, <3>2, OpenRowFits
  <2> QED
    BY <2>4, <2>5
<1>3. CASE OpenVolunteerDetails(d)
  <2>1. PICK r \in Shown(d) : Open(d, VolunteerDetails(r))
    BY <1>3 DEF OpenVolunteerDetails
  <2>2. r \in Row /\ RowFits(r, Past)
    BY <2>1, FitNow
  <2>3. PICK p, s : p = r.request.elder /\ s = VolunteerDetails(r)
    OBVIOUS
  <2>4. (s = BlankDetails /\ ~Complete(r))
        \/ (s = Screen("details", r.key, r.request.name, r.status, p, FALSE) /\ Complete(r))
    BY <2>3 DEF VolunteerDetails
  <2> QED
    BY <1>1, <2>1, <2>2, <2>3, <2>4, OpenRowFits
<1>4. CASE OpenActivityDetails(d)
  <2>1. PICK r \in rows[d] : Open(d, OrganiserDetails(r))
    BY <1>4 DEF OpenActivityDetails
  <2>2. r \in Row /\ RowFits(r, Past)
    BY <2>1, FitNow
  <2>3. PICK p, s : p = r.request.elder /\ s = OrganiserDetails(r)
    OBVIOUS
  <2>4. (s = BlankDetails /\ ~Complete(r))
        \/ (s = Screen("details", r.key, r.request.name, r.status, p, FALSE) /\ Complete(r))
    BY <2>3 DEF OrganiserDetails
  <2> QED
    BY <1>1, <2>1, <2>2, <2>3, <2>4, OpenRowFits
<1> QED
  BY <1>2, <1>3, <1>4

\* Another page: a volunteer rates only what the screen says is scheduled.
LEMMA PageFits ==
  ASSUME AppInv, TaskInv, NEW d \in Device,
         NEW p \in {"login", "none", "details", "rate", "done"},
         p = "rate" => d \in Elders \/ RateShown(screen[d]),
         screen' = [screen EXCEPT ![d].page = p], Quietly, UNCHANGED <<found, calls, watches, history>>
  PROVE  TaskInv'
<1>1. PICK s, t : s = screen[d] /\ t = [s EXCEPT !.page = p]
  OBVIOUS
<1>2. s \in ScreenType /\ ScreenFits(d, s, Past)
  BY <1>1, FitNow
<1>3. t.key = s.key /\ t.name = s.name /\ t.status = s.status /\ t.page = p
  BY <1>1, <1>2 DEF ScreenType
<1>4. (d \in Volunteers /\ p = "rate" /\ s.key \in Key) => s.status = Scheduled
  BY <1>1, <1>2, SchemaAssumption DEF RateShown, ScreenFits
<1>5. ScreenFits(d, t, Past)
  BY <1>2, <1>3, <1>4 DEF ScreenFits
<1>6. screen' = [screen EXCEPT ![d] = t] /\ UNCHANGED <<syncVars, rows>>
  BY <1>1 DEF Quietly
<1>7. calls' = [calls EXCEPT ![d] = calls[d]] /\ AllFit(calls[d], Past)
  BY FitNow
<1> QED
  BY <1>5, <1>6, <1>7, FitTurn

LEMMA PagesFit ==
  ASSUME AppInv, TaskInv, NEW d \in Device,
         (d \in Elders /\ GradePressed(d)) \/ RatePressed(d) \/ BackToDetails(d)
  PROVE  TaskInv'
BY PageFits DEF GradePressed, RatePressed, BackToDetails

LEMMA LeavesFit ==
  ASSUME AppInv, TaskInv, NEW d \in Device, BackToTable(d) \/ LogOut(d)
  PROVE  TaskInv'
<1>1. PICK s \in {NoScreen, LoginScreen} : screen' = [screen EXCEPT ![d] = s]
  BY DEF BackToTable, LogOut
<1>2. PICK q : q = Popped(calls[d])
  OBVIOUS
<1>3. calls' = [calls EXCEPT ![d] = q] /\ UNCHANGED <<syncVars, rows, found, history>>
  BY <1>2 DEF BackToTable, LogOut, Quietly
<1>4. PICK h : h = Past
  OBVIOUS
<1>5. AllFit(q, h) /\ ScreenFits(d, s, h)
  BY <1>2, <1>4, FitNow, PoppedFit, EmptyScreensFit
<1> QED
  BY <1>1, <1>3, <1>4, <1>5, FitTurn

LEMMA TableFits ==
  ASSUME AppInv, TaskInv, NEW d \in Device, TableNext(d)
  PROVE  TaskInv'
<1>1. CASE Refresh(d)
  <2>1. /\ UNCHANGED <<syncVars, found, screen, calls, history>>
        /\ rows' = [rows EXCEPT ![d] = Fetched(d, view[d])]
    BY <1>1 DEF Refresh
  <2> QED
    BY <2>1, FitNow, FitRows
<1>2. ASSUME NEW R \in SUBSET rows[d],
             found' = [found EXCEPT ![d] = [active |-> TRUE, rows |-> R]],
             UNCHANGED <<syncVars, rows, screen, calls, history>>
      PROVE  TaskInv'
  <2>1. PICK f : f = [active |-> TRUE, rows |-> R]
    OBVIOUS
  <2>2. found' = [found EXCEPT ![d] = f] /\ \A r \in f.rows : RowFits(r, Past)
    BY <1>2, <2>1, FitNow
  <2> QED
    BY <1>2, <2>2, FitNow, FitRows
<1>3. ASSUME NEW st, SearchScope(d, st)
      PROVE  TaskInv'
  <2>1. {r \in rows[d] : r.status = st} \in SUBSET rows[d]
    OBVIOUS
  <2> QED
    BY <1>2, <1>3, <2>1 DEF SearchScope
<1>4. ASSUME NEW n, SearchText(d, n)
      PROVE  TaskInv'
  <2>1. {r \in rows[d] : r.request.name = n} \in SUBSET rows[d]
    OBVIOUS
  <2> QED
    BY <1>2, <1>4, <2>1 DEF SearchText
<1>5. \A r \in NotSearching.rows : RowFits(r, Past)
  BY DEF NotSearching
<1>6. CASE EndSearch(d)
  <2>1. /\ UNCHANGED <<syncVars, rows, screen, calls, history>>
        /\ found' = [found EXCEPT ![d] = NotSearching]
    BY <1>6 DEF EndSearch
  <2> QED
    BY <1>5, <2>1, FitNow, FitRows
<1>7. CASE LogIn(d)
  <2>1. /\ UNCHANGED <<syncVars, calls, history>>
        /\ screen' = [screen EXCEPT ![d] = NoScreen]
        /\ rows' = [rows EXCEPT ![d] = Fetched(d, view[d])]
        /\ found' = [found EXCEPT ![d] = NotSearching]
    BY <1>7 DEF LogIn
  <2>2. PICK h : h = Past
    OBVIOUS
  <2>3. ScreenFits(d, NoScreen, h)
    BY EmptyScreensFit
  <2> QED
    BY <1>5, <2>1, <2>2, <2>3, FitNow, FitRows
<1> QED
  BY <1>1, <1>3, <1>4, <1>6, <1>7, PagesFit, LeavesFit DEF TableNext

-----------------------------------------------------------------------------
(* The grades.                                                             *)

LEMMA SaveGradeFits ==
  ASSUME AppInv, TaskInv, NEW d \in Device, NEW u, NEW g, NEW more, IsList(more),
         AllFit(more, Past), SaveGrade(d, u, g, more)
  PROVE  TaskInv'
<1>1. PICK h : h = Past'
  OBVIOUS
<1>2. /\ UNCHANGED <<found, issued, chosen, assigned, accepted, syncVars, rows>>
      /\ screen' = [screen EXCEPT ![d] = NoScreen]
  BY DEF SaveGrade, Quietly
<1>3. h = Past /\ Later(Past, h) /\ (ToldApart(h) => assigned' \subseteq chosen')
  <2>1. h = Past
    BY <1>1, <1>2 DEF Past
  <2> QED
    BY <1>2, <2>1 DEF TaskInv, Later
<1>4. PICK a, b, c, e : /\ a = Popped(calls[d]) /\ b = Insert(d, u, "grades", g)
                        /\ c = InsertRating(d, u)
                        /\ e = Insert(d, u, "comments", [name |-> screen[d].name, user |-> d])
  OBVIOUS
<1>5. calls' = [calls EXCEPT ![d] = a \o b \o c \o e \o more]
  BY <1>4 DEF SaveGrade
<1>6. AllFit(a, h) /\ IsList(a)
  BY <1>3, <1>4, FitNow, PoppedFit, PoppedKnown DEF IsList
<1>7. AllFit(b, h) /\ IsList(b) /\ AllFit(e, h) /\ IsList(e)
  BY <1>4, InsertFits, CallLists DEF ListField
<1>8. AllFit(c, h) /\ IsList(c)
  BY <1>4, InsertRatingFits, CallLists
<1>9. AllFit(more, h)
  BY <1>3
<1>10. AllFit(a \o b \o c \o e \o more, h)
  <2>1. AllFit(a \o b, h) /\ IsList(a \o b)
    BY <1>6, <1>7, JoinedFits
  <2>2. AllFit(a \o b \o c, h) /\ IsList(a \o b \o c)
    BY <1>8, <2>1, JoinedFits
  <2>3. AllFit(a \o b \o c \o e, h) /\ IsList(a \o b \o c \o e)
    BY <1>7, <2>2, JoinedFits
  <2> QED
    BY <1>9, <2>3, JoinedFits
<1>11. ScreenFits(d, NoScreen, h)
  BY EmptyScreensFit
<1> QED
  BY <1>1, <1>2, <1>3, <1>5, <1>10, <1>11, FitQuiet

LEMMA SaveVolunteerGradeFits ==
  ASSUME AppInv, TaskInv, NEW e \in Device, NEW g, SaveVolunteerGrade(e, g)
  PROVE  TaskInv'
<1>1. PICK more, h, u : more = <<>> /\ h = Past /\ u = screen[e].peer
  OBVIOUS
<1>2. IsList(more) /\ AllFit(more, h)
  BY <1>1, ShortLists, NothingFits
<1>3. SaveGrade(e, u, g, more) /\ AllFit(more, Past)
  BY <1>1, <1>2 DEF SaveVolunteerGrade
<1> QED
  BY <1>2, <1>3, SaveGradeFits

LEMMA SaveElderGradeFits ==
  ASSUME AppInv, TaskInv, NEW v \in Device, v \in Volunteers, NEW g, SaveElderGrade(v, g)
  PROVE  TaskInv'
<1>1. PICK s, puts, h : s = screen[v] /\ puts = << <<"status", Finished>> >> /\ h = Past
  OBVIOUS
<1>2. PICK u, more : u = s.peer /\ more = UpdateNamed(v, s.name, puts)
  OBVIOUS
<1>3. SaveGrade(v, u, g, more) /\ s.page = "rate"
  BY <1>1, <1>2 DEF SaveElderGrade, SaveGrade
<1>4. puts \in FindPuts /\ \A w : puts # << <<"status", Registered>>, <<"volunteer", w>> >>
  BY <1>1 DEF FindPuts
<1>5. s \in ScreenType /\ ScreenFits(v, s, h)
  BY <1>1, FitNow
<1>6. Means(s.name, puts, h)
  <2>1. CASE s.key = NoKey
    BY <1>5, <2>1 DEF ScreenFits, Means
  <2>2. CASE s.key \in Key
    <3>1. /\ s.key \in DOMAIN h.issued /\ s.name = h.issued[s.key].name
          /\ WasAccepted(s.key, h)
      BY <1>3, <1>5, <2>2 DEF ScreenFits
    <3> QED
      BY <1>4, <3>1 DEF Means
  <2> QED
    BY <1>5, <2>1, <2>2 DEF ScreenType
<1>7. AllFit(more, h) /\ IsList(more)
  <2>1. \A l \in Leaf : view[v][l] \in Right(h)[l]
    BY <1>1 DEF TaskInv, M!HoldsOnly
  <2> QED
    BY <1>2, <1>4, <1>6, <2>1, UpdateNamedFits, CallLists
<1>8. AllFit(more, Past)
  BY <1>1, <1>7
<1> QED
  BY <1>3, <1>7, <1>8, SaveGradeFits

-----------------------------------------------------------------------------
(* The volunteer's decision.                                               *)

LEMMA AcceptFits ==
  ASSUME AppInv, TaskInv, NEW v \in Device, v \in Volunteers, Accept(v)
  PROVE  TaskInv'
<1>1. PICK s, h : s = screen[v] /\ h = Past'
  OBVIOUS
<1>2. PICK puts : puts = << <<"status", Scheduled>> >>
  OBVIOUS
<1>3. /\ accepted' = accepted \cup {<<s.key, v>>}
      /\ UNCHANGED <<found, issued, chosen, assigned, syncVars, rows>>
      /\ screen' = [screen EXCEPT ![v].status = Scheduled]
      /\ calls' = [calls EXCEPT ![v] = @ \o UpdateCalls(s.key, puts)
                                        \o Insert(v, v, "activities", s.name)]
      /\ s.page = "details"
  BY <1>1, <1>2 DEF Accept, Quietly, OnDetails
<1>4. PICK p : p = Past
  OBVIOUS
<1>5. Later(p, h) /\ (ToldApart(h) => assigned' \subseteq chosen')
  <2>1. Later(p, h)
    BY <1>1, <1>3, <1>4 DEF Later, Past
  <2>2. ToldApart(h) => ToldApart(p)
    BY <2>1, ToldApartBefore
  <2> QED
    BY <1>3, <1>4, <2>1, <2>2 DEF TaskInv
<1>6. s \in ScreenType /\ ScreenFits(v, s, h)
  BY <1>1, <1>4, <1>5, FitStays
<1>7. WasAccepted(s.key, h)
  BY <1>1, <1>3 DEF WasAccepted, Past
<1>8. AllFit(UpdateCalls(s.key, puts), h) /\ IsList(UpdateCalls(s.key, puts))
  <2>1. DOMAIN puts = 1 .. 1 /\ \A i \in 1 .. 1 : puts[i][1] = "status" /\ puts[i][2] = Scheduled
    BY <1>2
  <2>2. Fits(<<s.key, "status">>, Scheduled, h)
    BY <1>7 DEF Fits
  <2>3. AllFit(UpdateCalls(s.key, puts), h)
    BY <2>1, <2>2, UpdateFits
  <2>4. IsList(UpdateCalls(s.key, puts))
    BY <2>1, CallLists
  <2> QED
    BY <2>3, <2>4
<1>9. PICK a, b, c : /\ a = calls[v] /\ b = UpdateCalls(s.key, puts)
                     /\ c = Insert(v, v, "activities", s.name)
  OBVIOUS
<1>10. AllFit(a, h) /\ IsList(a) /\ AllFit(c, h) /\ IsList(c)
  BY <1>4, <1>5, <1>9, FitStays, InsertFits, CallLists DEF IsList, ListField
<1>11. calls' = [calls EXCEPT ![v] = a \o b \o c] /\ AllFit(a \o b \o c, h)
  <2>1. AllFit(a \o b, h) /\ IsList(a \o b)
    BY <1>8, <1>9, <1>10, JoinedFits
  <2>2. AllFit(a \o b \o c, h)
    BY <1>10, <2>1, JoinedFits
  <2> QED
    BY <1>3, <1>9, <2>2
<1>12. PICK t : t = [s EXCEPT !.status = Scheduled]
  OBVIOUS
<1>13. screen' = [screen EXCEPT ![v] = t] /\ ScreenFits(v, t, h)
  <2>1. /\ t.key = s.key /\ t.name = s.name /\ t.status = Scheduled /\ t.page = s.page
    BY <1>6, <1>12 DEF ScreenType
  <2>2. Scheduled # Absent
    BY SchemaAssumption DEF Status, Scheduled
  <2>3. ScreenFits(v, t, h)
    BY <1>6, <1>7, <2>1, <2>2 DEF ScreenFits
  <2> QED
    BY <1>1, <1>3, <1>12, <2>3
<1>14. Later(Past, h)
  BY <1>4, <1>5
<1> QED
  BY <1>1, <1>3, <1>5, <1>11, <1>13, <1>14, FitQuiet

LEMMA RejectFits ==
  ASSUME AppInv, TaskInv, NEW v \in Device, v \in Volunteers, Reject(v)
  PROVE  TaskInv'
<1>1. PICK s, h : s = screen[v] /\ h = Past
  OBVIOUS
<1>2. PICK puts, e : /\ puts = << <<"status", Active>>, <<"volunteer", NoUser>> >>
                     /\ e = [op |-> "dismiss"]
  OBVIOUS
<1>3. PICK a, b, c : a = calls[v] /\ b = UpdateCalls(s.key, puts) /\ c = <<e>>
  OBVIOUS
<1>4. /\ UNCHANGED <<syncVars, rows, found, screen, history>>
      /\ calls' = [calls EXCEPT ![v] = a \o b \o c]
  BY <1>1, <1>2, <1>3 DEF Reject, Quietly
<1>5. AllFit(b, h) /\ IsList(b)
  <2>1. /\ DOMAIN puts = 1 .. 2 /\ puts[1][1] = "status" /\ puts[1][2] = Active
        /\ puts[2][1] = "volunteer" /\ puts[2][2] = NoUser
    BY <1>2
  <2>2. Fits(<<s.key, "status">>, Active, h) /\ Fits(<<s.key, "volunteer">>, NoUser, h)
    BY PlainFits
  <2>3. \A i \in 1 .. 2 : Fits(<<s.key, puts[i][1]>>, puts[i][2], h)
    <3> TAKE i \in 1 .. 2
    <3>1. i = 1 \/ i = 2
      OBVIOUS
    <3> QED
      BY <2>1, <2>2, <3>1
  <2> QED
    BY <1>3, <2>1, <2>3, UpdateFits, CallLists
<1>6. AllFit(c, h) /\ IsList(c)
  <2>1. CallFits(e, h)
    BY <1>2 DEF CallFits
  <2> QED
    BY <1>3, <2>1, ShortLists DEF AllFit
<1>7. AllFit(a, h) /\ IsList(a)
  BY <1>1, <1>3, FitNow DEF IsList
<1>8. AllFit(a \o b \o c, h)
  <2>1. AllFit(a \o b, h) /\ IsList(a \o b)
    BY <1>5, <1>7, JoinedFits
  <2> QED
    BY <1>6, <2>1, JoinedFits
<1>9. /\ screen' = [screen EXCEPT ![v] = screen[v]] /\ ScreenFits(v, screen[v], Past)
      /\ AllFit(a \o b \o c, Past)
  BY <1>1, <1>4, <1>8, FitNow
<1> QED
  BY <1>4, <1>9, FitTurn

-----------------------------------------------------------------------------
(* The organiser's assignment.                                             *)

LEMMA AssignFits ==
  ASSUME AppInv, TaskInv, NEW o \in Device, NEW v \in Volunteers, Assign(o, v)
  PROVE  TaskInv'
<1>1. PICK s, h : s = screen[o] /\ h = Past'
  OBVIOUS
<1>2. PICK puts, n : puts = << <<"status", Registered>>, <<"volunteer", v>> >> /\ n = s.name
  OBVIOUS
<1>3. PICK a, b : a = calls[o] /\ b = UpdateNamed(o, n, puts)
  OBVIOUS
<1>4. /\ chosen' = chosen \cup {<<s.key, v>>} /\ assigned' = assigned \cup Hit(o, n, v)
      /\ UNCHANGED <<found, issued, accepted, syncVars, rows>>
      /\ screen' = [screen EXCEPT ![o].page = "done"]
      /\ calls' = [calls EXCEPT ![o] = a \o b]
  BY <1>1, <1>2, <1>3 DEF Assign, Quietly
<1>5. PICK p : p = Past
  OBVIOUS
<1>6. Later(p, h) /\ <<s.key, v>> \in h.chosen
  BY <1>1, <1>4, <1>5 DEF Later, Past
<1>7. s \in ScreenType /\ ScreenFits(o, s, h)
  BY <1>1, <1>5, <1>6, FitStays
<1>8. puts \in FindPuts /\ puts # << <<"status", Finished>> >>
      /\ \A w : puts = << <<"status", Registered>>, <<"volunteer", w>> >> => w = v
  <2>1. Len(puts) = 2 /\ puts[2][2] = v
    BY <1>2
  <2>2. Len(<< <<"status", Finished>> >>) = 1
    OBVIOUS
  <2>3. puts # << <<"status", Finished>> >>
    BY <2>1, <2>2
  <2>4. \A w : puts = << <<"status", Registered>>, <<"volunteer", w>> >> => puts[2][2] = w
    OBVIOUS
  <2>5. puts \in FindPuts
    BY <1>2 DEF FindPuts
  <2> QED
    BY <2>1, <2>3, <2>4, <2>5
<1>9. Means(n, puts, h)
  <2>1. CASE s.key = NoKey
    BY <1>2, <1>7, <2>1 DEF ScreenFits, Means
  <2>2. CASE s.key \in Key
    <3>1. s.key \in DOMAIN h.issued /\ n = h.issued[s.key].name
      BY <1>2, <1>7, <2>2 DEF ScreenFits
    <3> QED
      BY <1>6, <1>8, <3>1 DEF Means
  <2> QED
    BY <1>7, <2>1, <2>2 DEF ScreenType
<1>10. PICK w : w = view[o]
  OBVIOUS
<1>11. \A l \in Leaf : w[l] \in Right(h)[l]
  <2>1. \A l \in Leaf : w[l] \in Right(p)[l]
    BY <1>5, <1>10 DEF TaskInv, M!HoldsOnly
  <2> QED
    BY <1>6, <2>1, RightLater
<1>12. AllFit(b, h) /\ IsList(b)
  <2>1. \A l \in Leaf : view[o][l] \in Right(h)[l]
    BY <1>10, <1>11
  <2> QED
    BY <1>3, <1>8, <1>9, <2>1, UpdateNamedFits, CallLists
<1>13. AllFit(a \o b, h)
  <2>1. AllFit(a, h) /\ IsList(a)
    BY <1>3, <1>5, <1>6, FitStays DEF IsList
  <2> QED
    BY <1>12, <2>1, JoinedFits
<1>14. ToldApart(h) => assigned' \subseteq chosen'
  <2> SUFFICES ASSUME ToldApart(h)
               PROVE  assigned' \subseteq chosen'
    OBVIOUS
  <2>1. assigned \subseteq chosen'
    <3>1. ToldApart(p)
      BY <1>6, ToldApartBefore
    <3> QED
      BY <1>4, <1>5, <3>1 DEF TaskInv
  <2>2. \A k \in Named(w, n) : <<k, v>> \in h.chosen
    BY <1>2, <1>9, <1>11, NamedIsMeant
  <2>3. h.chosen = chosen'
    BY <1>1 DEF Past
  <2>4. Hit(o, n, v) \subseteq chosen'
    BY <1>10, <2>2, <2>3 DEF Hit
  <2> QED
    BY <1>4, <2>1, <2>4
<1>15. PICK t : t = [s EXCEPT !.page = "done"]
  OBVIOUS
<1>16. screen' = [screen EXCEPT ![o] = t] /\ ScreenFits(o, t, h)
  <2>1. t.key = s.key /\ t.name = s.name /\ t.status = s.status /\ t.page = "done"
    BY <1>7, <1>15 DEF ScreenType
  <2>2. ScreenFits(o, t, h)
    BY <1>7, <2>1 DEF ScreenFits
  <2> QED
    BY <1>1, <1>4, <1>15, <2>2
<1>17. Later(Past, h)
  BY <1>5, <1>6
<1> QED
  BY <1>1, <1>4, <1>13, <1>14, <1>16, <1>17, FitQuiet

-----------------------------------------------------------------------------
(* The callbacks.                                                          *)

LEMMA CallFitsNow ==
  ASSUME AppInv, TaskInv, NEW d \in Device, Due(d) # {}
  PROVE  /\ NextCall(d) \in DOMAIN calls[d]
         /\ calls[d][NextCall(d)] \in CallsFor(Len(watches[d]), Allowed(accepted, assigned))
         /\ Ready(d, calls[d][NextCall(d)])
         /\ CallFits(calls[d][NextCall(d)], Past)
<1>1. /\ NextCall(d) \in DOMAIN calls[d]
      /\ calls[d][NextCall(d)] \in CallsFor(Len(watches[d]), Allowed(accepted, assigned))
      /\ Ready(d, calls[d][NextCall(d)])
  BY NextDue
<1>2. AllFit(calls[d], Past)
  BY FitNow
<1> QED
  BY <1>1, <1>2 DEF AllFit

LEMMA RestFits ==
  ASSUME AppInv, TaskInv, NEW d \in Device, NEW i \in DOMAIN calls[d]
  PROVE  /\ AllFit(RemoveAt(calls[d], i), Past)
         /\ RemoveAt(calls[d], i) \in Seq(CallsFor(Len(watches[d]), Allowed(accepted, assigned)))
         /\ AllFit(SubSeq(calls[d], 1, i - 1), Past) /\ IsList(SubSeq(calls[d], 1, i - 1))
         /\ AllFit(SubSeq(calls[d], i + 1, Len(calls[d])), Past)
         /\ IsList(SubSeq(calls[d], i + 1, Len(calls[d])))
<1>1. PICK q, h, C : q = calls[d] /\ h = Past
                     /\ C = CallsFor(Len(watches[d]), Allowed(accepted, assigned))
  OBVIOUS
<1>2. q \in Seq(C) /\ AllFit(q, h) /\ i \in DOMAIN q
  BY <1>1, FitNow
<1>3. /\ AllFit(SubSeq(q, 1, i - 1), h) /\ AllFit(SubSeq(q, i + 1, Len(q)), h)
      /\ AllFit(RemoveAt(q, i), h)
  BY <1>2, PartsFit
<1>4. /\ RemoveAt(q, i) \in Seq(C) /\ SubSeq(q, 1, i - 1) \in Seq(C)
      /\ SubSeq(q, i + 1, Len(q)) \in Seq(C)
  BY <1>2, RemovedKnown
<1> QED
  BY <1>1, <1>3, <1>4 DEF IsList

\* A write, read from a view that fits before, is made.
LEMMA CallbackWriteFits ==
  ASSUME AppInv, AppInv', TaskInv, NEW d \in Device, NEW i \in DOMAIN calls[d],
         NEW w \in M!Write, \A l \in DOMAIN w : Fits(l, w[l], Past),
         Sync!LocalWrite(d, w), Observe(d, RemoveAt(calls[d], i), screen[d]),
         UNCHANGED <<found, history>>
  PROVE  TaskInv'
<1>1. PICK h : h = Past'
  OBVIOUS
<1>2. h = Past /\ Later(Past, h) /\ (ToldApart(h) => assigned' \subseteq chosen')
      /\ accepted' = accepted /\ assigned' = assigned
  BY <1>1, HistoryStands DEF history
<1>3. \A l \in DOMAIN w : Fits(l, w[l], h)
  BY <1>2
<1>4. /\ AllFit(RemoveAt(calls[d], i), h)
      /\ RemoveAt(calls[d], i) \in Seq(CallsFor(Len(watches[d]), Allowed(accepted', assigned')))
  BY <1>2, RestFits
<1>5. screen[d] \in ScreenType /\ ScreenFits(d, screen[d], h)
  BY <1>2, FitNow
<1>6. Emit(d, w, RemoveAt(calls[d], i), screen[d]) /\ UNCHANGED found
  BY DEF Emit
<1> QED
  BY <1>1, <1>2, <1>3, <1>4, <1>5, <1>6, FitEmit

LEMMA RunWriteFits ==
  ASSUME AppInv, AppInv', TaskInv, NEW d \in Device, RunWrite(d)
  PROVE  TaskInv'
<1>1. PICK i, w : i = NextCall(d) /\ w = calls[d][i].put
  OBVIOUS
<1>2. /\ Due(d) # {} /\ calls[d][i].op = "write" /\ Sync!LocalWrite(d, w)
      /\ Observe(d, RemoveAt(calls[d], i), screen[d]) /\ UNCHANGED <<found, history>>
  BY <1>1 DEF RunWrite, Emit
<1>3. /\ i \in DOMAIN calls[d] /\ CallFits(calls[d][i], Past)
      /\ calls[d][i] \in CallsFor(Len(watches[d]), Allowed(accepted, assigned))
  BY <1>1, <1>2, CallFitsNow
<1>4. w \in M!Write /\ \A l \in DOMAIN w : Fits(l, w[l], Past)
  BY <1>1, <1>2, <1>3, CallKinds DEF CallFits, M!WritesOf
<1> QED
  BY <1>2, <1>3, <1>4, CallbackWriteFits

LEMMA RunRateFits ==
  ASSUME AppInv, AppInv', TaskInv, NEW d \in Device, RunRate(d)
  PROVE  TaskInv'
<1>1. PICK i, call : i = NextCall(d) /\ call = calls[d][i]
  OBVIOUS
<1>2. PICK j, w : j = call.watch /\ w = watches[d][j]
  OBVIOUS
<1>3. PICK x, l : /\ x = [sum |-> w.sum + Total(call.grades), count |-> w.count + Len(call.grades)]
                  /\ l = <<w.path, "rating">>
  OBVIOUS
<1>4. /\ Due(d) # {} /\ call.op = "rate" /\ Sync!LocalWrite(d, PutLeaf(l, x))
      /\ Observe(d, RemoveAt(calls[d], i), screen[d]) /\ UNCHANGED <<found, history>>
  BY <1>1, <1>2, <1>3 DEF RunRate
<1>5. i \in DOMAIN calls[d] /\ call \in CallsFor(Len(watches[d]), Allowed(accepted, assigned))
  BY <1>1, <1>4, CallFitsNow
<1>6. j \in 1 .. Len(watches[d]) /\ call.grades \in Seq(Grades) /\ call.grades # <<>>
  BY <1>2, <1>4, <1>5, CallKinds
<1>7. w \in WatchesFor
  BY <1>2, <1>6 DEF AppInv, LocalAt
<1>8. x \in Rating /\ l \in Leaf
  BY <1>3, <1>6, <1>7, RatingAdds, Leaves DEF Rating, WatchesFor
<1>9. PutLeaf(l, x) \in M!Write
  <2>1. x \in Value
    <3>1. ValueOf(l) = {Absent} \cup Rating
      BY <1>3 DEF ValueOf
    <3> QED
      BY <1>8, <3>1 DEF Value
  <2>2. PutLeaf(l, x) \in [{l} -> Value] /\ {l} \in (SUBSET Leaf) \ {{}}
    BY <1>8, <2>1 DEF PutLeaf
  <2> QED
    BY <2>2 DEF M!Write
<1>10. \A m \in DOMAIN PutLeaf(l, x) : Fits(m, PutLeaf(l, x)[m], Past)
  <2>1. PICK h : h = Past
    OBVIOUS
  <2>2. Fits(l, x, h)
    BY <1>3, PlainFits
  <2>3. \A m \in DOMAIN PutLeaf(l, x) : Fits(m, PutLeaf(l, x)[m], h)
    BY <2>2, PutFits
  <2> QED
    BY <2>1, <2>3
<1> QED
  BY <1>4, <1>5, <1>9, <1>10, CallbackWriteFits

LEMMA RunDismissFits ==
  ASSUME AppInv, TaskInv, NEW d \in Device, RunDismiss(d)
  PROVE  TaskInv'
<1>1. PICK i, q, h : i = NextCall(d) /\ q = RemoveAt(calls[d], i) /\ h = Past
  OBVIOUS
<1>2. /\ Due(d) # {} /\ calls' = [calls EXCEPT ![d] = Popped(q)]
      /\ screen' = [screen EXCEPT ![d] = LoginScreen]
      /\ UNCHANGED <<found, history, syncVars, rows>>
  BY <1>1 DEF RunDismiss, Quietly
<1>3. AllFit(q, h) /\ q \in Seq(CallsFor(Len(watches[d]), Allowed(accepted, assigned)))
  BY <1>1, <1>2, CallFitsNow, RestFits
<1>4. AllFit(Popped(q), h) /\ ScreenFits(d, LoginScreen, h)
  BY <1>3, PoppedFit, EmptyScreensFit
<1>5. AllFit(Popped(q), Past) /\ ScreenFits(d, LoginScreen, Past)
  BY <1>1, <1>4
<1> QED
  BY <1>2, <1>5, FitTurn

LEMMA RunFindFits ==
  ASSUME AppInv, TaskInv, NEW d \in Device, RunFind(d)
  PROVE  TaskInv'
<1>1. PICK i, call, v : i = NextCall(d) /\ call = calls[d][i] /\ v = view[d]
  OBVIOUS
<1>2. PICK n, puts, k : n = call.name /\ puts = call.puts /\ k = Min(Named(v, n))
  OBVIOUS
<1>3. PICK a, b, c : /\ a = SubSeq(calls[d], 1, i - 1) /\ b = UpdateCalls(k, puts)
                     /\ c = SubSeq(calls[d], i + 1, Len(calls[d]))
  OBVIOUS
<1>4. /\ Due(d) # {} /\ call.op = "find" /\ calls' = [calls EXCEPT ![d] = a \o b \o c]
      /\ assigned' = assigned \cup
           UNION {Hit(d, n, puts[j][2]) : j \in {j \in DOMAIN puts : puts[j][1] = "volunteer"}}
      /\ UNCHANGED <<found, screen, issued, chosen, accepted, syncVars, rows>>
  BY <1>1, <1>2, <1>3 DEF RunFind, Quietly
<1>5. PICK h : h = Past'
  OBVIOUS
<1>6. h = Past /\ Later(Past, h)
  <2>1. h = Past
    BY <1>4, <1>5 DEF Past
  <2> QED
    BY <2>1 DEF Later
<1>7. /\ i \in DOMAIN calls[d] /\ CallFits(call, h) /\ Ready(d, call)
      /\ call \in CallsFor(Len(watches[d]), Allowed(accepted, assigned))
  BY <1>1, <1>4, <1>6, CallFitsNow
<1>8. /\ puts \in FindPuts /\ Means(n, puts, h) /\ Named(v, n) # {}
      /\ \A l \in Leaf : v[l] \in Right(h)[l]
  BY <1>1, <1>2, <1>4, <1>6, <1>7, CallKinds DEF CallFits, Ready, TaskInv, M!HoldsOnly
<1>9. k \in Named(v, n)
  <2>1. Named(v, n) \in SUBSET Key
    BY DEF Named
  <2> QED
    BY <1>2, <1>8, <2>1, FirstKey
<1>10. AllFit(b, h) /\ IsList(b)
  <2>1. DOMAIN puts = 1 .. 1 \/ DOMAIN puts = 1 .. 2
    <3>1. CASE puts = << <<"status", Finished>> >>
      BY <3>1
    <3>2. ASSUME NEW u \in Volunteers, puts = << <<"status", Registered>>, <<"volunteer", u>> >>
          PROVE  DOMAIN puts = 1 .. 2
      BY <3>2
    <3> QED
      BY <1>8, <3>1, <3>2 DEF FindPuts
  <2>2. IsList(b)
    BY <1>3, <2>1, CallLists
  <2>3. AllFit(b, h)
    BY <1>3, <1>8, <1>9, NamedUpdatesFit
  <2> QED
    BY <2>2, <2>3
<1>11. AllFit(a \o b \o c, h)
  <2>1. AllFit(a, h) /\ IsList(a) /\ AllFit(c, h) /\ IsList(c)
    BY <1>3, <1>6, <1>7, RestFits
  <2>2. AllFit(a \o b, h) /\ IsList(a \o b)
    BY <1>10, <2>1, JoinedFits
  <2> QED
    BY <2>1, <2>2, JoinedFits
<1>12. ToldApart(h) => assigned' \subseteq chosen'
  <2> SUFFICES ASSUME ToldApart(h)
               PROVE  assigned' \subseteq chosen'
    OBVIOUS
  <2>1. assigned \subseteq chosen' /\ h.chosen = chosen'
    BY <1>4, <1>5, <1>6 DEF TaskInv, Past
  <2>2. CASE puts = << <<"status", Finished>> >>
    <3>1. DOMAIN puts = 1 .. 1 /\ puts[1][1] = "status"
      BY <2>2
    <3>2. {j \in DOMAIN puts : puts[j][1] = "volunteer"} = {}
      BY <3>1
    <3> QED
      BY <1>4, <2>1, <3>2
  <2>3. ASSUME NEW u \in Volunteers, puts = << <<"status", Registered>>, <<"volunteer", u>> >>
        PROVE  assigned' \subseteq chosen'
    <3>1. /\ DOMAIN puts = 1 .. 2 /\ puts[1][1] = "status"
          /\ puts[2][1] = "volunteer" /\ puts[2][2] = u
      BY <2>3
    <3>2. {j \in DOMAIN puts : puts[j][1] = "volunteer"} = {2}
      BY <3>1
    <3>3. assigned' = assigned \cup Hit(d, n, u)
      BY <1>4, <3>1, <3>2
    <3>4. \A m \in Named(v, n) : <<m, u>> \in h.chosen
      BY <1>8, <2>3, NamedIsMeant
    <3>5. Hit(d, n, u) \subseteq chosen'
      BY <1>1, <2>1, <3>4 DEF Hit
    <3> QED
      BY <2>1, <3>3, <3>5
  <2> QED
    BY <1>8, <2>2, <2>3 DEF FindPuts
<1>13. screen' = [screen EXCEPT ![d] = screen[d]] /\ ScreenFits(d, screen[d], h)
  BY <1>4, <1>6, FitNow
<1> QED
  BY <1>4, <1>5, <1>6, <1>11, <1>12, <1>13, FitQuiet

LEMMA RunCallbackFits ==
  ASSUME AppInv, AppInv', TaskInv, NEW d \in Device, RunCallback(d)
  PROVE  TaskInv'
BY RunWriteFits, RunFindFits, RunRateFits, RunDismissFits DEF RunCallback

-----------------------------------------------------------------------------
(* The network, and the app started again.                                 *)

LEMMA NetworkFits ==
  ASSUME AppInv, AppInv', TaskInv, NEW d \in Device,
         Commit(d) \/ Deliver(d) \/ Reconnect(d) \/ Restart(d)
  PROVE  TaskInv'
<1>1. PICK h : h = Past'
  OBVIOUS
<1>2. UNCHANGED history
  BY DEF Commit, Deliver, Reconnect, Restart, local
<1>3. /\ h = Past /\ Later(Past, h) /\ (ToldApart(h) => assigned' \subseteq chosen')
      /\ accepted' = accepted /\ assigned' = assigned
  BY <1>1, <1>2, HistoryStands DEF history
<1>4. Writing(Right(h))
  BY DEF Writing, Commit, Deliver, Reconnect, Restart
<1>5. CASE Commit(d)
  <2>1. UNCHANGED <<rows, found, screen, calls>>
    BY <1>5 DEF Commit, local
  <2>2. /\ rows' = [rows EXCEPT ![d] = rows[d]] /\ \A r \in rows[d] : RowFits(r, h)
        /\ found' = [found EXCEPT ![d] = found[d]] /\ \A r \in found[d].rows : RowFits(r, h)
        /\ screen' = [screen EXCEPT ![d] = screen[d]] /\ ScreenFits(d, screen[d], h)
        /\ calls' = [calls EXCEPT ![d] = calls[d]] /\ AllFit(calls[d], h)
    BY <1>3, <2>1, FitNow
  <2> QED
    BY <1>1, <1>3, <1>4, <2>2, FitStep
<1>6. CASE Deliver(d) \/ Reconnect(d)
  <2>1. UNCHANGED <<found, watches>> /\ Observe(d, calls[d], screen[d])
    BY <1>6 DEF Deliver, Reconnect, local
  <2>2. /\ AllFit(calls[d], h) /\ screen[d] \in ScreenType /\ ScreenFits(d, screen[d], h)
        /\ calls[d] \in Seq(CallsFor(Len(watches[d]), Allowed(accepted', assigned')))
    BY <1>3, FitNow
  <2> QED
    BY <1>1, <1>3, <1>4, <2>1, <2>2, FitHeard
<1>7. CASE Restart(d)
  <2>1. /\ Sync!Restart(d)
        /\ rows' = [rows EXCEPT ![d] = Fetched(d, server)]
        /\ found' = [found EXCEPT ![d] = NotSearching]
        /\ screen' = [screen EXCEPT ![d] = NoScreen]
        /\ calls' = [calls EXCEPT ![d] = <<>>]
    BY <1>7 DEF Restart
  <2>2. PICK v, R, q, f, s : /\ v = server /\ R = Fetched(d, v) /\ q = <<>>
                             /\ f = NotSearching /\ s = NoScreen
    OBVIOUS
  <2>3. \A l \in Leaf : v[l] \in Right(h)[l]
    BY <1>3, <2>2 DEF TaskInv, M!HoldsOnly
  <2>4. /\ \A r \in R : RowFits(r, h)
        /\ AllFit(q, h) /\ ScreenFits(d, s, h) /\ \A r \in f.rows : RowFits(r, h)
    BY <2>2, <2>3, FetchedFit, NothingFits, EmptyScreensFit DEF NotSearching
  <2>5. /\ rows' = [rows EXCEPT ![d] = R] /\ found' = [found EXCEPT ![d] = f]
        /\ screen' = [screen EXCEPT ![d] = s] /\ calls' = [calls EXCEPT ![d] = q]
    BY <2>1, <2>2
  <2> QED
    BY <1>1, <1>3, <1>4, <2>4, <2>5, FitStep
<1> QED
  BY <1>5, <1>6, <1>7

-----------------------------------------------------------------------------
(* The invariant holds at the start and is kept by every step.             *)

LEMMA InitTaskInv == Init => TaskInv
<1> SUFFICES ASSUME Init
             PROVE  TaskInv
  OBVIOUS
<1>1. M!Init
  BY SyncActions DEF Init
<1>2. chosen = TakenAtStart /\ assigned = TakenAtStart /\ accepted = TakenAtStart
  BY DEF Init, TakenAtStart
<1>3. PICK h : h = AtStart
  OBVIOUS
<1>4. Past = h
  BY <1>2, <1>3 DEF Init, Past, AtStart
<1>5. \A l \in Leaf : Blank[l] \in Right(h)[l]
  BY <1>3, BlankFits
<1>6. M!HoldsOnly(Right(h))
  BY <1>1, <1>5, MirrorAssumptions, M!InitHoldsOnly
<1>7. ASSUME NEW d \in Device
      PROVE  LocalFits(d, h)
  <2>1. /\ rows[d] = Fetched(d, Blank) /\ found[d] = NotSearching /\ screen[d] = NoScreen
        /\ calls[d] = <<>>
    BY DEF Init
  <2>2. \A r \in Fetched(d, Blank) : RowFits(r, h)
    BY <1>5, FetchedFit
  <2>3. AllFit(<<>>, h) /\ ScreenFits(d, NoScreen, h)
    BY NothingFits, EmptyScreensFit
  <2> QED
    BY <2>1, <2>2, <2>3 DEF LocalFits, NotSearching
<1> QED
  BY <1>2, <1>3, <1>4, <1>6, <1>7 DEF TaskInv, Later

LEMMA StutterFits ==
  ASSUME AppInv, TaskInv, UNCHANGED vars
  PROVE  TaskInv'
<1>1. Past' = Past
  BY DEF vars, history, Past
<1>2. /\ UNCHANGED <<server, view, pending, unheard, inbox>>
      /\ UNCHANGED <<rows, found, screen, calls, assigned, chosen>>
  BY DEF vars, syncVars, history
<1>3. PICK h, K : h = Past /\ K = Right(h)
  OBVIOUS
<1>4. M!HoldsOnly(K)'
  BY <1>2, <1>3 DEF TaskInv, M!HoldsOnly
<1>5. M!HoldsOnly(Right(Past))'
  <2>1. K = Right(Past)'
    BY <1>1, <1>3
  <2>2. /\ \A l \in Leaf : server'[l] \in K[l]
        /\ \A c \in Device, l \in Leaf : view'[c][l] \in K[l]
    BY <1>4 DEF M!HoldsOnly
  <2> QED
    BY <1>4, <2>1 DEF M!HoldsOnly
<1>6. \A d \in Device : LocalFits(d, h)'
  BY <1>2, <1>3 DEF TaskInv, LocalFits
<1>7. \A d \in Device : LocalFits(d, Past)'
  BY <1>1, <1>3, <1>6
<1> QED
  BY <1>1, <1>2, <1>5, <1>7 DEF TaskInv

LEMMA TaskInvKept == AppInv /\ TaskInv /\ [Next]_vars => TaskInv'
<1> SUFFICES ASSUME AppInv, TaskInv, [Next]_vars
             PROVE  TaskInv'
  OBVIOUS
<1>1. AppInv'
  BY NextKeeps
<1>2. CASE UNCHANGED vars
  BY <1>2, StutterFits
<1>3. ASSUME NEW d \in Device, UserActs(d)
      PROVE  TaskInv'
  <2>1. CASE d \in Elders /\ ElderNext(d)
    BY <1>1, <2>1, AddActivityFits, AddFromMapFits, CancelFits, OpensFit, PagesFit,
       SaveVolunteerGradeFits DEF ElderNext
  <2>2. CASE d \in Volunteers /\ VolunteerNext(d)
    BY <1>1, <2>2, OpensFit, PagesFit, AcceptFits, RejectFits, SaveElderGradeFits DEF VolunteerNext
  <2>3. CASE d \in Organisers /\ OrganiserNext(d)
    BY <1>1, <2>3, OpensFit, AssignFits DEF OrganiserNext
  <2>4. CASE TableNext(d)
    BY <2>4, TableFits
  <2> QED
    BY <1>3, <2>1, <2>2, <2>3, <2>4 DEF UserActs
<1>4. ASSUME NEW d \in Device, RunCallback(d)
      PROVE  TaskInv'
  BY <1>1, <1>4, RunCallbackFits
<1>5. ASSUME NEW d \in Device, Commit(d) \/ Deliver(d) \/ Reconnect(d) \/ Restart(d)
      PROVE  TaskInv'
  BY <1>1, <1>5, NetworkFits
<1> QED
  BY <1>2, <1>3, <1>4, <1>5 DEF Next

LEMMA TasksFit == Spec => [](AppInv /\ TaskInv)
<1>1. Init => AppInv /\ TaskInv
  BY InitAppInv, InitTaskInv
<1>2. AppInv /\ TaskInv /\ [Next]_vars => (AppInv /\ TaskInv)'
  BY NextKeeps, TaskInvKept
<1> QED
  BY <1>1, <1>2, PTL DEF Spec

-----------------------------------------------------------------------------
(* The theorems.                                                           *)

\* As long as no two requests were given the same name, an assignment falls on the
\* request the organiser had open, although it is looked up by that name, now or when
\* a request of the name turns up (ActivityDetailsViewController, didSelectRowAt).
THEOREM AssignedAsChosen == Spec => [](ToldApart(Past) => AssignedWasChosen)
<1>1. TaskInv => (ToldApart(Past) => AssignedWasChosen)
  BY DEF TaskInv, AssignedWasChosen
<1> QED
  BY <1>1, TasksFit, PTL

\* As long as no two requests were given the same name, only a task somebody accepted
\* is finished, although a grade finishes it by its name (RateElderViewController,
\* saveButtonPressed).
THEOREM FinishedAfterAccepting == Spec => [](ToldApart(Past) => FinishedWasAccepted)
<1>1. TaskInv => (ToldApart(Past) => FinishedWasAccepted)
  <2> SUFFICES ASSUME TaskInv, ToldApart(Past), NEW k \in Key, StatusOf(server, k) = Finished
               PROVE  \E v \in Volunteers : <<k, v>> \in accepted
    BY DEF FinishedWasAccepted
  <2>1. PICK h, l : h = Past /\ l = <<k, "status">>
    OBVIOUS
  <2>2. l \in Leaf /\ l[1] = k /\ l[2] = "status" /\ server[l] = Finished
    BY <2>1, Leaves DEF RequestField, StatusOf
  <2>3. Fits(l, server[l], h)
    <3>1. PICK s : s = server
      OBVIOUS
    <3>2. \A m \in Leaf : s[m] \in Right(h)[m]
      BY <2>1, <3>1 DEF TaskInv, M!HoldsOnly
    <3> QED
      BY <2>2, <3>1, <3>2, RightFits
  <2>4. WasAccepted(k, h)
    BY <2>1, <2>2, <2>3 DEF Fits
  <2> QED
    BY <2>1, <2>4 DEF WasAccepted, Past
<1> QED
  BY <1>1, TasksFit, PTL

-----------------------------------------------------------------------------
(* The writes a device has still to make.                                  *)

\* The entries of a list: what an account's log and its grades are appended to.
Entered(l) == l[2] \in {"activities", "grades"}
Aside(w) == \A l \in DOMAIN w : ~Entered(l)

WritesIn(q) == {q[i].put : i \in {i \in DOMAIN q : q[i].op = "write"}}
Entries(q) == {w \in WritesIn(q) : ~Aside(w)}

\* Whatever was picked is there, and nothing else.
LEMMA SiftKeeps ==
  ASSUME NEW A, NEW s \in Seq(A), NEW I
  PROVE  /\ \A i \in DOMAIN s : i \in I => \E j \in DOMAIN Sift(s, I) : Sift(s, I)[j] = s[i]
         /\ \A j \in DOMAIN Sift(s, I) : \E i \in DOMAIN s : i \in I /\ Sift(s, I)[j] = s[i]
<1>1. PICK f : /\ Sift(s, I) = f[Len(s)] /\ f[0] = <<>>
               /\ \A n \in 1 .. Len(s) :
                    f[n] = IF n \in I THEN Append(f[n - 1], s[n]) ELSE f[n - 1]
  BY SiftUnfolds
<1> DEFINE Has(t, x) == \E j \in DOMAIN t : t[j] = x
           P == {n \in Nat : f[n] \in Seq(A) /\ \A i \in 1 .. n : i \in I => Has(f[n], s[i])}
<1>2. 0 \in P
  <2>1. f[0] \in Seq(A) /\ \A i \in 1 .. 0 : FALSE
    BY <1>1, EmptySeq
  <2> HIDE DEF Has
  <2> QED
    BY <2>1
<1>3. ASSUME NEW n \in 1 .. Len(s), n - 1 \in P
      PROVE  n \in P
  <2>1. f[n - 1] \in Seq(A) /\ \A i \in 1 .. n - 1 : i \in I => Has(f[n - 1], s[i])
    BY <1>3
  <2>2. n \in Nat /\ s[n] \in A /\ \A i \in 1 .. n : i = n \/ i \in 1 .. n - 1
    OBVIOUS
  <2>3. PICK t, x : t = f[n - 1] /\ x = s[n]
    OBVIOUS
  <2>4. /\ t \in Seq(A) /\ x \in A /\ Append(t, x) \in Seq(A)
        /\ Len(t) + 1 \in DOMAIN Append(t, x) /\ Append(t, x)[Len(t) + 1] = x
        /\ \A j \in DOMAIN t : j \in DOMAIN Append(t, x) /\ Append(t, x)[j] = t[j]
    BY <2>1, <2>2, <2>3
  <2>5. \A y : Has(t, y) => Has(Append(t, x), y)
    BY <2>4
  <2>6. Has(Append(t, x), x)
    BY <2>4
  <2>7. f[n] = IF n \in I THEN Append(t, x) ELSE t
    BY <1>1, <2>3
  <2>8. f[n] \in Seq(A)
    BY <2>4, <2>7
  <2>9. \A i \in 1 .. n : i \in I => Has(f[n], s[i])
    <3> HIDE DEF Has
    <3> QED
      BY <2>1, <2>2, <2>3, <2>5, <2>6, <2>7
  <2> QED
    BY <2>2, <2>8, <2>9
<1>4. Len(s) \in P
  <2>1. Len(s) \in Nat
    OBVIOUS
  <2> HIDE DEF P
  <2>2. \A n \in 0 .. Len(s) : n \in P
    BY <1>2, <1>3, <2>1, UpTo
  <2> QED
    BY <2>1, <2>2
<1>5. PICK t : t = Sift(s, I)
  OBVIOUS
<1>6. t \in Seq({s[i] : i \in DOMAIN s \cap I})
  <2>1. PICK B : B = {s[i] : i \in DOMAIN s \cap I}
    OBVIOUS
  <2>2. \A i \in DOMAIN s : i \in I => s[i] \in B
    BY <2>1
  <2>3. t \in Seq(B)
    BY <1>5, <2>2, SiftType
  <2> QED
    BY <2>1, <2>3
<1>7. \A j \in DOMAIN t : t[j] \in {s[i] : i \in DOMAIN s \cap I}
  BY <1>6
<1>8. \A j \in DOMAIN t : \E i \in DOMAIN s : i \in I /\ t[j] = s[i]
  BY <1>7
<1>9. \A i \in DOMAIN s : i \in I => \E j \in DOMAIN t : t[j] = s[i]
  <2>1. DOMAIN s = 1 .. Len(s)
    OBVIOUS
  <2> QED
    BY <1>1, <1>4, <1>5, <2>1
<1> QED
  BY <1>5, <1>8, <1>9

LEMMA PoppedWrites ==
  ASSUME NEW q, IsList(q)
  PROVE  IsList(Popped(q)) /\ WritesIn(Popped(q)) = WritesIn(q)
<1>1. PICK C : q \in Seq(C)
  BY DEF IsList
<1>2. PICK p, I : p = Popped(q) /\ I = {i \in DOMAIN q : q[i].op # "dismiss"}
  OBVIOUS
<1>3. /\ \A i \in DOMAIN q : i \in I => \E j \in DOMAIN p : p[j] = q[i]
      /\ \A j \in DOMAIN p : \E i \in DOMAIN q : i \in I /\ p[j] = q[i]
  <2>1. p = Sift(q, I)
    BY <1>2 DEF Popped
  <2> QED
    BY <1>1, <2>1, SiftKeeps
<1>4. WritesIn(p) \subseteq WritesIn(q)
  BY <1>3 DEF WritesIn
<1>5. WritesIn(q) \subseteq WritesIn(p)
  <2> SUFFICES ASSUME NEW i \in DOMAIN q, q[i].op = "write"
               PROVE  q[i].put \in WritesIn(p)
    BY DEF WritesIn
  <2>1. i \in I
    BY <1>2
  <2>2. PICK j \in DOMAIN p : p[j] = q[i]
    BY <1>3, <2>1
  <2> QED
    BY <2>2 DEF WritesIn
<1>6. IsList(p)
  BY <1>1, <1>2, PoppedKnown DEF IsList
<1> QED
  BY <1>2, <1>4, <1>5, <1>6

LEMMA JoinedWrites ==
  ASSUME NEW p, NEW q, IsList(p), IsList(q)
  PROVE  IsList(p \o q) /\ WritesIn(p \o q) = WritesIn(p) \cup WritesIn(q)
<1>1. PICK A : p \in Seq(A)
  BY DEF IsList
<1>2. PICK B : q \in Seq(B)
  BY DEF IsList
<1>3. PICK C : C = A \cup B
  OBVIOUS
<1>4. A \subseteq C /\ B \subseteq C
  BY <1>3
<1>5. p \in Seq(C) /\ q \in Seq(C)
  BY <1>1, <1>2, <1>4, SeqMonotonic
<1>6. PICK m, n, s : m = Len(p) /\ n = Len(q) /\ s = p \o q
  OBVIOUS
<1>7. /\ s \in Seq(C) /\ DOMAIN s = 1 .. (m + n) /\ DOMAIN p = 1 .. m /\ DOMAIN q = 1 .. n
      /\ m \in Nat /\ n \in Nat
      /\ \A i \in 1 .. (m + n) : s[i] = IF i =< m THEN p[i] ELSE q[i - m]
  BY <1>5, <1>6, ConcatProperties
<1>8. WritesIn(s) \subseteq WritesIn(p) \cup WritesIn(q)
  <2> SUFFICES ASSUME NEW i \in 1 .. (m + n), s[i].op = "write"
               PROVE  s[i].put \in WritesIn(p) \cup WritesIn(q)
    BY <1>7 DEF WritesIn
  <2>1. CASE i =< m
    <3>1. i \in DOMAIN p /\ s[i] = p[i]
      BY <1>7, <2>1
    <3> QED
      BY <3>1 DEF WritesIn
  <2>2. CASE ~(i =< m)
    <3>1. i - m \in DOMAIN q /\ s[i] = q[i - m]
      BY <1>7, <2>2
    <3> QED
      BY <3>1 DEF WritesIn
  <2> QED
    BY <2>1, <2>2
<1>9. WritesIn(p) \subseteq WritesIn(s)
  <2> SUFFICES ASSUME NEW i \in 1 .. m, p[i].op = "write"
               PROVE  p[i].put \in WritesIn(s)
    BY <1>7 DEF WritesIn
  <2>1. i \in DOMAIN s /\ s[i] = p[i]
    BY <1>7
  <2> QED
    BY <2>1 DEF WritesIn
<1>10. WritesIn(q) \subseteq WritesIn(s)
  <2> SUFFICES ASSUME NEW i \in 1 .. n, q[i].op = "write"
               PROVE  q[i].put \in WritesIn(s)
    BY <1>7 DEF WritesIn
  <2>1. m + i \in 1 .. (m + n) /\ ~(m + i =< m) /\ m + i - m = i
    BY <1>7
  <2>2. m + i \in DOMAIN s /\ s[m + i] = q[i]
    BY <1>7, <2>1
  <2> QED
    BY <2>2 DEF WritesIn
<1>11. IsList(s)
  BY <1>7 DEF IsList
<1> QED
  BY <1>6, <1>8, <1>9, <1>10, <1>11

LEMMA PartWrites ==
  ASSUME NEW q, IsList(q), NEW i \in DOMAIN q
  PROVE  LET a == SubSeq(q, 1, i - 1)
             b == SubSeq(q, i + 1, Len(q))
             mine == {w \in {q[i].put} : q[i].op = "write"}
         IN  /\ IsList(a) /\ IsList(b) /\ IsList(RemoveAt(q, i))
             /\ WritesIn(q) = WritesIn(a) \cup WritesIn(b) \cup mine
             /\ WritesIn(RemoveAt(q, i)) = WritesIn(a) \cup WritesIn(b)
<1>1. PICK C : q \in Seq(C)
  BY DEF IsList
<1>2. PICK a, b : a = SubSeq(q, 1, i - 1) /\ b = SubSeq(q, i + 1, Len(q))
  OBVIOUS
<1>3. PICK mine : mine = {w \in {q[i].put} : q[i].op = "write"}
  OBVIOUS
<1>4. a \in Seq(C) /\ b \in Seq(C) /\ IsList(a) /\ IsList(b)
  BY <1>1, <1>2, RemovedKnown DEF IsList
<1>5. /\ Len(q) \in Nat /\ i \in 1 .. Len(q) /\ DOMAIN q = 1 .. Len(q)
      /\ DOMAIN a = 1 .. i - 1 /\ \A j \in 1 .. i - 1 : a[j] = q[j]
      /\ DOMAIN b = 1 .. Len(q) - i /\ \A j \in 1 .. Len(q) - i : b[j] = q[i + j]
  BY <1>1, <1>2
<1>6. WritesIn(q) \subseteq WritesIn(a) \cup WritesIn(b) \cup mine
  <2> SUFFICES ASSUME NEW j \in 1 .. Len(q), q[j].op = "write"
               PROVE  q[j].put \in WritesIn(a) \cup WritesIn(b) \cup mine
    BY <1>5 DEF WritesIn
  <2>1. CASE j < i
    <3>1. j \in DOMAIN a /\ a[j] = q[j]
      BY <1>5, <2>1
    <3> QED
      BY <3>1 DEF WritesIn
  <2>2. CASE j = i
    BY <1>3, <2>2
  <2>3. CASE j > i
    <3>1. j - i \in DOMAIN b /\ b[j - i] = q[j]
      BY <1>5, <2>3
    <3> QED
      BY <3>1 DEF WritesIn
  <2> QED
    BY <1>5, <2>1, <2>2, <2>3
<1>7. WritesIn(a) \subseteq WritesIn(q)
  <2>1. \A j \in DOMAIN a : j \in DOMAIN q /\ a[j] = q[j]
    BY <1>5
  <2> QED
    BY <2>1 DEF WritesIn
<1>8. WritesIn(b) \subseteq WritesIn(q)
  <2>1. \A j \in DOMAIN b : i + j \in DOMAIN q /\ b[j] = q[i + j]
    BY <1>5
  <2> QED
    BY <2>1 DEF WritesIn
<1>9. mine \subseteq WritesIn(q)
  BY <1>3 DEF WritesIn
<1>10. IsList(RemoveAt(q, i)) /\ WritesIn(RemoveAt(q, i)) = WritesIn(a) \cup WritesIn(b)
  <2>1. RemoveAt(q, i) = a \o b
    BY <1>2 DEF RemoveAt
  <2> QED
    BY <1>4, <2>1, JoinedWrites
<1> QED
  BY <1>2, <1>3, <1>4, <1>6, <1>7, <1>8, <1>9, <1>10

LEMMA ShortWrites ==
  /\ WritesIn(<<>>) = {}
  /\ \A c : c.op # "write" => WritesIn(<<c>>) = {}
  /\ \A w : WritesIn(<<WriteCall(w)>>) = {w}
<1>1. WritesIn(<<>>) = {}
  BY DEF WritesIn
<1>2. ASSUME NEW c, c.op # "write"
      PROVE  WritesIn(<<c>>) = {}
  BY <1>2 DEF WritesIn
<1>3. ASSUME NEW w
      PROVE  WritesIn(<<WriteCall(w)>>) = {w}
  <2>1. PICK c : c = WriteCall(w)
    OBVIOUS
  <2>2. c.op = "write" /\ c.put = w
    BY <2>1 DEF WriteCall
  <2>3. WritesIn(<<c>>) = {w}
    BY <2>2 DEF WritesIn
  <2> QED
    BY <2>1, <2>3
<1> QED
  BY <1>1, <1>2, <1>3

LEMMA PutAside ==
  ASSUME NEW l, NEW x
  PROVE  Aside(PutLeaf(l, x)) <=> ~Entered(l)
BY DEF Aside, PutLeaf

LEMMA RecordsAside ==
  /\ \A k, e, n : Aside(CreateRecord(k, e, n))
  /\ \A k : Aside(RemoveRecord(k))
<1>1. \A f \in RequestField : f \notin {"activities", "grades"}
  BY DEF RequestField
<1>2. \A k, e, n : Aside(CreateRecord(k, e, n))
  BY <1>1 DEF Aside, CreateRecord, Entered
<1>3. \A k : Aside(RemoveRecord(k))
  BY <1>1 DEF Aside, RemoveRecord, Entered, RequestLeaf
<1> QED
  BY <1>2, <1>3

LEMMA InsertWrites ==
  ASSUME NEW d, NEW u, NEW f, NEW x, NEW l, l = <<SafeEmail[u], f>>
  PROVE  WritesIn(Insert(d, u, f, x)) = {PutLeaf(l, Append(view[d][l], x))}
<1>1. PICK w : w = PutLeaf(l, Append(view[d][l], x))
  OBVIOUS
<1>2. Insert(d, u, f, x) = <<WriteCall(w)>>
  BY <1>1 DEF Insert
<1> QED
  BY <1>1, <1>2, ShortWrites

LEMMA InsertRatingWrites ==
  ASSUME NEW d, NEW u
  PROVE  WritesIn(InsertRating(d, u)) = {}
<1>1. PICK gs, c : c = [op |-> "rate", watch |-> Len(watches[d]) + 1, grades |-> gs]
                   /\ gs = view[d][<<SafeEmail[u], "grades">>]
  OBVIOUS
<1>2. InsertRating(d, u) = <<>> \/ InsertRating(d, u) = <<c>>
  BY <1>1 DEF InsertRating
<1>3. c.op # "write"
  BY <1>1
<1>4. WritesIn(<<>>) = {} /\ WritesIn(<<c>>) = {}
  BY <1>3, ShortWrites
<1> QED
  BY <1>2, <1>4

LEMMA UpdateWrites ==
  ASSUME NEW k, NEW puts, \A i \in DOMAIN puts : puts[i][1] \notin {"activities", "grades"}
  PROVE  \A w \in WritesIn(UpdateCalls(k, puts)) : Aside(w)
<1>1. PICK q : q = UpdateCalls(k, puts)
  OBVIOUS
<1>2. ASSUME NEW i \in DOMAIN q
      PROVE  Aside(q[i].put)
  <2>1. PICK l, x : l = <<k, puts[i][1]>> /\ x = puts[i][2]
    OBVIOUS
  <2>2. i \in DOMAIN puts /\ q[i] = WriteCall(PutLeaf(l, x))
    BY <1>1, <1>2, <2>1 DEF UpdateCalls, PutField
  <2>3. q[i].put = PutLeaf(l, x)
    BY <2>2 DEF WriteCall
  <2>4. ~Entered(l)
    BY <2>1, <2>2 DEF Entered
  <2> QED
    BY <2>3, <2>4, PutAside
<1> QED
  BY <1>1, <1>2 DEF WritesIn

LEMMA FindPutsAside ==
  ASSUME NEW puts \in FindPuts
  PROVE  /\ \A i \in DOMAIN puts : puts[i][1] \notin {"activities", "grades"}
         /\ \E m \in Nat : DOMAIN puts = 1 .. m
<1>1. CASE puts = << <<"status", Finished>> >>
  <2>1. DOMAIN puts = 1 .. 1 /\ puts[1][1] = "status"
    BY <1>1
  <2> QED
    BY <2>1
<1>2. ASSUME NEW v \in Volunteers, puts = << <<"status", Registered>>, <<"volunteer", v>> >>
      PROVE  /\ \A i \in DOMAIN puts : puts[i][1] \notin {"activities", "grades"}
             /\ \E m \in Nat : DOMAIN puts = 1 .. m
  <2>1. DOMAIN puts = 1 .. 2 /\ puts[1][1] = "status" /\ puts[2][1] = "volunteer"
    BY <1>2
  <2>2. \A i \in 1 .. 2 : i = 1 \/ i = 2
    OBVIOUS
  <2> QED
    BY <2>1, <2>2
<1> QED
  BY <1>1, <1>2 DEF FindPuts

LEMMA UpdateNamedWrites ==
  ASSUME NEW d, NEW n, NEW puts \in FindPuts
  PROVE  \A w \in WritesIn(UpdateNamed(d, n, puts)) : Aside(w)
<1>1. PICK c, k : c = [op |-> "find", name |-> n, puts |-> puts] /\ k = Min(Named(view[d], n))
  OBVIOUS
<1>2. UpdateNamed(d, n, puts) = UpdateCalls(k, puts) \/ UpdateNamed(d, n, puts) = <<c>>
  BY <1>1 DEF UpdateNamed
<1>3. WritesIn(<<c>>) = {}
  <2>1. c.op # "write"
    BY <1>1
  <2> QED
    BY <2>1, ShortWrites
<1>4. \A w \in WritesIn(UpdateCalls(k, puts)) : Aside(w)
  BY FindPutsAside, UpdateWrites
<1> QED
  BY <1>2, <1>3, <1>4

LEMMA RatingEventsWrites ==
  ASSUME NEW d, NEW old, NEW new
  PROVE  WritesIn(RatingEvents(d, old, new)) = {}
<1>1. PICK q : q = RatingEvents(d, old, new)
  OBVIOUS
<1>2. \A j \in DOMAIN q : q[j].op = "rate"
  BY <1>1 DEF RatingEvents
<1> QED
  BY <1>1, <1>2 DEF WritesIn

\* The entries among them.
LEMMA JoinedEntries ==
  ASSUME NEW p, NEW q, IsList(p), IsList(q)
  PROVE  IsList(p \o q) /\ Entries(p \o q) = Entries(p) \cup Entries(q)
<1>1. PICK s : s = p \o q
  OBVIOUS
<1>2. IsList(s) /\ WritesIn(s) = WritesIn(p) \cup WritesIn(q)
  BY <1>1, JoinedWrites
<1> QED
  BY <1>1, <1>2 DEF Entries

LEMMA PoppedEntries ==
  ASSUME NEW q, IsList(q)
  PROVE  IsList(Popped(q)) /\ Entries(Popped(q)) = Entries(q)
BY PoppedWrites DEF Entries

LEMMA NoEntries ==
  ASSUME NEW q, \A w \in WritesIn(q) : Aside(w)
  PROVE  Entries(q) = {}
BY DEF Entries

LEMMA RemovedEntries ==
  ASSUME NEW q, IsList(q), NEW i \in DOMAIN q
  PROVE  LET r == RemoveAt(q, i)
         IN  /\ IsList(r) /\ Entries(r) \subseteq Entries(q)
             /\ q[i].op # "write" => Entries(r) = Entries(q)
             /\ q[i].op = "write" => /\ q[i].put \in WritesIn(q)
                                     /\ Entries(q) \subseteq Entries(r) \cup {q[i].put}
<1>1. PICK a, b, r, mine : /\ a = SubSeq(q, 1, i - 1) /\ b = SubSeq(q, i + 1, Len(q))
                           /\ r = RemoveAt(q, i) /\ mine = {w \in {q[i].put} : q[i].op = "write"}
  OBVIOUS
<1>2. /\ IsList(r) /\ WritesIn(q) = WritesIn(a) \cup WritesIn(b) \cup mine
      /\ WritesIn(r) = WritesIn(a) \cup WritesIn(b)
  BY <1>1, PartWrites
<1>3. q[i].op # "write" => mine = {}
  BY <1>1
<1>4. q[i].op = "write" => mine = {q[i].put}
  BY <1>1
<1> QED
  BY <1>1, <1>2, <1>3, <1>4 DEF Entries

-----------------------------------------------------------------------------
(* What a step does to the lists, when users wait for the app to come to   *)
(* rest: it leaves them alone, makes a planned entry, plans one, or starts *)
(* the app again.                                                          *)

Log(u) == <<SafeEmail[u], "activities">>
Marks(u) == <<SafeEmail[u], "grades">>

\* The mirror of d takes a step that enters nothing.
Silent(d) == \/ \E w \in M!Write : Aside(w) /\ M!LocalWrite(d, w)
             \/ M!Commit(d) \/ M!Deliver(d) \/ M!Reconnect(d)
             \/ UNCHANGED syncVars

Idles(d) == /\ Silent(d) /\ Entries(calls'[d]) = Entries(calls[d])
            /\ accepted' = accepted /\ saved' = saved

Enters(d) == /\ \E w \in M!Write : /\ M!LocalWrite(d, w) /\ w \in Entries(calls[d])
                                   /\ Entries(calls'[d]) \subseteq Entries(calls[d])
                                   /\ Entries(calls[d]) \subseteq Entries(calls'[d]) \cup {w}
             /\ accepted' = accepted /\ saved' = saved

Plans(d, l, x) == /\ Silent(d) /\ Entries(calls[d]) = {}
                  /\ Entries(calls'[d]) = {PutLeaf(l, Append(view[d][l], x))}

PlansLog(d) ==
  /\ d \in Account /\ saved' = saved
  /\ \E n : /\ Plans(d, Log(d), n)
            /\ \/ accepted' = accepted
               \/ \E k : /\ accepted' = accepted \cup {<<k, d>>}
                         /\ k \in Key => k \in DOMAIN issued /\ issued[k].name = n

PlansGrade(d) ==
  /\ accepted' = accepted
  /\ \E u \in Graded(d) : \E g : /\ Plans(d, Marks(u), g)
                                  /\ saved' = Append(saved, [by |-> d, of |-> u, grade |-> g])

Quits(d) == /\ M!Restart(d) /\ Entries(calls'[d]) = {}
            /\ accepted' = accepted /\ saved' = saved

MoreIssued == \A k \in DOMAIN issued : k \in DOMAIN issued' /\ issued'[k] = issued[k]

Shape(d) == /\ Idles(d) \/ Enters(d) \/ PlansLog(d) \/ PlansGrade(d) \/ Quits(d)
            /\ \A c \in Device \ {d} : calls'[c] = calls[c]
            /\ MoreIssued

LEMMA QueueSet ==
  ASSUME AppInv, NEW d \in Device, NEW q, calls' = [calls EXCEPT ![d] = q]
  PROVE  calls'[d] = q /\ \A c \in Device \ {d} : calls'[c] = calls[c]
<1>1. calls = [c \in Device |-> calls[c]]
  BY DEF AppInv, PerDevice
<1> QED
  BY <1>1

LEMMA QueueIsList ==
  ASSUME AppInv, NEW d \in Device
  PROVE  IsList(calls[d])
BY DEF AppInv, LocalAt, IsList

LEMMA RatingEventsList ==
  ASSUME AppInv, NEW d \in Device, NEW old, NEW new
  PROVE  IsList(RatingEvents(d, old, new))
<1> DEFINE grades(i, v) == v[<<watches[d][i].path, "grades">>]
<1>1. PICK ws : ws = watches[d]
  OBVIOUS
<1>2. ws \in Seq(WatchesFor) /\ DOMAIN ws = 1 .. Len(ws) /\ Len(ws) \in Nat
  BY <1>1 DEF AppInv, LocalAt
<1>3. PICK idx, I, due : /\ idx = [i \in DOMAIN ws |-> i]
                         /\ I = {i \in DOMAIN ws : grades(i, new) # grades(i, old) /\ grades(i, new) # <<>>}
                         /\ due = Sift(idx, I)
  OBVIOUS
<1>4. idx \in Seq(DOMAIN ws)
  <2>1. idx \in [1 .. Len(ws) -> DOMAIN ws]
    BY <1>2, <1>3
  <2> QED
    BY <1>2, <2>1
<1>5. due \in Seq(DOMAIN ws)
  BY <1>3, <1>4, SiftPart
<1>6. PICK m \in Nat : DOMAIN due = 1 .. m
  BY <1>5
<1>7. PICK q : q = [j \in 1 .. m |-> [op |-> "rate", watch |-> due[j], grades |-> grades(due[j], new)]]
  OBVIOUS
<1>8. RatingEvents(d, old, new) = q
  BY <1>1, <1>3, <1>6, <1>7 DEF RatingEvents
<1>9. q = [j \in 1 .. m |-> q[j]]
  BY <1>7
<1>10. q \in [1 .. m -> {q[j] : j \in 1 .. m}]
  BY <1>9
<1>11. q \in Seq({q[j] : j \in 1 .. m})
  BY <1>10
<1> QED
  BY <1>8, <1>11 DEF IsList

LEMMA ObservedEntries ==
  ASSUME AppInv, NEW d \in Device, NEW q, IsList(q), NEW s, Observe(d, q, s)
  PROVE  /\ Entries(calls'[d]) = Entries(q)
         /\ \A c \in Device \ {d} : calls'[c] = calls[c]
<1>1. PICK old, new, e : old = view[d] /\ new = view'[d] /\ e = RatingEvents(d, old, new)
  OBVIOUS
<1>2. IsList(e) /\ WritesIn(e) = {}
  BY <1>1, RatingEventsList, RatingEventsWrites
<1>3. Entries(e) = {}
  BY <1>2 DEF Entries
<1>4. calls' = [calls EXCEPT ![d] = q \o e]
  BY <1>1 DEF Observe
<1>5. calls'[d] = q \o e /\ \A c \in Device \ {d} : calls'[c] = calls[c]
  BY <1>4, QueueSet
<1>6. Entries(q \o e) = Entries(q) \cup Entries(e)
  BY <1>2, JoinedEntries
<1> QED
  BY <1>3, <1>5, <1>6

\* A careful user's device has made every write it was to make.
LEMMA AtRest ==
  ASSUME AppInv, NEW d \in Device, Hasty = FALSE, Acts(d)
  PROVE  Entries(calls[d]) = {}
<1>1. Due(d) = {}
  BY DEF Acts
<1>2. \A i \in DOMAIN calls[d] : calls[d][i].op # "write"
  BY <1>1 DEF Due, Ready
<1>3. WritesIn(calls[d]) = {}
  BY <1>2 DEF WritesIn
<1> QED
  BY <1>3 DEF Entries

\* A tap that writes nothing at once and plans no entry.
LEMMA QuietShape ==
  ASSUME AppInv, NEW d \in Device, UNCHANGED <<syncVars, accepted, saved, issued>>,
         NEW q, calls' = [calls EXCEPT ![d] = q], Entries(q) = Entries(calls[d])
  PROVE  Shape(d)
<1>1. calls'[d] = q /\ \A c \in Device \ {d} : calls'[c] = calls[c]
  BY QueueSet
<1>2. Idles(d)
  BY <1>1 DEF Idles, Silent
<1> QED
  BY <1>1, <1>2 DEF Shape, MoreIssued

LEMMA SameShape ==
  ASSUME AppInv, NEW d \in Device, UNCHANGED <<syncVars, calls, accepted, saved, issued>>
  PROVE  Shape(d)
BY DEF Shape, Idles, Silent, MoreIssued

LEMMA PoppedShape ==
  ASSUME AppInv, NEW d \in Device, UNCHANGED <<syncVars, accepted, saved, issued>>,
         calls' = [calls EXCEPT ![d] = Popped(@)]
  PROVE  Shape(d)
<1>1. PICK q : q = Popped(calls[d])
  OBVIOUS
<1>2. calls' = [calls EXCEPT ![d] = q] /\ Entries(q) = Entries(calls[d])
  BY <1>1, QueueIsList, PoppedEntries
<1> QED
  BY <1>2, QuietShape

\* A request is filed.
LEMMA CreateShape ==
  ASSUME AppInv, NEW e \in Device, e \in Elders, NEW n \in Names \cup {NoName},
         Entries(calls[e]) = {}, NEW cs, IsList(cs), Create(e, n, cs)
  PROVE  /\ Silent(e) /\ Entries(calls'[e]) = Entries(cs)
         /\ \A c \in Device \ {e} : calls'[c] = calls[c]
         /\ MoreIssued /\ accepted' = accepted /\ saved' = saved
<1>1. issued \in Seq(Heading) /\ Len(issued) < MaxRequests
  BY DEF AppInv, Histories, Create
<1>2. PICK k, t : k = Len(issued) + 1 /\ t = [elder |-> e, name |-> n]
  OBVIOUS
<1>3. k \in Key /\ t \in Heading
  BY <1>1, <1>2, SchemaAssumption DEF Key, Heading
<1>4. PICK w, q : w = CreateRecord(k, e, n) /\ q = calls[e] \o cs
  OBVIOUS
<1>5. /\ issued' = Append(issued, t) /\ accepted' = accepted /\ saved' = saved
      /\ Sync!LocalWrite(e, w) /\ Observe(e, q, screen[e])
  BY <1>2, <1>4 DEF Create, Emit
<1>6. w \in M!Write /\ Aside(w)
  BY <1>3, <1>4, CreateKnown, RecordsAside DEF M!WritesOf
<1>7. Silent(e)
  BY <1>5, <1>6, SyncActions DEF Silent
<1>8. MoreIssued
  <2>1. /\ DOMAIN Append(issued, t) = 1 .. k
        /\ \A j \in 1 .. Len(issued) : Append(issued, t)[j] = issued[j]
        /\ DOMAIN issued = 1 .. Len(issued)
    BY <1>1, <1>2, <1>3
  <2> QED
    BY <1>1, <1>2, <1>5, <2>1 DEF MoreIssued
<1>9. IsList(q) /\ Entries(q) = Entries(cs)
  <2>1. PICK a : a = calls[e]
    OBVIOUS
  <2>2. IsList(a) /\ Entries(a) = {}
    BY <2>1, QueueIsList
  <2>3. IsList(a \o cs) /\ Entries(a \o cs) = Entries(a) \cup Entries(cs)
    BY <2>2, JoinedEntries
  <2> QED
    BY <1>4, <2>1, <2>2, <2>3
<1> QED
  BY <1>5, <1>7, <1>8, <1>9, ObservedEntries

LEMMA AddActivityShape ==
  ASSUME AppInv, NEW e \in Device, e \in Elders, NEW n \in Names,
         Entries(calls[e]) = {}, AddActivity(e, n)
  PROVE  Shape(e)
<1>1. PICK cs, l : cs = Insert(e, e, "activities", n) /\ l = Log(e)
  OBVIOUS
<1>2. PICK w : w = PutLeaf(l, Append(view[e][l], n))
  OBVIOUS
<1>3. WritesIn(cs) = {w} /\ ~Aside(w)
  BY <1>1, <1>2, InsertWrites, PutAside DEF Log, Entered
<1>4. Entries(cs) = {w} /\ IsList(cs)
  BY <1>1, <1>3, CallLists DEF Entries
<1>5. Create(e, n, cs)
  BY <1>1 DEF AddActivity
<1>6. /\ Silent(e) /\ Entries(calls'[e]) = {w}
      /\ \A c \in Device \ {e} : calls'[c] = calls[c]
      /\ MoreIssued /\ accepted' = accepted /\ saved' = saved
  BY <1>4, <1>5, CreateShape
<1>7. Plans(e, Log(e), n)
  BY <1>1, <1>2, <1>6 DEF Plans
<1>8. PlansLog(e)
  BY <1>6, <1>7 DEF PlansLog, Account
<1> QED
  BY <1>6, <1>8 DEF Shape

LEMMA AddFromMapShape ==
  ASSUME AppInv, NEW e \in Device, e \in Elders, NEW n \in Names,
         Entries(calls[e]) = {}, AddFromMap(e, n)
  PROVE  Shape(e)
<1>1. PICK cs : cs = <<>>
  OBVIOUS
<1>2. IsList(cs) /\ Entries(cs) = {}
  BY <1>1, ShortLists, ShortWrites DEF Entries
<1>3. Create(e, n, cs)
  BY <1>1 DEF AddFromMap
<1>4. /\ Silent(e) /\ Entries(calls'[e]) = {}
      /\ \A c \in Device \ {e} : calls'[c] = calls[c]
      /\ MoreIssued /\ accepted' = accepted /\ saved' = saved
  BY <1>2, <1>3, CreateShape
<1> QED
  BY <1>4 DEF Shape, Idles

LEMMA CancelShape ==
  ASSUME AppInv, NEW e \in Device, Cancel(e)
  PROVE  Shape(e)
<1>1. PICK w : w = RemoveRecord(screen[e].key)
  OBVIOUS
<1>2. /\ UNCHANGED <<accepted, saved, issued>>
      /\ Sync!LocalWrite(e, w) /\ Observe(e, calls[e], NoScreen)
  BY <1>1 DEF Cancel, Emit, history
<1>3. screen[e].key \in Key \cup {NoKey}
  BY DEF AppInv, LocalAt, ScreensFor, ScreenType
<1>4. w \in M!Write /\ Aside(w)
  BY <1>1, <1>3, RemoveKnown, RecordsAside DEF M!WritesOf
<1>5. Silent(e)
  BY <1>2, <1>4, SyncActions DEF Silent
<1>6. Entries(calls'[e]) = Entries(calls[e]) /\ \A c \in Device \ {e} : calls'[c] = calls[c]
  BY <1>2, QueueIsList, ObservedEntries
<1> QED
  BY <1>2, <1>5, <1>6 DEF Shape, Idles, MoreIssued

\* A grade is saved.
LEMMA SaveGradeShape ==
  ASSUME AppInv, NEW d \in Device, Entries(calls[d]) = {}, NEW u \in Graded(d), NEW g,
         NEW more, IsList(more), \A w \in WritesIn(more) : Aside(w), SaveGrade(d, u, g, more)
  PROVE  Shape(d)
<1>1. PICK a, b, c, e : /\ a = Popped(calls[d]) /\ b = Insert(d, u, "grades", g)
                        /\ c = InsertRating(d, u)
                        /\ e = Insert(d, u, "comments", [name |-> screen[d].name, user |-> d])
  OBVIOUS
<1>2. /\ UNCHANGED <<syncVars, issued, accepted>>
      /\ saved' = Append(saved, [by |-> d, of |-> u, grade |-> g])
      /\ calls' = [calls EXCEPT ![d] = a \o b \o c \o e \o more]
  BY <1>1 DEF SaveGrade, Quietly
<1>3. PICK l, w : l = Marks(u) /\ w = PutLeaf(l, Append(view[d][l], g))
  OBVIOUS
<1>4. IsList(a) /\ Entries(a) = {}
  BY <1>1, QueueIsList, PoppedEntries
<1>5. IsList(b) /\ Entries(b) = {w}
  <2>1. WritesIn(b) = {w} /\ ~Aside(w)
    BY <1>1, <1>3, InsertWrites, PutAside DEF Marks, Entered
  <2> QED
    BY <1>1, <2>1, CallLists DEF Entries
<1>6. IsList(c) /\ Entries(c) = {}
  BY <1>1, CallLists, InsertRatingWrites DEF Entries
<1>7. IsList(e) /\ Entries(e) = {}
  <2>1. PICK m, x, y : /\ m = <<SafeEmail[u], "comments">> /\ y = [name |-> screen[d].name, user |-> d]
                       /\ x = PutLeaf(m, Append(view[d][m], y))
    OBVIOUS
  <2>2. WritesIn(e) = {x} /\ Aside(x)
    BY <1>1, <2>1, InsertWrites, PutAside DEF Entered
  <2> QED
    BY <1>1, <2>2, CallLists DEF Entries
<1>8. Entries(more) = {}
  BY NoEntries
<1>9. PICK q : q = a \o b \o c \o e \o more
  OBVIOUS
<1>10. Entries(q) = {w}
  <2>1. IsList(a \o b) /\ Entries(a \o b) = {w}
    BY <1>4, <1>5, JoinedEntries
  <2>2. IsList(a \o b \o c) /\ Entries(a \o b \o c) = {w}
    BY <1>6, <2>1, JoinedEntries
  <2>3. IsList(a \o b \o c \o e) /\ Entries(a \o b \o c \o e) = {w}
    BY <1>7, <2>2, JoinedEntries
  <2> QED
    BY <1>8, <1>9, <2>3, JoinedEntries
<1>11. calls'[d] = q /\ \A x \in Device \ {d} : calls'[x] = calls[x]
  BY <1>2, <1>9, QueueSet
<1>12. Plans(d, Marks(u), g)
  BY <1>2, <1>3, <1>10, <1>11 DEF Plans, Silent
<1>13. PlansGrade(d)
  BY <1>2, <1>12 DEF PlansGrade
<1> QED
  BY <1>2, <1>11, <1>13 DEF Shape, MoreIssued

LEMMA SaveVolunteerGradeShape ==
  ASSUME AppInv, NEW e \in Device, Entries(calls[e]) = {}, screen[e].peer \in Graded(e),
         NEW g, SaveVolunteerGrade(e, g)
  PROVE  Shape(e)
<1>1. PICK more : more = <<>>
  OBVIOUS
<1>2. IsList(more) /\ \A w \in WritesIn(more) : Aside(w)
  BY <1>1, ShortLists, ShortWrites
<1>3. SaveGrade(e, screen[e].peer, g, more)
  BY <1>1 DEF SaveVolunteerGrade
<1> QED
  BY <1>2, <1>3, SaveGradeShape

LEMMA SaveElderGradeShape ==
  ASSUME AppInv, NEW v \in Device, Entries(calls[v]) = {}, screen[v].peer \in Graded(v),
         NEW g, SaveElderGrade(v, g)
  PROVE  Shape(v)
<1>1. PICK puts, n, more : /\ puts = << <<"status", Finished>> >> /\ n = screen[v].name
                           /\ more = UpdateNamed(v, n, puts)
  OBVIOUS
<1>2. puts \in FindPuts
  BY <1>1 DEF FindPuts
<1>3. IsList(more) /\ \A w \in WritesIn(more) : Aside(w)
  BY <1>1, <1>2, CallLists, UpdateNamedWrites
<1>4. SaveGrade(v, screen[v].peer, g, more)
  BY <1>1 DEF SaveElderGrade
<1> QED
  BY <1>3, <1>4, SaveGradeShape

\* The volunteer's decisions.
LEMMA AcceptShape ==
  ASSUME AppInv, TaskInv, NEW v \in Device, v \in Volunteers, Entries(calls[v]) = {}, Accept(v)
  PROVE  Shape(v)
<1>1. PICK s, puts, l : /\ s = screen[v] /\ puts = << <<"status", Scheduled>> >> /\ l = Log(v)
  OBVIOUS
<1>2. PICK a, b, c, w : /\ a = calls[v] /\ b = UpdateCalls(s.key, puts)
                        /\ c = Insert(v, v, "activities", s.name)
                        /\ w = PutLeaf(l, Append(view[v][l], s.name))
  OBVIOUS
<1>3. /\ accepted' = accepted \cup {<<s.key, v>>}
      /\ UNCHANGED <<issued, saved, syncVars>>
      /\ calls' = [calls EXCEPT ![v] = a \o b \o c]
  BY <1>1, <1>2 DEF Accept, Quietly
<1>4. IsList(a) /\ Entries(a) = {}
  BY <1>2, QueueIsList
<1>5. IsList(b) /\ Entries(b) = {}
  <2>1. DOMAIN puts = 1 .. 1 /\ puts[1][1] = "status"
    BY <1>1
  <2>2. \A i \in DOMAIN puts : puts[i][1] \notin {"activities", "grades"}
    BY <2>1
  <2>3. IsList(b) /\ \A x \in WritesIn(b) : Aside(x)
    BY <1>2, <2>1, <2>2, CallLists, UpdateWrites
  <2> QED
    BY <2>3, NoEntries
<1>6. IsList(c) /\ Entries(c) = {w}
  <2>1. WritesIn(c) = {w} /\ ~Aside(w)
    BY <1>1, <1>2, InsertWrites, PutAside DEF Log, Entered
  <2> QED
    BY <1>2, <2>1, CallLists DEF Entries
<1>7. PICK q : q = a \o b \o c
  OBVIOUS
<1>8. Entries(q) = {w}
  <2>1. IsList(a \o b) /\ Entries(a \o b) = {}
    BY <1>4, <1>5, JoinedEntries
  <2> QED
    BY <1>6, <1>7, <2>1, JoinedEntries
<1>9. calls'[v] = q /\ \A x \in Device \ {v} : calls'[x] = calls[x]
  BY <1>3, <1>7, QueueSet
<1>10. Plans(v, Log(v), s.name)
  BY <1>1, <1>2, <1>3, <1>8, <1>9 DEF Plans, Silent
<1>11. s.key \in Key => s.key \in DOMAIN issued /\ issued[s.key].name = s.name
  <2>1. PICK h : h = Past
    OBVIOUS
  <2>2. ScreenFits(v, s, h) /\ h.issued = issued
    BY <1>1, <2>1 DEF TaskInv, LocalFits, Past
  <2> QED
    BY <2>2 DEF ScreenFits
<1>12. PlansLog(v)
  BY <1>3, <1>10, <1>11 DEF PlansLog, Account
<1> QED
  BY <1>3, <1>9, <1>12 DEF Shape, MoreIssued

LEMMA RejectShape ==
  ASSUME AppInv, NEW v \in Device, Reject(v)
  PROVE  Shape(v)
<1>1. PICK puts, e, k : /\ puts = << <<"status", Active>>, <<"volunteer", NoUser>> >>
                        /\ e = [op |-> "dismiss"] /\ k = screen[v].key
  OBVIOUS
<1>2. PICK a, b, c : a = calls[v] /\ b = UpdateCalls(k, puts) /\ c = <<e>>
  OBVIOUS
<1>3. /\ UNCHANGED <<syncVars, accepted, saved, issued>>
      /\ calls' = [calls EXCEPT ![v] = a \o b \o c]
  BY <1>1, <1>2 DEF Reject, Quietly, history
<1>4. IsList(b) /\ Entries(b) = {}
  <2>1. DOMAIN puts = 1 .. 2 /\ puts[1][1] = "status" /\ puts[2][1] = "volunteer"
    BY <1>1
  <2>2. \A i \in DOMAIN puts : puts[i][1] \notin {"activities", "grades"}
    <3>1. \A i \in 1 .. 2 : i = 1 \/ i = 2
      OBVIOUS
    <3> QED
      BY <2>1, <3>1
  <2>3. IsList(b) /\ \A x \in WritesIn(b) : Aside(x)
    BY <1>2, <2>1, <2>2, CallLists, UpdateWrites
  <2> QED
    BY <2>3, NoEntries
<1>5. IsList(c) /\ Entries(c) = {}
  <2>1. e.op # "write"
    BY <1>1
  <2> QED
    BY <1>2, <2>1, ShortLists, ShortWrites DEF Entries
<1>6. IsList(a)
  BY <1>2, QueueIsList
<1>7. PICK q : q = a \o b \o c
  OBVIOUS
<1>8. Entries(q) = Entries(a)
  <2>1. IsList(a \o b) /\ Entries(a \o b) = Entries(a)
    BY <1>4, <1>6, JoinedEntries
  <2>2. Entries(a \o b \o c) = Entries(a \o b) \cup Entries(c)
    BY <1>5, <2>1, JoinedEntries
  <2> QED
    BY <1>5, <1>7, <2>1, <2>2
<1> QED
  BY <1>2, <1>3, <1>7, <1>8, QuietShape

\* The organiser's.
LEMMA AssignShape ==
  ASSUME AppInv, NEW o \in Device, NEW v \in Volunteers, Assign(o, v)
  PROVE  Shape(o)
<1>1. PICK puts, n : /\ puts = << <<"status", Registered>>, <<"volunteer", v>> >> /\ n = screen[o].name
  OBVIOUS
<1>2. PICK a, b : a = calls[o] /\ b = UpdateNamed(o, n, puts)
  OBVIOUS
<1>3. /\ UNCHANGED <<syncVars, accepted, saved, issued>>
      /\ calls' = [calls EXCEPT ![o] = a \o b]
  BY <1>1, <1>2 DEF Assign, Quietly
<1>4. puts \in FindPuts
  BY <1>1 DEF FindPuts
<1>5. IsList(b) /\ \A w \in WritesIn(b) : Aside(w)
  BY <1>2, <1>4, CallLists, UpdateNamedWrites
<1>6. Entries(b) = {}
  BY <1>5, NoEntries
<1>7. IsList(a)
  BY <1>2, QueueIsList
<1>8. PICK q : q = a \o b
  OBVIOUS
<1>9. Entries(q) = Entries(a)
  <2>1. Entries(a \o b) = Entries(a) \cup Entries(b)
    BY <1>5, <1>7, JoinedEntries
  <2> QED
    BY <1>6, <1>8, <2>1
<1> QED
  BY <1>2, <1>3, <1>8, <1>9, QuietShape

\* The screens and the tables.
LEMMA PagesShape ==
  ASSUME AppInv, NEW d \in Device
  PROVE  /\ OpenElderDetails(d) => Shape(d)
         /\ OpenVolunteerDetails(d) => Shape(d)
         /\ OpenActivityDetails(d) => Shape(d)
         /\ GradePressed(d) => Shape(d)
         /\ RatePressed(d) => Shape(d)
         /\ TableNext(d) => Shape(d)
<1>1. ASSUME NEW s, Open(d, s)
      PROVE  Shape(d)
  <2>1. UNCHANGED <<syncVars, calls, accepted, saved, issued>>
    BY <1>1 DEF Open, Quietly, history
  <2> QED
    BY <2>1, SameShape
<1>2. ASSUME GradePressed(d) \/ RatePressed(d)
      PROVE  Shape(d)
  <2>1. UNCHANGED <<syncVars, calls, accepted, saved, issued>>
    BY <1>2 DEF GradePressed, RatePressed, Quietly, history
  <2> QED
    BY <2>1, SameShape
<1>3. ASSUME TableNext(d)
      PROVE  Shape(d)
  <2>1. CASE BackToTable(d) \/ LogOut(d)
    <3>1. /\ UNCHANGED <<syncVars, accepted, saved, issued>>
          /\ calls' = [calls EXCEPT ![d] = Popped(@)]
      BY <2>1 DEF BackToTable, LogOut, Quietly, history
    <3> QED
      BY <3>1, PoppedShape
  <2>2. CASE \/ Refresh(d) \/ EndSearch(d) \/ BackToDetails(d) \/ LogIn(d)
             \/ \E s \in Status : SearchScope(d, s)
             \/ \E n \in Names : SearchText(d, n)
    <3>1. UNCHANGED <<syncVars, calls, accepted, saved, issued>>
      BY <2>2 DEF Refresh, EndSearch, BackToDetails, LogIn, SearchScope, SearchText, Quietly, history
    <3> QED
      BY <3>1, SameShape
  <2> QED
    BY <1>3, <2>1, <2>2 DEF TableNext
<1> QED
  BY <1>1, <1>2, <1>3 DEF OpenElderDetails, OpenVolunteerDetails, OpenActivityDetails

\* The callbacks.
LEMMA RunWriteShape ==
  ASSUME AppInv, NEW d \in Device, RunWrite(d)
  PROVE  Shape(d)
<1>1. PICK i, w, q, r : /\ i = NextCall(d) /\ w = calls[d][i].put /\ q = calls[d]
                        /\ r = RemoveAt(q, i)
  OBVIOUS
<1>2. /\ Due(d) # {} /\ q[i].op = "write" /\ Sync!LocalWrite(d, w)
      /\ Observe(d, r, screen[d]) /\ UNCHANGED <<accepted, saved, issued>>
  BY <1>1 DEF RunWrite, Emit, history
<1>3. /\ i \in DOMAIN q /\ q[i] \in CallsFor(Len(watches[d]), Allowed(accepted, assigned))
  BY <1>1, <1>2, NextDue
<1>4. w \in M!Write /\ M!LocalWrite(d, w)
  BY <1>1, <1>2, <1>3, CallKinds, SyncActions DEF M!WritesOf
<1>5. IsList(q)
  BY <1>1, QueueIsList
<1>6. /\ IsList(r) /\ Entries(r) \subseteq Entries(q) /\ w \in WritesIn(q)
      /\ Entries(q) \subseteq Entries(r) \cup {w}
  BY <1>1, <1>2, <1>3, <1>5, RemovedEntries
<1>7. Entries(calls'[d]) = Entries(r) /\ \A c \in Device \ {d} : calls'[c] = calls[c]
  BY <1>2, <1>6, ObservedEntries
<1>8. CASE Aside(w)
  <2>1. Silent(d)
    BY <1>4, <1>8 DEF Silent
  <2>2. Entries(r) = Entries(q)
    <3>1. w \notin Entries(q)
      BY <1>8 DEF Entries
    <3> QED
      BY <1>6, <3>1
  <2> QED
    BY <1>1, <1>2, <1>7, <2>1, <2>2 DEF Shape, Idles, MoreIssued
<1>9. CASE ~Aside(w)
  <2>1. w \in Entries(q)
    BY <1>6, <1>9 DEF Entries
  <2>2. Enters(d)
    BY <1>1, <1>2, <1>4, <1>6, <1>7, <2>1 DEF Enters
  <2> QED
    BY <1>2, <1>7, <2>2 DEF Shape, MoreIssued
<1> QED
  BY <1>8, <1>9

LEMMA RunRateShape ==
  ASSUME AppInv, NEW d \in Device, RunRate(d)
  PROVE  Shape(d)
<1>1. PICK i, call, q, r : i = NextCall(d) /\ call = calls[d][i] /\ q = calls[d] /\ r = RemoveAt(q, i)
  OBVIOUS
<1>2. PICK j, w : j = call.watch /\ w = watches[d][j]
  OBVIOUS
<1>3. PICK x, l : /\ x = [sum |-> w.sum + Total(call.grades), count |-> w.count + Len(call.grades)]
                  /\ l = <<w.path, "rating">>
  OBVIOUS
<1>4. /\ Due(d) # {} /\ call.op = "rate" /\ Sync!LocalWrite(d, PutLeaf(l, x))
      /\ Observe(d, r, screen[d]) /\ UNCHANGED <<accepted, saved, issued>>
  BY <1>1, <1>2, <1>3 DEF RunRate, history
<1>5. i \in DOMAIN q /\ call \in CallsFor(Len(watches[d]), Allowed(accepted, assigned))
  BY <1>1, <1>4, NextDue
<1>6. j \in 1 .. Len(watches[d]) /\ call.grades \in Seq(Grades) /\ call.grades # <<>>
  BY <1>2, <1>4, <1>5, CallKinds
<1>7. w \in WatchesFor
  BY <1>2, <1>6 DEF AppInv, LocalAt
<1>8. x \in Rating /\ l \in Leaf
  BY <1>3, <1>6, <1>7, RatingAdds, Leaves DEF Rating, WatchesFor
<1>9. PutLeaf(l, x) \in M!Write
  <2>1. x \in Value
    <3>1. ValueOf(l) = {Absent} \cup Rating
      BY <1>3 DEF ValueOf
    <3> QED
      BY <1>8, <3>1 DEF Value
  <2>2. PutLeaf(l, x) \in [{l} -> Value] /\ {l} \in (SUBSET Leaf) \ {{}}
    BY <1>8, <2>1 DEF PutLeaf
  <2> QED
    BY <2>2 DEF M!Write
<1>10. Aside(PutLeaf(l, x))
  <2>1. ~Entered(l)
    BY <1>3 DEF Entered
  <2> QED
    BY <2>1, PutAside
<1>11. Silent(d)
  BY <1>4, <1>9, <1>10, SyncActions DEF Silent
<1>12. IsList(q)
  BY <1>1, QueueIsList
<1>13. IsList(r) /\ Entries(r) = Entries(q)
  BY <1>1, <1>4, <1>5, <1>12, RemovedEntries
<1>14. Entries(calls'[d]) = Entries(q) /\ \A c \in Device \ {d} : calls'[c] = calls[c]
  BY <1>4, <1>13, ObservedEntries
<1> QED
  BY <1>1, <1>4, <1>11, <1>14 DEF Shape, Idles, MoreIssued

LEMMA RunDismissShape ==
  ASSUME AppInv, NEW d \in Device, RunDismiss(d)
  PROVE  Shape(d)
<1>1. PICK i, q, r, p : i = NextCall(d) /\ q = calls[d] /\ r = RemoveAt(q, i) /\ p = Popped(r)
  OBVIOUS
<1>2. /\ Due(d) # {} /\ q[i].op = "dismiss" /\ calls' = [calls EXCEPT ![d] = p]
      /\ UNCHANGED <<syncVars, accepted, saved, issued>>
  BY <1>1 DEF RunDismiss, Quietly, history
<1>3. i \in DOMAIN q /\ IsList(q)
  BY <1>1, <1>2, NextDue, QueueIsList
<1>4. IsList(r) /\ Entries(r) = Entries(q)
  BY <1>1, <1>2, <1>3, RemovedEntries
<1>5. Entries(p) = Entries(calls[d])
  BY <1>1, <1>4, PoppedEntries
<1> QED
  BY <1>2, <1>5, QuietShape

LEMMA RunFindShape ==
  ASSUME AppInv, NEW d \in Device, RunFind(d)
  PROVE  Shape(d)
<1>1. PICK i, q, call : i = NextCall(d) /\ q = calls[d] /\ call = q[i]
  OBVIOUS
<1>2. PICK puts, k : puts = call.puts /\ k = Min(Named(view[d], call.name))
  OBVIOUS
<1>3. PICK a, b, c, r : /\ a = SubSeq(q, 1, i - 1) /\ b = UpdateCalls(k, puts)
                        /\ c = SubSeq(q, i + 1, Len(q)) /\ r = RemoveAt(q, i)
  OBVIOUS
<1>4. /\ Due(d) # {} /\ call.op = "find" /\ calls' = [calls EXCEPT ![d] = a \o b \o c]
      /\ UNCHANGED <<syncVars, accepted, saved, issued>>
  BY <1>1, <1>2, <1>3 DEF RunFind, Quietly
<1>5. /\ i \in DOMAIN q /\ IsList(q)
      /\ call \in CallsFor(Len(watches[d]), Allowed(accepted, assigned))
  BY <1>1, <1>4, NextDue, QueueIsList
<1>6. puts \in FindPuts
  BY <1>2, <1>4, <1>5, CallKinds
<1>7. IsList(b) /\ Entries(b) = {}
  <2>1. /\ \A j \in DOMAIN puts : puts[j][1] \notin {"activities", "grades"}
        /\ \E m \in Nat : DOMAIN puts = 1 .. m
    BY <1>6, FindPutsAside
  <2>2. IsList(b) /\ \A x \in WritesIn(b) : Aside(x)
    BY <1>3, <2>1, CallLists, UpdateWrites
  <2> QED
    BY <2>2, NoEntries
<1>8. IsList(a) /\ IsList(c) /\ Entries(r) = Entries(a) \cup Entries(c)
  <2>1. /\ IsList(a) /\ IsList(c) /\ WritesIn(r) = WritesIn(a) \cup WritesIn(c)
    BY <1>3, <1>5, PartWrites
  <2> QED
    BY <2>1 DEF Entries
<1>9. Entries(r) = Entries(q)
  BY <1>1, <1>3, <1>4, <1>5, RemovedEntries
<1>10. PICK p : p = a \o b \o c
  OBVIOUS
<1>11. Entries(p) = Entries(calls[d])
  <2>1. IsList(a \o b) /\ Entries(a \o b) = Entries(a) \cup Entries(b)
    BY <1>7, <1>8, JoinedEntries
  <2>2. Entries(a \o b \o c) = Entries(a \o b) \cup Entries(c)
    BY <1>8, <2>1, JoinedEntries
  <2> QED
    BY <1>1, <1>7, <1>8, <1>9, <1>10, <2>1, <2>2
<1> QED
  BY <1>4, <1>10, <1>11, QuietShape

\* The network, and the app started again.
LEMMA NetworkShape ==
  ASSUME AppInv, NEW d \in Device, Commit(d) \/ Deliver(d) \/ Reconnect(d) \/ Restart(d)
  PROVE  Shape(d)
<1>1. UNCHANGED <<accepted, saved, issued>>
  BY DEF Commit, Deliver, Reconnect, Restart, local, history
<1>2. CASE Commit(d)
  <2>1. Silent(d) /\ calls' = calls
    BY <1>2, SyncActions DEF Commit, Silent
  <2> QED
    BY <1>1, <2>1 DEF Shape, Idles, MoreIssued
<1>3. CASE Deliver(d) \/ Reconnect(d)
  <2>1. Silent(d) /\ Observe(d, calls[d], screen[d])
    BY <1>3, SyncActions DEF Deliver, Reconnect, Silent
  <2>2. Entries(calls'[d]) = Entries(calls[d]) /\ \A c \in Device \ {d} : calls'[c] = calls[c]
    BY <2>1, QueueIsList, ObservedEntries
  <2> QED
    BY <1>1, <2>1, <2>2 DEF Shape, Idles, MoreIssued
<1>4. CASE Restart(d)
  <2>1. PICK q : q = <<>>
    OBVIOUS
  <2>2. M!Restart(d) /\ calls' = [calls EXCEPT ![d] = q] /\ Entries(q) = {}
    BY <1>4, <2>1, SyncActions, ShortWrites DEF Restart, Entries
  <2>3. calls'[d] = q /\ \A c \in Device \ {d} : calls'[c] = calls[c]
    BY <2>2, QueueSet
  <2> QED
    BY <1>1, <2>2, <2>3 DEF Shape, Quits, MoreIssued
<1> QED
  BY <1>2, <1>3, <1>4

\* The account a screen may grade is one its device follows.
PeersFollowed == \A d \in Device : d \in Account => screen[d].peer \in Graded(d)

LEMMA StepShapes ==
  ASSUME AppInv, TaskInv, PeersFollowed, Hasty = FALSE, Next
  PROVE  \E d \in Device : Shape(d)
<1>1. ASSUME NEW d \in Device, UserActs(d)
      PROVE  Shape(d)
  <2>1. Entries(calls[d]) = {}
    BY <1>1, AtRest DEF UserActs
  <2>2. CASE d \in Elders /\ ElderNext(d)
    <3>1. screen[d].peer \in Graded(d)
      BY <2>2 DEF PeersFollowed, Account
    <3> QED
      BY <2>1, <2>2, <3>1, AddActivityShape, AddFromMapShape, CancelShape, PagesShape,
         SaveVolunteerGradeShape DEF ElderNext
  <2>3. CASE d \in Volunteers /\ VolunteerNext(d)
    <3>1. screen[d].peer \in Graded(d)
      BY <2>3 DEF PeersFollowed, Account
    <3> QED
      BY <2>1, <2>3, <3>1, PagesShape, AcceptShape, RejectShape, SaveElderGradeShape DEF VolunteerNext
  <2>4. CASE d \in Organisers /\ OrganiserNext(d)
    BY <2>4, PagesShape, AssignShape DEF OrganiserNext
  <2>5. CASE TableNext(d)
    BY <2>5, PagesShape
  <2> QED
    BY <1>1, <2>2, <2>3, <2>4, <2>5 DEF UserActs
<1>2. ASSUME NEW d \in Device, RunCallback(d)
      PROVE  Shape(d)
  BY <1>2, RunWriteShape, RunFindShape, RunRateShape, RunDismissShape DEF RunCallback
<1> QED
  BY <1>1, <1>2, NetworkShape DEF Next

-----------------------------------------------------------------------------
(* The screens keep to the accounts their devices follow.                  *)

LEMMA PeerTurn ==
  ASSUME AppInv, PeersFollowed, NEW d \in Device, NEW s, screen' = [screen EXCEPT ![d] = s],
         d \in Account => s.peer \in Graded(d)
  PROVE  PeersFollowed'
<1>1. screen = [c \in Device |-> screen[c]]
  BY DEF AppInv, PerDevice
<1>2. screen'[d] = s /\ \A c \in Device \ {d} : screen'[c] = screen[c]
  BY <1>1
<1>3. ASSUME NEW c \in Device, c \in Account
      PROVE  screen'[c].peer \in Graded(c)
  BY <1>2, <1>3 DEF PeersFollowed
<1> QED
  BY <1>3 DEF PeersFollowed, Graded

LEMMA SamePeer ==
  ASSUME AppInv, PeersFollowed, NEW d \in Device, NEW s, screen' = [screen EXCEPT ![d] = s],
         s.peer = screen[d].peer \/ s.peer = NoUser
  PROVE  PeersFollowed'
<1>1. d \in Account => screen[d].peer \in Graded(d) /\ NoUser \in Graded(d)
  BY DEF PeersFollowed, Graded, Account
<1>2. d \in Account => s.peer \in Graded(d)
  BY <1>1
<1> QED
  BY <1>2, PeerTurn

LEMMA ScreenPeers ==
  /\ NoScreen.peer = NoUser /\ LoginScreen.peer = NoUser /\ BlankDetails.peer = NoUser
  /\ NoScreen \in ScreenType /\ BlankDetails \in ScreenType
  /\ \A d, v : \A s \in ScreenType : ScreenAfter(d, s, v).peer = s.peer
  /\ \A p : \A s \in ScreenType : [s EXCEPT !.page = p].peer = s.peer
                                  /\ [s EXCEPT !.status = p].peer = s.peer
<1>1. /\ NoScreen.peer = NoUser /\ LoginScreen.peer = NoUser /\ BlankDetails.peer = NoUser
  BY DEF NoScreen, LoginScreen, BlankDetails, Screen
<1>2. NoScreen \in ScreenType /\ BlankDetails \in ScreenType
  BY DEF NoScreen, BlankDetails, Screen, ScreenType
<1>3. \A d, v : \A s \in ScreenType : ScreenAfter(d, s, v).peer = s.peer
  BY DEF ScreenAfter, ScreenType
<1>4. \A p : \A s \in ScreenType : [s EXCEPT !.page = p].peer = s.peer
                                  /\ [s EXCEPT !.status = p].peer = s.peer
  BY DEF ScreenType
<1> QED
  BY <1>1, <1>2, <1>3, <1>4

LEMMA OwnScreen ==
  ASSUME AppInv, NEW d \in Device
  PROVE  screen[d] \in ScreenType
BY DEF AppInv, LocalAt, ScreensFor

LEMMA ObservedPeer ==
  ASSUME AppInv, PeersFollowed, NEW d \in Device, NEW q, NEW s \in ScreenType, Observe(d, q, s),
         s.peer = screen[d].peer \/ s.peer = NoUser
  PROVE  PeersFollowed'
<1>1. PICK t : t = ScreenAfter(d, s, view'[d])
  OBVIOUS
<1>2. t.peer = s.peer /\ screen' = [screen EXCEPT ![d] = t]
  BY <1>1, ScreenPeers DEF Observe
<1> QED
  BY <1>2, SamePeer

LEMMA OpenPeer ==
  ASSUME AppInv, PeersFollowed, NEW d \in Device, NEW s \in ScreenType, Open(d, s),
         d \in Account => s.peer \in Graded(d)
  PROVE  PeersFollowed'
<1>1. PICK t : t = ScreenAfter(d, s, view[d])
  OBVIOUS
<1>2. t.peer = s.peer /\ screen' = [screen EXCEPT ![d] = t]
  BY <1>1, ScreenPeers DEF Open
<1> QED
  BY <1>2, PeerTurn

LEMMA OpensPeer ==
  ASSUME AppInv, PeersFollowed, NEW d \in Device,
         \/ d \in Elders /\ OpenElderDetails(d)
         \/ d \in Volunteers /\ OpenVolunteerDetails(d)
         \/ d \in Organisers /\ OpenActivityDetails(d)
  PROVE  PeersFollowed'
<1>1. ASSUME NEW r \in Row, NEW p, NEW s,
             \/ s = BlankDetails
             \/ /\ Complete(r) /\ p \in Account \cup {NoUser} /\ (d \in Account => p \in Graded(d))
                /\ s = Screen("details", r.key, r.request.name, r.status, p, FALSE),
             Open(d, s)
      PROVE  PeersFollowed'
  <2>1. CASE s = BlankDetails
    <3>1. d \in Account => NoUser \in Graded(d)
      BY DEF Graded, Account
    <3>2. s \in ScreenType /\ (d \in Account => s.peer \in Graded(d))
      BY <2>1, <3>1, ScreenPeers
    <3> QED
      BY <1>1, <3>2, OpenPeer
  <2>2. CASE s # BlankDetails
    <3>1. /\ r.key \in Key \cup {NoKey} /\ r.request \in Heading /\ r.status \in {Absent} \cup Status
      BY <1>1, <2>2 DEF Row, Complete
    <3>2. r.request.name \in Names \cup {NoName}
      BY <3>1 DEF Heading
    <3>3. s \in ScreenType /\ s.peer = p
      <4>1. /\ p \in Account \cup {NoUser}
            /\ s = Screen("details", r.key, r.request.name, r.status, p, FALSE)
        BY <1>1, <2>2
      <4> QED
        BY <3>1, <3>2, <4>1 DEF Screen, ScreenType
    <3> QED
      BY <1>1, <2>2, <3>3, OpenPeer
  <2> QED
    BY <2>1, <2>2
<1>2. \A r \in Shown(d) \cup rows[d] : r \in Row
  BY ShownKnown DEF RowsFor
<1>3. ASSUME NEW r \in Row, Complete(r)
      PROVE  r.request.elder \in Elders
  BY <1>3 DEF Row, Complete, Heading
<1>4. CASE d \in Elders /\ OpenElderDetails(d)
  <2>1. PICK r \in Shown(d) : Open(d, ElderDetails(r))
    BY <1>4 DEF OpenElderDetails
  <2>2. PICK p, s : p = r.volunteer /\ s = ElderDetails(r)
    OBVIOUS
  <2>3. \/ s = BlankDetails
        \/ /\ Complete(r) /\ p # Absent
           /\ s = Screen("details", r.key, r.request.name, r.status, p, FALSE)
    BY <2>2 DEF ElderDetails
  <2>4. r \in Row /\ (p # Absent => p \in Volunteers \cup {NoUser})
    BY <1>2, <2>1, <2>2 DEF Row
  <2>5. Graded(d) = Volunteers \cup {NoUser}
    BY <1>4 DEF Graded
  <2>6. p \in Volunteers \cup {NoUser} => p \in Account \cup {NoUser} /\ p \in Graded(d)
    BY <2>5 DEF Account
  <2> QED
    BY <1>1, <2>1, <2>2, <2>3, <2>4, <2>6
<1>5. CASE d \in Volunteers /\ OpenVolunteerDetails(d)
  <2>1. PICK r \in Shown(d) : Open(d, VolunteerDetails(r))
    BY <1>5 DEF OpenVolunteerDetails
  <2>2. PICK p, s : p = r.request.elder /\ s = VolunteerDetails(r)
    OBVIOUS
  <2>3. \/ s = BlankDetails
        \/ Complete(r) /\ s = Screen("details", r.key, r.request.name, r.status, p, FALSE)
    BY <2>2 DEF VolunteerDetails
  <2>4. r \in Row /\ (Complete(r) => p \in Elders)
    BY <1>2, <1>3, <2>1, <2>2
  <2>5. Graded(d) = Elders \cup {NoUser}
    BY <1>5, SchemaAssumption DEF Graded
  <2>6. p \in Elders => p \in Account \cup {NoUser} /\ p \in Graded(d)
    BY <2>5 DEF Account
  <2> QED
    BY <1>1, <2>1, <2>2, <2>3, <2>4, <2>6
<1>6. CASE d \in Organisers /\ OpenActivityDetails(d)
  <2>1. PICK r \in rows[d] : Open(d, OrganiserDetails(r))
    BY <1>6 DEF OpenActivityDetails
  <2>2. PICK p, s : p = r.request.elder /\ s = OrganiserDetails(r)
    OBVIOUS
  <2>3. \/ s = BlankDetails
        \/ Complete(r) /\ s = Screen("details", r.key, r.request.name, r.status, p, FALSE)
    BY <2>2 DEF OrganiserDetails
  <2>4. r \in Row /\ (Complete(r) => p \in Elders)
    BY <1>2, <1>3, <2>1, <2>2
  <2>5. d \notin Account
    BY <1>6, SchemaAssumption DEF Account
  <2>6. p \in Elders => p \in Account \cup {NoUser}
    BY DEF Account
  <2> QED
    BY <1>1, <2>1, <2>2, <2>3, <2>4, <2>5, <2>6
<1> QED
  BY <1>4, <1>5, <1>6

LEMMA PeersKept == AppInv /\ PeersFollowed /\ [Next]_vars => PeersFollowed'
<1> SUFFICES ASSUME AppInv, PeersFollowed, [Next]_vars
             PROVE  PeersFollowed'
  OBVIOUS
<1>1. ASSUME screen' = screen
      PROVE  PeersFollowed'
  BY <1>1 DEF PeersFollowed, Graded
<1>2. ASSUME NEW d \in Device, NEW q, Observe(d, q, screen[d]) \/ Observe(d, q, NoScreen)
      PROVE  PeersFollowed'
  BY <1>2, OwnScreen, ScreenPeers, ObservedPeer
<1>3. ASSUME NEW d \in Device, NEW p, \/ screen' = [screen EXCEPT ![d].page = p]
                                      \/ screen' = [screen EXCEPT ![d].status = p]
      PROVE  PeersFollowed'
  <2>1. screen[d] \in ScreenType
    BY OwnScreen
  <2>2. CASE screen' = [screen EXCEPT ![d].page = p]
    <3>1. PICK s : s = [screen[d] EXCEPT !.page = p]
      OBVIOUS
    <3>2. s.peer = screen[d].peer /\ screen' = [screen EXCEPT ![d] = s]
      BY <2>1, <2>2, <3>1, ScreenPeers
    <3> QED
      BY <3>2, SamePeer
  <2>3. CASE screen' = [screen EXCEPT ![d].status = p]
    <3>1. PICK s : s = [screen[d] EXCEPT !.status = p]
      OBVIOUS
    <3>2. s.peer = screen[d].peer /\ screen' = [screen EXCEPT ![d] = s]
      BY <2>1, <2>3, <3>1, ScreenPeers
    <3> QED
      BY <3>2, SamePeer
  <2> QED
    BY <1>3, <2>2, <2>3
<1>4. ASSUME NEW d \in Device, \/ screen' = [screen EXCEPT ![d] = NoScreen]
                               \/ screen' = [screen EXCEPT ![d] = LoginScreen]
      PROVE  PeersFollowed'
  BY <1>4, ScreenPeers, SamePeer
<1>5. CASE UNCHANGED vars
  BY <1>1, <1>5 DEF vars
<1>6. ASSUME NEW d \in Device, UserActs(d)
      PROVE  PeersFollowed'
  <2>1. CASE d \in Elders /\ ElderNext(d)
    <3>1. ASSUME NEW n, AddActivity(d, n) \/ AddFromMap(d, n)
          PROVE  PeersFollowed'
      BY <1>2, <3>1 DEF AddActivity, AddFromMap, Create, Emit
    <3>2. CASE Cancel(d)
      BY <1>2, <3>2 DEF Cancel, Emit
    <3>3. CASE GradePressed(d)
      BY <1>3, <3>3 DEF GradePressed
    <3>4. ASSUME NEW g, SaveVolunteerGrade(d, g)
          PROVE  PeersFollowed'
      BY <1>4, <3>4 DEF SaveVolunteerGrade, SaveGrade
    <3> QED
      BY <2>1, <3>1, <3>2, <3>3, <3>4, OpensPeer DEF ElderNext
  <2>2. CASE d \in Volunteers /\ VolunteerNext(d)
    <3>1. CASE Accept(d)
      BY <1>3, <3>1 DEF Accept
    <3>2. CASE Reject(d)
      BY <1>1, <3>2 DEF Reject
    <3>3. CASE RatePressed(d)
      BY <1>3, <3>3 DEF RatePressed
    <3>4. ASSUME NEW g, SaveElderGrade(d, g)
          PROVE  PeersFollowed'
      BY <1>4, <3>4 DEF SaveElderGrade, SaveGrade
    <3> QED
      BY <2>2, <3>1, <3>2, <3>3, <3>4, OpensPeer DEF VolunteerNext
  <2>3. CASE d \in Organisers /\ OrganiserNext(d)
    <3>1. ASSUME NEW v, Assign(d, v)
          PROVE  PeersFollowed'
      BY <1>3, <3>1 DEF Assign
    <3> QED
      BY <2>3, <3>1, OpensPeer DEF OrganiserNext
  <2>4. CASE TableNext(d)
    <3>1. CASE \/ Refresh(d) \/ EndSearch(d) \/ \E s \in Status : SearchScope(d, s)
               \/ \E n \in Names : SearchText(d, n)
      BY <1>1, <3>1 DEF Refresh, EndSearch, SearchScope, SearchText
    <3>2. CASE BackToDetails(d)
      BY <1>3, <3>2 DEF BackToDetails
    <3>3. CASE BackToTable(d) \/ LogOut(d) \/ LogIn(d)
      BY <1>4, <3>3 DEF BackToTable, LogOut, LogIn
    <3> QED
      BY <2>4, <3>1, <3>2, <3>3 DEF TableNext
  <2> QED
    BY <1>6, <2>1, <2>2, <2>3, <2>4 DEF UserActs
<1>7. ASSUME NEW d \in Device, RunCallback(d)
      PROVE  PeersFollowed'
  <2>1. CASE RunWrite(d)
    BY <1>2, <2>1 DEF RunWrite, Emit
  <2>2. CASE RunFind(d)
    BY <1>1, <2>2 DEF RunFind
  <2>3. CASE RunRate(d)
    BY <1>2, <2>3 DEF RunRate
  <2>4. CASE RunDismiss(d)
    BY <1>4, <2>4 DEF RunDismiss
  <2> QED
    BY <1>7, <2>1, <2>2, <2>3, <2>4 DEF RunCallback
<1>8. ASSUME NEW d \in Device, Commit(d) \/ Deliver(d) \/ Reconnect(d) \/ Restart(d)
      PROVE  PeersFollowed'
  <2>1. CASE Commit(d)
    BY <1>1, <2>1 DEF Commit
  <2>2. CASE Deliver(d) \/ Reconnect(d)
    BY <1>2, <2>2 DEF Deliver, Reconnect
  <2>3. CASE Restart(d)
    BY <1>4, <2>3 DEF Restart
  <2> QED
    BY <1>8, <2>1, <2>2, <2>3
<1> QED
  BY <1>5, <1>6, <1>7, <1>8 DEF Next

LEMMA PeersAtStart == Init => PeersFollowed
<1>1. Init => \A d \in Device : screen[d].peer = NoUser
  BY ScreenPeers DEF Init
<1> QED
  BY <1>1 DEF PeersFollowed, Graded, Account

-----------------------------------------------------------------------------
(* Who enters what: an account is the only one to write its log, and the   *)
(* grades of an account are written by those who saved one.                *)

PathsApart == \A u, w \in Account \cup {NoUser} : SafeEmail[u] = SafeEmail[w] => u = w

ByRight(c, l, s) == \/ c \in Account /\ l = Log(c)
                    \/ \E i \in DOMAIN s : s[i].by = c /\ l = Marks(s[i].of)
Own(s) == [c \in Device |-> {w \in M!Write : \A l \in DOMAIN w :
                                Entered(l) => ByRight(c, l, s) /\ w[l] # <<>>}]

\* Nobody but d writes l.
Sole(d, l, s) == Entered(l) /\ \A b \in Device \ {d} : ~ByRight(b, l, s)

Longer(s, t) == \A i \in DOMAIN s : i \in DOMAIN t /\ t[i] = s[i]

WritersInv == /\ IsList(saved)
              /\ \A i \in DOMAIN saved : /\ saved[i].by \in Device
                                         /\ saved[i].of \in Graded(saved[i].by)
              /\ M!SentOnly(Own(saved))
              /\ \A d \in Device : Entries(calls[d]) \subseteq Own(saved)[d]

LEMMA RightGrows ==
  ASSUME NEW s, NEW t, Longer(s, t)
  PROVE  /\ \A c, l : ByRight(c, l, s) => ByRight(c, l, t)
         /\ \A d, l : Sole(d, l, t) => Sole(d, l, s)
         /\ \A c \in Device : Own(s)[c] \subseteq Own(t)[c]
<1>1. \A c, l : ByRight(c, l, s) => ByRight(c, l, t)
  BY DEF ByRight, Longer
<1> QED
  BY <1>1 DEF Sole, Own

LEMMA OthersKeepOff ==
  ASSUME NEW s, NEW d, NEW l, Sole(d, l, s), NEW b \in Device, b # d, NEW w \in Own(s)[b]
  PROVE  l \notin DOMAIN w
BY DEF Own, Sole

LEMMA EnteredLeaves ==
  /\ \A c \in Account : Log(c) \in Leaf /\ Entered(Log(c)) /\ ValueOf(Log(c)) = Seq(Names \cup {NoName})
  /\ \A u \in Account \cup {NoUser} :
       Marks(u) \in Leaf /\ Entered(Marks(u)) /\ ValueOf(Marks(u)) = Seq(Grades)
  /\ \A d : Graded(d) \subseteq Account \cup {NoUser}
  /\ \A u, c : Log(u) # Marks(c)
<1>1. /\ \A c : Log(c)[2] = "activities" /\ Log(c)[1] = SafeEmail[c]
      /\ \A u : Marks(u)[2] = "grades" /\ Marks(u)[1] = SafeEmail[u]
  BY DEF Log, Marks
<1>2. /\ \A c \in Account : Log(c) \in Leaf
      /\ \A u \in Account \cup {NoUser} : Marks(u) \in Leaf
  BY DEF Log, Marks, Leaf, UserLeaf, Path, ListField
<1>3. /\ \A c : ValueOf(Log(c)) = Seq(Names \cup {NoName})
      /\ \A u : ValueOf(Marks(u)) = Seq(Grades)
  BY <1>1 DEF ValueOf
<1>4. \A d : Graded(d) \subseteq Account \cup {NoUser}
  BY DEF Graded, Account
<1>5. \A u, c : Log(u) # Marks(c)
  <2>1. "activities" # "grades"
    OBVIOUS
  <2> QED
    BY <1>1, <2>1
<1> QED
  BY <1>1, <1>2, <1>3, <1>4, <1>5 DEF Entered

LEMMA ViewTyped ==
  ASSUME AppInv, NEW d \in Device, NEW l \in Leaf
  PROVE  view[d][l] \in ValueOf(l) /\ server[l] \in ValueOf(l)
<1>1. view[d][l] \in Allowed(accepted, assigned)[l] /\ server[l] \in Allowed(accepted, assigned)[l]
  BY DEF AppInv, MirrorInv, M!HoldsOnly
<1> QED
  BY <1>1, KnownTypes

LEMMA EntriesTyped ==
  ASSUME NEW n, NEW K, NEW q \in Seq(CallsFor(n, K))
  PROVE  Entries(q) \subseteq M!Write
<1>1. PICK C : C = CallsFor(n, K)
  OBVIOUS
<1>2. ASSUME NEW i \in DOMAIN q, q[i].op = "write"
      PROVE  q[i].put \in M!Write
  <2>1. q[i] \in C
    BY <1>1
  <2>2. q[i].put \in M!WritesOf(K)
    BY <1>1, <1>2, <2>1, CallKinds
  <2> QED
    BY <2>2 DEF M!WritesOf
<1> QED
  BY <1>2 DEF Entries, WritesIn

\* The one entry planned.
LEMMA PlanIsOwn ==
  ASSUME AppInv, AppInv', NEW d \in Device, NEW l, NEW x, Plans(d, l, x), NEW s, ByRight(d, l, s),
         \/ d \in Account /\ l = Log(d)
         \/ \E u \in Graded(d) : l = Marks(u)
  PROVE  Entries(calls'[d]) \subseteq Own(s)[d]
<1>1. PICK y, w : y = Append(view[d][l], x) /\ w = PutLeaf(l, y)
  OBVIOUS
<1>2. Entries(calls'[d]) = {w}
  BY <1>1 DEF Plans
<1>3. l \in Leaf /\ \E A : ValueOf(l) = Seq(A)
  BY EnteredLeaves
<1>4. PICK A : view[d][l] \in Seq(A)
  BY <1>3, ViewTyped
<1>5. y # <<>>
  <2>1. Len(y) = Len(view[d][l]) + 1 /\ Len(view[d][l]) \in Nat
    BY <1>1, <1>4
  <2> QED
    BY <2>1
<1>6. DOMAIN w = {l} /\ w[l] = y
  BY <1>1 DEF PutLeaf
<1>7. w \in M!Write
  <2>1. PICK q, n, K : q = calls'[d] /\ n = Len(watches'[d]) /\ K = Allowed(accepted', assigned')
    OBVIOUS
  <2>2. q \in Seq(CallsFor(n, K))
    BY <2>1 DEF AppInv, LocalAt
  <2>3. Entries(q) \subseteq M!Write
    BY <2>2, EntriesTyped
  <2> QED
    BY <1>2, <2>1, <2>3
<1> QED
  BY <1>2, <1>5, <1>6, <1>7 DEF Own

\* What the mirror of d does in a step.
Moves(d, P) == \/ \E w \in P[d] : w \in M!Write /\ M!LocalWrite(d, w)
               \/ M!Commit(d) \/ M!Deliver(d) \/ M!Reconnect(d) \/ M!Restart(d)
               \/ UNCHANGED syncVars

LEMMA ShapeMoves ==
  ASSUME WritersInv, NEW d \in Device, Shape(d), NEW s, Longer(saved, s)
  PROVE  Moves(d, Own(s))
<1>1. Own(saved)[d] \subseteq Own(s)[d]
  BY RightGrows
<1>2. \A w \in M!Write : Aside(w) => w \in Own(s)[d]
  BY DEF Own, Aside
<1>3. Silent(d) => Moves(d, Own(s))
  BY <1>2 DEF Silent, Moves
<1>4. Entries(calls[d]) \subseteq Own(s)[d]
  BY <1>1 DEF WritersInv
<1>5. Idles(d) => Moves(d, Own(s))
  BY <1>3 DEF Idles
<1>6. Enters(d) => Moves(d, Own(s))
  BY <1>4 DEF Enters, Moves
<1>7. PlansLog(d) \/ PlansGrade(d) => Moves(d, Own(s))
  BY <1>3 DEF PlansLog, PlansGrade, Plans
<1>8. Quits(d) => Moves(d, Own(s))
  BY DEF Quits, Moves
<1> QED
  BY <1>5, <1>6, <1>7, <1>8 DEF Shape

LEMMA SavedStep ==
  ASSUME WritersInv, NEW d \in Device, Shape(d)
  PROVE  /\ Longer(saved, saved') /\ IsList(saved')
         /\ \A i \in DOMAIN saved' : /\ saved'[i].by \in Device
                                     /\ saved'[i].of \in Graded(saved'[i].by)
<1>1. CASE saved' = saved
  BY <1>1 DEF WritersInv, Longer
<1>2. ASSUME NEW u \in Graded(d), NEW g, saved' = Append(saved, [by |-> d, of |-> u, grade |-> g])
      PROVE  /\ Longer(saved, saved') /\ IsList(saved')
             /\ \A i \in DOMAIN saved' : /\ saved'[i].by \in Device
                                         /\ saved'[i].of \in Graded(saved'[i].by)
  <2>1. PICK s, t, x : s = saved /\ t = saved' /\ x = [by |-> d, of |-> u, grade |-> g]
    OBVIOUS
  <2>2. PICK A : s \in Seq(A)
    BY <2>1 DEF WritersInv, IsList
  <2>3. PICK B : B = A \cup {x}
    OBVIOUS
  <2>4. A \subseteq B /\ x \in B
    BY <2>3
  <2>5. s \in Seq(B)
    BY <2>2, <2>4, SeqMonotonic
  <2>6. t = Append(s, x)
    BY <1>2, <2>1
  <2>7. /\ t \in Seq(B) /\ DOMAIN s = 1 .. Len(s) /\ DOMAIN t = 1 .. Len(s) + 1
        /\ Len(s) \in Nat /\ t[Len(s) + 1] = x /\ \A i \in 1 .. Len(s) : t[i] = s[i]
    BY <2>4, <2>5, <2>6
  <2>8. Longer(s, t)
    BY <2>7 DEF Longer
  <2>9. x.by = d /\ x.of = u
    BY <2>1
  <2>10. ASSUME NEW i \in DOMAIN t
         PROVE  t[i].by \in Device /\ t[i].of \in Graded(t[i].by)
    <3>1. i = Len(s) + 1 \/ i \in DOMAIN s
      BY <2>7
    <3>2. CASE i \in DOMAIN s
      <4>1. t[i] = s[i]
        BY <2>7, <3>2
      <4> QED
        BY <2>1, <3>2, <4>1 DEF WritersInv
    <3> QED
      BY <1>2, <2>7, <2>9, <3>1, <3>2
  <2> QED
    BY <2>1, <2>7, <2>8, <2>10 DEF IsList
<1> QED
  BY <1>1, <1>2 DEF Shape, Idles, Enters, PlansLog, PlansGrade, Quits

LEMMA WritersKept ==
  ASSUME AppInv, AppInv', WritersInv, NEW d \in Device, Shape(d)
  PROVE  WritersInv'
<1>1. PICK s, Q : s = saved' /\ Q = Own(s)
  OBVIOUS
<1>2. Longer(saved, s)
  BY <1>1, SavedStep
<1>3. \A c \in Device : Own(saved)[c] \subseteq Q[c]
  BY <1>1, <1>2, RightGrows
<1>4. M!TypeOK
  BY DEF AppInv, MirrorInv, M!IInv
<1>5. M!SentOnly(Q)
  BY <1>3, MirrorAssumptions, M!SentOnlyGrows DEF WritersInv
<1>6. Moves(d, Q)
  BY <1>1, <1>2, ShapeMoves
<1>7. M!SentOnly(Q)'
  <2>1. CASE UNCHANGED syncVars
    BY <1>5, <2>1 DEF M!SentOnly, syncVars
  <2>2. CASE ~UNCHANGED syncVars
    <3>1. \/ \E w \in Q[d] : M!LocalWrite(d, w)
          \/ M!Commit(d) \/ M!Deliver(d) \/ M!Reconnect(d) \/ M!Restart(d)
      BY <1>6, <2>2 DEF Moves
    <3> QED
      BY <1>4, <1>5, <3>1, MirrorAssumptions, M!StepSentOnly
  <2> QED
    BY <2>1, <2>2
<1>8. M!SentOnly(Own(saved))'
  <2>1. Q = Own(saved)'
    BY <1>1 DEF Own
  <2> QED
    BY <1>7, <2>1 DEF M!SentOnly
<1>9. ASSUME NEW c \in Device
      PROVE  Entries(calls'[c]) \subseteq Q[c]
  <2>1. Entries(calls[c]) \subseteq Q[c]
    BY <1>3 DEF WritersInv
  <2>2. CASE c # d
    BY <2>1, <2>2 DEF Shape
  <2>3. CASE c = d
    <3>1. CASE Idles(d) \/ Enters(d) \/ Quits(d)
      <4>1. Entries(calls'[d]) \subseteq Entries(calls[d])
        BY <3>1 DEF Idles, Enters, Quits
      <4> QED
        BY <2>1, <2>3, <4>1
    <3>2. CASE PlansLog(d)
      <4>1. PICK n : Plans(d, Log(d), n) /\ d \in Account
        BY <3>2 DEF PlansLog
      <4>2. ByRight(d, Log(d), s)
        BY <4>1 DEF ByRight
      <4> QED
        BY <1>1, <2>3, <4>1, <4>2, PlanIsOwn
    <3>3. CASE PlansGrade(d)
      <4>0. PICK u \in Graded(d) : \E g : /\ Plans(d, Marks(u), g)
                                          /\ s = Append(saved, [by |-> d, of |-> u, grade |-> g])
        BY <1>1, <3>3 DEF PlansGrade
      <4>1. PICK g : /\ Plans(d, Marks(u), g)
                     /\ s = Append(saved, [by |-> d, of |-> u, grade |-> g])
        BY <4>0
      <4>2. ByRight(d, Marks(u), s)
        <5>1. PICK x, o : x = [by |-> d, of |-> u, grade |-> g] /\ o = saved
          OBVIOUS
        <5>2. PICK A : o \in Seq(A)
          BY <5>1 DEF WritersInv, IsList
        <5>3. /\ s = Append(o, x) /\ DOMAIN s = 1 .. Len(o) + 1 /\ Len(o) \in Nat
              /\ s[Len(o) + 1] = x
          BY <4>1, <5>1, <5>2
        <5>4. Len(o) + 1 \in DOMAIN s /\ s[Len(o) + 1].by = d /\ s[Len(o) + 1].of = u
          BY <5>1, <5>3
        <5> QED
          BY <5>4 DEF ByRight
      <4> QED
        BY <1>1, <2>3, <4>1, <4>2, PlanIsOwn
    <3> QED
      BY <3>1, <3>2, <3>3 DEF Shape
  <2> QED
    BY <2>2, <2>3
<1>10. \A c \in Device : Entries(calls'[c]) \subseteq Own(saved')[c]
  BY <1>1, <1>9
<1> QED
  BY <1>8, <1>10, SavedStep DEF WritersInv, IsList

-----------------------------------------------------------------------------
(* The ledger of a list only d writes: what d shows of it, or is about to  *)
(* write, is all it was to enter.                                          *)

Waiting(q, l) == {w[l] : w \in {w \in Entries(q) : l \in DOMAIN w}}

\* y is the list as d left it, q what d has still to do, v what d shows of the list.
Ledger(q, v, l, y) == /\ Waiting(q, l) \subseteq {y}
                      /\ v = y \/ (y \in Waiting(q, l) /\ \E x : y = Append(v, x))

Logged(d, y, acc, iss) ==
  \A k \in Key : <<k, d>> \in acc =>
     k \in DOMAIN iss /\ \E i \in DOMAIN y : y[i] = iss[k].name

\* The grades of u that were saved.
Given(s, u) == Sift(s, {i \in DOMAIN s : s[i].of = u})
Marked(s, u) == [i \in DOMAIN Given(s, u) |-> Given(s, u)[i].grade]

\* What y has to be: it names the tasks accepted, it is the grades saved.
Records(d, l, y, acc, iss, s) == /\ (d \in Account /\ l = Log(d)) => Logged(d, y, acc, iss)
                                 /\ \A u \in Graded(d) : l = Marks(u) => y = Marked(s, u)

\* y is v with x at the end.
Adds(y, v, x) == y = Append(v, x)

LEMMA GivenAppend ==
  ASSUME NEW s, IsList(s), NEW x, NEW u, NEW t, Adds(t, s, x)
  PROVE  /\ x.of # u => Marked(t, u) = Marked(s, u)
         /\ x.of = u => Adds(Marked(t, u), Marked(s, u), x.grade)
<1>1. PICK A : s \in Seq(A)
  BY DEF IsList
<1>2. PICK B : B = A \cup {x}
  OBVIOUS
<1>3. A \subseteq B /\ x \in B
  BY <1>2
<1>4. s \in Seq(B)
  BY <1>1, <1>3, SeqMonotonic
<1>5. PICK n, I, J : n = Len(s) /\ I = {i \in DOMAIN s : s[i].of = u} /\ J = {i \in DOMAIN t : t[i].of = u}
  OBVIOUS
<1>6. /\ n \in Nat /\ DOMAIN s = 1 .. n /\ DOMAIN t = 1 .. n + 1 /\ t[n + 1] = x
      /\ \A i \in 1 .. n : t[i] = s[i]
  BY <1>3, <1>4, <1>5 DEF Adds
<1>7. PICK a, b : a = Sift(s, I) /\ b = Sift(t, J)
  OBVIOUS
<1>8. Sift(s, J) = a
  <2>1. \A i \in 1 .. n : s[i] = s[i] /\ (i \in J <=> i \in I)
    BY <1>5, <1>6
  <2>2. n \in Nat /\ Len(s) = n
    BY <1>5, <1>6
  <2> QED
    BY <1>7, <2>1, <2>2, SiftSame
<1>9. b = IF n + 1 \in J THEN Append(a, x) ELSE a
  <2>1. Sift(Append(s, x), J) = IF Len(s) + 1 \in J THEN Append(Sift(s, J), x) ELSE Sift(s, J)
    BY <1>3, <1>4, SiftAppend
  <2> QED
    BY <1>5, <1>7, <1>8, <2>1 DEF Adds
<1>10. n + 1 \in J <=> x.of = u
  <2>1. n + 1 \in 1 .. n + 1
    BY <1>6
  <2> QED
    BY <1>5, <1>6, <2>1
<1>11. a \in Seq(B)
  BY <1>4, <1>7, SiftPart
<1>12. Given(s, u) = a /\ Given(t, u) = b
  BY <1>5, <1>7 DEF Given
<1>13. CASE x.of # u
  BY <1>9, <1>10, <1>12, <1>13 DEF Marked
<1>14. CASE x.of = u
  <2>1. PICK m, gs, hs : /\ m = Len(a) /\ gs = [i \in DOMAIN a |-> a[i].grade]
                         /\ hs = [i \in DOMAIN b |-> b[i].grade]
    OBVIOUS
  <2>2. b = Append(a, x)
    BY <1>9, <1>10, <1>14
  <2>3. /\ m \in Nat /\ DOMAIN a = 1 .. m /\ DOMAIN b = 1 .. m + 1 /\ b[m + 1] = x
        /\ \A i \in 1 .. m : b[i] = a[i]
    BY <1>3, <1>11, <2>1, <2>2
  <2>4. PICK C : C = {b[i].grade : i \in 1 .. m + 1}
    OBVIOUS
  <2>5. gs \in [1 .. m -> C]
    <3>1. \A i \in 1 .. m : a[i].grade \in C
      <4>1. \A i \in 1 .. m : i \in 1 .. m + 1 /\ a[i] = b[i]
        BY <2>3
      <4> QED
        BY <2>4, <4>1
    <3> QED
      BY <2>1, <2>3, <3>1
  <2>6. gs \in Seq(C) /\ Len(gs) = m
    BY <2>3, <2>5
  <2>7. x.grade \in C
    <3>1. m + 1 \in 1 .. m + 1
      BY <2>3
    <3> QED
      BY <2>3, <2>4, <3>1
  <2>8. hs = Append(gs, x.grade)
    <3>1. hs = [i \in 1 .. m + 1 |-> IF i = m + 1 THEN x.grade ELSE gs[i]]
      <4>1. \A i \in 1 .. m + 1 : hs[i] = IF i = m + 1 THEN x.grade ELSE gs[i]
        BY <2>1, <2>3
      <4> QED
        BY <2>1, <2>3, <4>1
    <3>2. Append(gs, x.grade) = [i \in 1 .. m + 1 |-> IF i = m + 1 THEN x.grade ELSE gs[i]]
      BY <2>6, <2>7
    <3> QED
      BY <3>1, <3>2
  <2> QED
    BY <1>12, <1>14, <2>1, <2>8 DEF Marked, Adds
<1> QED
  BY <1>13, <1>14

LEMMA WaitingNone ==
  ASSUME NEW q, Entries(q) = {}, NEW l
  PROVE  Waiting(q, l) = {}
BY DEF Waiting

LEMMA WaitingOne ==
  ASSUME NEW q, NEW l, NEW m, NEW y, Entries(q) = {PutLeaf(m, y)}
  PROVE  Waiting(q, l) = IF l = m THEN {y} ELSE {}
<1>1. PICK w : w = PutLeaf(m, y)
  OBVIOUS
<1>2. DOMAIN w = {m} /\ w[m] = y
  BY <1>1 DEF PutLeaf
<1>3. Entries(q) = {w}
  BY <1>1
<1> QED
  BY <1>2, <1>3 DEF Waiting

\* One of the entries is made: of l, or not.
LEMMA WaitingMade ==
  ASSUME NEW q, NEW r, NEW w \in Entries(q), Entries(r) \subseteq Entries(q),
         Entries(q) \subseteq Entries(r) \cup {w}, NEW l
  PROVE  /\ Waiting(r, l) \subseteq Waiting(q, l)
         /\ l \in DOMAIN w => w[l] \in Waiting(q, l)
         /\ l \notin DOMAIN w => Waiting(r, l) = Waiting(q, l)
<1>1. Waiting(r, l) \subseteq Waiting(q, l)
  BY DEF Waiting
<1>2. l \in DOMAIN w => w[l] \in Waiting(q, l)
  BY DEF Waiting
<1>3. ASSUME l \notin DOMAIN w
      PROVE  Waiting(q, l) \subseteq Waiting(r, l)
  <2>1. \A x \in Entries(q) : l \in DOMAIN x => x \in Entries(r)
    BY <1>3
  <2> QED
    BY <2>1 DEF Waiting
<1> QED
  BY <1>1, <1>2, <1>3

LEMMA LedgerPlanned ==
  ASSUME NEW q, NEW v, NEW l, NEW y, Ledger(q, v, l, y), Entries(q) = {},
         NEW r, NEW m, NEW a, NEW x, NEW e, Adds(e, a, x), Entries(r) = {PutLeaf(m, e)},
         l = m => a = v, NEW z, l = m => Adds(z, y, x), l # m => z = y
  PROVE  v = y /\ Ledger(r, v, l, z)
<1>1. v = y
  BY WaitingNone DEF Ledger
<1>2. Waiting(r, l) = IF l = m THEN {e} ELSE {}
  BY WaitingOne
<1>3. CASE l = m
  <2>1. z = e /\ z = Append(v, x)
    BY <1>1, <1>3 DEF Adds
  <2>2. Waiting(r, l) = {z}
    BY <1>2, <1>3, <2>1
  <2>3. Ledger(r, v, l, z)
    BY <2>1, <2>2 DEF Ledger
  <2> QED
    BY <1>1, <2>3
<1>4. CASE l # m
  BY <1>1, <1>2, <1>4 DEF Ledger
<1> QED
  BY <1>3, <1>4

LEMMA LedgerMade ==
  ASSUME NEW q, NEW v, NEW l, NEW y, Ledger(q, v, l, y), NEW r, NEW w \in Entries(q),
         Entries(r) \subseteq Entries(q), Entries(q) \subseteq Entries(r) \cup {w}
  PROVE  Ledger(r, IF l \in DOMAIN w THEN w[l] ELSE v, l, y)
<1>1. /\ Waiting(r, l) \subseteq Waiting(q, l)
      /\ l \in DOMAIN w => w[l] \in Waiting(q, l)
      /\ l \notin DOMAIN w => Waiting(r, l) = Waiting(q, l)
  BY WaitingMade
<1>2. CASE l \in DOMAIN w
  <2>1. w[l] = y
    BY <1>1, <1>2 DEF Ledger
  <2> QED
    BY <1>1, <1>2, <2>1 DEF Ledger
<1>3. CASE l \notin DOMAIN w
  BY <1>1, <1>3 DEF Ledger
<1> QED
  BY <1>2, <1>3

LEMMA LedgerFresh ==
  ASSUME NEW r, Entries(r) = {}, NEW v, NEW l
  PROVE  Ledger(r, v, l, v)
BY WaitingNone DEF Ledger

LEMMA LedgerSame ==
  ASSUME NEW q, NEW v, NEW l, NEW y, Ledger(q, v, l, y), NEW r, Entries(r) = Entries(q)
  PROVE  Ledger(r, v, l, y)
BY DEF Ledger, Waiting

\* What d shows of its list, over a step.
LEMMA OwnKept ==
  ASSUME AppInv, WritersInv, NEW d \in Device, Shape(d), NEW s, Longer(saved, s),
         NEW c \in Device, NEW l \in Listens[c], Sole(c, l, s), M!OwnShown(c, l)
  PROVE  /\ M!OwnShown(c, l)'
         /\ c # d => view'[c][l] = view[c][l]
         /\ Silent(d) => view'[c][l] = view[c][l]
         /\ \A w \in Entries(calls[d]) :
              c = d /\ M!LocalWrite(d, w) => view'[c][l] = IF l \in DOMAIN w THEN w[l] ELSE view[c][l]
<1>1. PICK P : P = Own(s)
  OBVIOUS
<1>2. \A b \in Device : Own(saved)[b] \subseteq P[b]
  BY <1>1, RightGrows
<1>3. M!TypeOK /\ l \in Leaf
  BY MirrorAssumptions DEF AppInv, MirrorInv, M!IInv
<1>4. M!SentOnly(P)
  BY <1>2, MirrorAssumptions, M!SentOnlyGrows DEF WritersInv
<1>5. \A b \in Device \ {c} : \A w \in P[b] : l \notin DOMAIN w
  BY <1>1, OthersKeepOff
<1>6. Moves(d, P)
  BY <1>1, ShapeMoves
<1>7. /\ \A w \in P[d] : M!LocalWrite(d, w) =>
           view'[c][l] = IF d = c /\ l \in DOMAIN w THEN w[l] ELSE view[c][l]
      /\ M!Commit(d) \/ M!Deliver(d) \/ M!Reconnect(d) => view'[c][l] = view[c][l]
      /\ M!Restart(d) => view'[c][l] = IF d = c THEN server[l] ELSE view[c][l]
  BY <1>3, <1>4, <1>5, MirrorAssumptions, M!OwnViewStep
<1>8. UNCHANGED syncVars => view'[c][l] = view[c][l] /\ M!OwnShown(c, l)'
  BY DEF syncVars, M!OwnShown, M!Unacked
<1>9. M!OwnShown(c, l)'
  <2>1. CASE UNCHANGED syncVars
    BY <1>8, <2>1
  <2>2. CASE ~UNCHANGED syncVars
    <3>1. \/ \E w \in P[d] : w \in M!Write /\ M!LocalWrite(d, w)
          \/ M!Commit(d) \/ M!Deliver(d) \/ M!Reconnect(d) \/ M!Restart(d)
      BY <1>6, <2>2 DEF Moves
    <3> QED
      BY <1>3, <1>4, <1>5, <3>1, MirrorAssumptions, M!OwnShownStep
  <2> QED
    BY <2>1, <2>2
<1>10. c # d => view'[c][l] = view[c][l]
  BY <1>6, <1>7, <1>8 DEF Moves
<1>11. Silent(d) => view'[c][l] = view[c][l]
  <2>1. ASSUME NEW w \in M!Write, Aside(w), M!LocalWrite(d, w)
        PROVE  view'[c][l] = view[c][l]
    <3>1. w \in P[d]
      BY <1>1, <2>1 DEF Own, Aside
    <3>2. l \notin DOMAIN w
      BY <2>1 DEF Aside, Sole
    <3> QED
      BY <1>7, <2>1, <3>1, <3>2
  <2> QED
    BY <1>7, <1>8, <2>1 DEF Silent
<1>12. ASSUME NEW w \in Entries(calls[d]), c = d, M!LocalWrite(d, w)
       PROVE  view'[c][l] = IF l \in DOMAIN w THEN w[l] ELSE view[c][l]
  <2>1. w \in P[d]
    BY <1>2 DEF WritersInv
  <2> QED
    BY <1>7, <1>12, <2>1
<1> QED
  BY <1>9, <1>10, <1>11, <1>12

LEMMA FirstRun ==
  ASSUME AppInv, WritersInv, NEW d \in Device, Shape(d)
  PROVE  /\ restarts' = 0 => restarts = 0
         /\ Quits(d) => restarts' # 0
<1>1. restarts \in Nat
  BY DEF AppInv, MirrorInv, M!IInv, M!TypeOK
<1>2. M!Restart(d) => restarts' # 0
  BY <1>1 DEF M!Restart
<1>3. PICK P : P = Own(saved)
  OBVIOUS
<1>4. Moves(d, P)
  BY <1>3, ShapeMoves DEF Longer
<1>5. \/ M!Restart(d) \/ restarts' = restarts
  BY <1>4 DEF Moves, M!LocalWrite, M!Commit, M!Deliver, M!Reconnect, syncVars
<1> QED
  BY <1>2, <1>5 DEF Quits

LEMMA LoggedStays ==
  ASSUME NEW d, NEW y, NEW acc, NEW iss, Logged(d, y, acc, iss),
         NEW acc2, \A k \in Key : <<k, d>> \in acc2 => <<k, d>> \in acc,
         NEW iss2, \A k \in DOMAIN iss : k \in DOMAIN iss2 /\ iss2[k] = iss[k]
  PROVE  Logged(d, y, acc2, iss2)
BY DEF Logged

LEMMA LoggedAlso ==
  ASSUME NEW d, NEW A, NEW y \in Seq(A), NEW acc, NEW iss, Logged(d, y, acc, iss),
         NEW acc2, NEW iss2, \A k \in DOMAIN iss : k \in DOMAIN iss2 /\ iss2[k] = iss[k], NEW n,
         \A k \in Key : <<k, d>> \in acc2 =>
           <<k, d>> \in acc \/ (k \in DOMAIN iss2 /\ iss2[k].name = n)
  PROVE  Logged(d, Append(y, n), acc2, iss2)
<1>1. PICK B : B = A \cup {n}
  OBVIOUS
<1>2. A \subseteq B /\ n \in B
  BY <1>1
<1>3. y \in Seq(B)
  BY <1>2, SeqMonotonic
<1>4. PICK m, z : m = Len(y) /\ z = Append(y, n)
  OBVIOUS
<1>5. /\ m \in Nat /\ DOMAIN y = 1 .. m /\ DOMAIN z = 1 .. m + 1 /\ z[m + 1] = n
      /\ \A i \in 1 .. m : z[i] = y[i]
  BY <1>2, <1>3, <1>4
<1>6. m + 1 \in DOMAIN z /\ \A i \in DOMAIN y : i \in DOMAIN z
  BY <1>5
<1>7. ASSUME NEW k \in Key, <<k, d>> \in acc2
      PROVE  k \in DOMAIN iss2 /\ \E i \in DOMAIN z : z[i] = iss2[k].name
  <2>1. CASE <<k, d>> \in acc
    <3>1. PICK i \in DOMAIN y : y[i] = iss[k].name
      BY <2>1 DEF Logged
    <3>2. k \in DOMAIN iss
      BY <2>1 DEF Logged
    <3> QED
      BY <1>5, <1>6, <3>1, <3>2
  <2>2. CASE k \in DOMAIN iss2 /\ iss2[k].name = n
    BY <1>5, <1>6, <2>2
  <2> QED
    BY <1>7, <2>1, <2>2
<1> QED
  BY <1>4, <1>7 DEF Logged

LEMMA LedgerKept ==
  ASSUME AppInv, AppInv', WritersInv, PathsApart, NEW d \in Device, Shape(d),
         NEW c \in Device, NEW l \in Listens[c], Sole(c, l, saved'), M!OwnShown(c, l),
         NEW y, Ledger(calls[c], view[c][l], l, y),
         restarts = 0 => Records(c, l, y, accepted, issued, saved)
  PROVE  \E z : /\ Ledger(calls'[c], view'[c][l], l, z)
                /\ restarts' = 0 => Records(c, l, z, accepted', issued', saved')
<1>1. PICK s : s = saved'
  OBVIOUS
<1>2. /\ c # d => view'[c][l] = view[c][l]
      /\ Silent(d) => view'[c][l] = view[c][l]
      /\ \A w \in Entries(calls[d]) :
           c = d /\ M!LocalWrite(d, w) => view'[c][l] = IF l \in DOMAIN w THEN w[l] ELSE view[c][l]
  BY <1>1, SavedStep, OwnKept
<1>3. restarts' = 0 => Records(c, l, y, accepted, issued, saved)
  BY FirstRun
<1>4. MoreIssued
  BY DEF Shape
<1>5. PICK q, r, v, w : q = calls[c] /\ r = calls'[c] /\ v = view[c][l] /\ w = view'[c][l]
  OBVIOUS
<1>6. Ledger(q, v, l, y)
  BY <1>5
<1>7. ASSUME accepted' = accepted, saved' = saved
      PROVE  Records(c, l, y, accepted, issued, saved) => Records(c, l, y, accepted', issued', saved')
  BY <1>4, <1>7, LoggedStays DEF Records, MoreIssued
<1>8. SUFFICES \E z : /\ Ledger(r, w, l, z)
                      /\ restarts' = 0 => Records(c, l, z, accepted', issued', saved')
  BY <1>5
<1>9. CASE c # d
  <2>1. Ledger(r, w, l, y)
    BY <1>2, <1>5, <1>6, <1>9 DEF Shape
  <2>2. \A k \in Key : <<k, c>> \in accepted' => <<k, c>> \in accepted
    <3>1. accepted' = accepted \/ \E k : accepted' = accepted \cup {<<k, d>>}
      BY DEF Shape, Idles, Enters, PlansLog, PlansGrade, Quits
    <3> QED
      BY <1>9, <3>1
  <2>3. ASSUME NEW u \in Graded(c), l = Marks(u)
        PROVE  Marked(saved', u) = Marked(saved, u)
    <3>1. CASE saved' = saved
      BY <3>1
    <3>2. CASE PlansGrade(d)
      <4>0. PICK o \in Graded(d) : \E g : saved' = Append(saved, [by |-> d, of |-> o, grade |-> g])
        BY <3>2 DEF PlansGrade
      <4>1. PICK g : saved' = Append(saved, [by |-> d, of |-> o, grade |-> g])
        BY <4>0
      <4>2. PICK x, t : x = [by |-> d, of |-> o, grade |-> g] /\ t = saved
        OBVIOUS
      <4>3. Adds(s, t, x) /\ x.by = d /\ x.of = o /\ IsList(t)
        BY <1>1, <4>1, <4>2 DEF WritersInv, Adds
      <4>4. o # u
        <5>1. PICK A : t \in Seq(A)
          BY <4>3 DEF IsList
        <5>2. Len(t) + 1 \in DOMAIN s /\ s[Len(t) + 1] = x
          BY <4>3, <5>1 DEF Adds
        <5>3. ByRight(d, Marks(o), s)
          BY <4>3, <5>2 DEF ByRight
        <5> QED
          BY <1>1, <1>9, <2>3, <5>3 DEF Sole
      <4>5. Marked(s, u) = Marked(t, u)
        BY <4>3, <4>4, GivenAppend
      <4> QED
        BY <1>1, <4>2, <4>5
    <3> QED
      BY <3>1, <3>2 DEF Shape, Idles, Enters, PlansLog, Quits
  <2>4. Records(c, l, y, accepted, issued, saved) => Records(c, l, y, accepted', issued', saved')
    BY <1>4, <2>2, <2>3, LoggedStays DEF Records, MoreIssued
  <2> QED
    BY <1>3, <2>1, <2>4
<1>10. CASE c = d /\ Idles(d)
  <2>1. Ledger(r, w, l, y)
    BY <1>2, <1>5, <1>6, <1>10, LedgerSame DEF Idles
  <2> QED
    BY <1>3, <1>7, <1>10, <2>1 DEF Idles
<1>11. CASE c = d /\ Enters(d)
  <2>1. PICK x \in M!Write : /\ M!LocalWrite(d, x) /\ x \in Entries(q)
                             /\ Entries(r) \subseteq Entries(q)
                             /\ Entries(q) \subseteq Entries(r) \cup {x}
    BY <1>5, <1>11 DEF Enters
  <2>2. w = IF l \in DOMAIN x THEN x[l] ELSE v
    BY <1>2, <1>5, <1>11, <2>1
  <2>3. Ledger(r, w, l, y)
    BY <1>6, <2>1, <2>2, LedgerMade
  <2> QED
    BY <1>3, <1>7, <1>11, <2>3 DEF Enters
<1>12. CASE c = d /\ PlansLog(d)
  <2>1. PICK n : /\ Plans(d, Log(d), n)
                 /\ \/ accepted' = accepted
                    \/ \E k : /\ accepted' = accepted \cup {<<k, d>>}
                              /\ k \in Key => k \in DOMAIN issued /\ issued[k].name = n
    BY <1>12 DEF PlansLog
  <2>2. PICK m, a, e : m = Log(d) /\ a = view[d][m] /\ Adds(e, a, n)
    BY DEF Adds
  <2>3. PICK z : (l = m => Adds(z, y, n)) /\ (l # m => z = y)
    BY DEF Adds
  <2>4. /\ Entries(q) = {} /\ Entries(r) = {PutLeaf(m, e)} /\ (l = m => a = v)
        /\ Silent(d) /\ d \in Account /\ saved' = saved
    BY <1>5, <1>12, <2>1, <2>2 DEF Plans, PlansLog, Adds
  <2>5. v = y /\ Ledger(r, v, l, z)
    BY <1>6, <2>2, <2>4, <2>3, LedgerPlanned
  <2>6. Ledger(r, w, l, z)
    BY <1>2, <1>5, <2>4, <2>5
  <2>7. ASSUME Records(c, l, y, accepted, issued, saved)
        PROVE  Records(c, l, z, accepted', issued', saved')
    <3>1. CASE l = m
      <4>1. y \in Seq(Names \cup {NoName})
        <5>1. view[d][l] \in ValueOf(Log(d)) /\ ValueOf(Log(d)) = Seq(Names \cup {NoName})
          BY <2>2, <2>4, <3>1, EnteredLeaves, ViewTyped
        <5> QED
          BY <1>5, <1>12, <2>5, <5>1
      <4>2. \A k \in Key : <<k, d>> \in accepted' =>
              <<k, d>> \in accepted \/ (k \in DOMAIN issued' /\ issued'[k].name = n)
        BY <1>4, <2>1 DEF MoreIssued
      <4>3. Logged(d, y, accepted, issued)
        BY <1>12, <2>2, <2>4, <2>7, <3>1 DEF Records
      <4>4. Logged(d, Append(y, n), accepted', issued')
        BY <1>4, <4>1, <4>2, <4>3, LoggedAlso DEF MoreIssued
      <4>5. \A u : l # Marks(u)
        BY <2>2, <3>1, EnteredLeaves
      <4> QED
        BY <1>12, <2>2, <2>3, <3>1, <4>4, <4>5 DEF Records, Adds
    <3>2. CASE l # m
      BY <1>12, <2>2, <2>4, <2>7, <2>3, <3>2 DEF Records
    <3> QED
      BY <3>1, <3>2
  <2> QED
    BY <1>3, <2>6, <2>7
<1>13. CASE c = d /\ PlansGrade(d)
  <2>0. PICK u \in Graded(d) : \E g : /\ Plans(d, Marks(u), g)
                                      /\ saved' = Append(saved, [by |-> d, of |-> u, grade |-> g])
    BY <1>13 DEF PlansGrade
  <2>1. PICK g : /\ Plans(d, Marks(u), g)
                 /\ saved' = Append(saved, [by |-> d, of |-> u, grade |-> g])
    BY <2>0
  <2>2. PICK m, a, e : m = Marks(u) /\ a = view[d][m] /\ Adds(e, a, g)
    BY DEF Adds
  <2>3. PICK z : (l = m => Adds(z, y, g)) /\ (l # m => z = y)
    BY DEF Adds
  <2>4. /\ Entries(q) = {} /\ Entries(r) = {PutLeaf(m, e)} /\ (l = m => a = v)
        /\ Silent(d) /\ accepted' = accepted
    BY <1>5, <1>13, <2>1, <2>2 DEF Plans, PlansGrade, Adds
  <2>5. v = y /\ Ledger(r, v, l, z)
    BY <1>6, <2>2, <2>4, <2>3, LedgerPlanned
  <2>6. Ledger(r, w, l, z)
    BY <1>2, <1>5, <2>4, <2>5
  <2>7. PICK x, t : x = [by |-> d, of |-> u, grade |-> g] /\ t = saved
    OBVIOUS
  <2>8. Adds(s, t, x) /\ x.of = u /\ x.grade = g /\ IsList(t)
    BY <1>1, <2>1, <2>7 DEF WritersInv, Adds
  <2>9. ASSUME Records(c, l, y, accepted, issued, saved)
        PROVE  Records(c, l, z, accepted', issued', saved')
    <3>1. ASSUME NEW o \in Graded(c), l = Marks(o)
          PROVE  z = Marked(s, o)
      <4>1. y = Marked(t, o)
        BY <2>7, <2>9, <3>1 DEF Records
      <4>2. l = m <=> u = o
        <5>1. u \in Account \cup {NoUser} /\ o \in Account \cup {NoUser}
          BY EnteredLeaves
        <5>2. Marks(o) = Marks(u) => SafeEmail[o] = SafeEmail[u]
          BY DEF Marks
        <5> QED
          BY <2>2, <3>1, <5>1, <5>2 DEF PathsApart
      <4>3. /\ u # o => Marked(s, o) = Marked(t, o)
            /\ u = o => Adds(Marked(s, o), Marked(t, o), g)
        BY <2>8, GivenAppend
      <4> QED
        BY <2>3, <4>1, <4>2, <4>3 DEF Adds
    <3>2. ASSUME c \in Account, l = Log(c)
          PROVE  Logged(c, z, accepted', issued')
      <4>1. l # m
        BY <2>2, <3>2, EnteredLeaves
      <4>2. Logged(c, y, accepted, issued)
        BY <2>9, <3>2 DEF Records
      <4> QED
        BY <1>4, <2>4, <2>3, <4>1, <4>2, LoggedStays DEF MoreIssued
    <3> QED
      BY <1>1, <3>1, <3>2 DEF Records
  <2> QED
    BY <1>3, <2>6, <2>9
<1>14. CASE c = d /\ Quits(d)
  <2>1. Ledger(r, w, l, w)
    BY <1>5, <1>14, LedgerFresh DEF Quits
  <2> QED
    BY <1>14, <2>1, FirstRun
<1> QED
  BY <1>9, <1>10, <1>11, <1>12, <1>13, <1>14 DEF Shape

\* Every list with one writer is as its writer left it.
LedgerInv ==
  \A d \in Device : \A l \in Listens[d] : Sole(d, l, saved) =>
     /\ M!OwnShown(d, l)
     /\ \E y : /\ Ledger(calls[d], view[d][l], l, y)
               /\ restarts = 0 => Records(d, l, y, accepted, issued, saved)

LEMMA LedgersKept ==
  ASSUME AppInv, AppInv', WritersInv, LedgerInv, PathsApart, NEW d \in Device, Shape(d)
  PROVE  LedgerInv'
<1>1. PICK s : s = saved'
  OBVIOUS
<1>2. Longer(saved, s)
  BY <1>1, SavedStep
<1>3. SUFFICES ASSUME NEW c \in Device, NEW l \in Listens[c], Sole(c, l, s)
               PROVE  /\ M!OwnShown(c, l)'
                      /\ \E y : /\ Ledger(calls'[c], view'[c][l], l, y)
                                /\ restarts' = 0 => Records(c, l, y, accepted', issued', s)
  BY <1>1 DEF LedgerInv
<1>4. Sole(c, l, saved)
  BY <1>2, <1>3, RightGrows
<1>5. M!OwnShown(c, l)
  BY <1>4 DEF LedgerInv
<1>6. PICK y : /\ Ledger(calls[c], view[c][l], l, y)
               /\ restarts = 0 => Records(c, l, y, accepted, issued, saved)
  BY <1>4 DEF LedgerInv
<1>7. M!OwnShown(c, l)'
  BY <1>2, <1>3, <1>5, OwnKept
<1>8. Sole(c, l, saved')
  BY <1>1, <1>3
<1>9. \E z : /\ Ledger(calls'[c], view'[c][l], l, z)
             /\ restarts' = 0 => Records(c, l, z, accepted', issued', saved')
  BY <1>5, <1>6, <1>8, LedgerKept
<1> QED
  BY <1>1, <1>7, <1>9

\* The lists at the start.
LEMMA BlankEntries ==
  ASSUME PathsApart
  PROVE  /\ \A u \in Account \cup {NoUser} : Blank[Marks(u)] = <<>>
         /\ \A v \in Volunteers : Blank[Log(v)] = LoggedBy(v)
         /\ \A k : \A v \in Volunteers : <<k, v>> \in TakenAtStart =>
              k \in DOMAIN Filed /\ \E i \in DOMAIN LoggedBy(v) : LoggedBy(v)[i] = Filed[k].name
<1>1. ASSUME NEW u \in Account \cup {NoUser}
      PROVE  Blank[Marks(u)] = <<>>
  <2>1. PICK l : l = Marks(u)
    OBVIOUS
  <2>2. l \in Leaf /\ l[2] = "grades"
    BY <2>1, EnteredLeaves DEF Marks
  <2>3. Blank[l] = <<>>
    BY <2>2 DEF Blank, ListField
  <2> QED
    BY <2>1, <2>3
<1>2. ASSUME NEW v \in Volunteers
      PROVE  Blank[Log(v)] = LoggedBy(v)
  <2>1. PICK l : l = Log(v)
    OBVIOUS
  <2>2. l \in Leaf /\ l[1] = SafeEmail[v] /\ l[2] = "activities"
    BY <2>1, EnteredLeaves DEF Log, Account
  <2>3. Blank[l] = LoggedBy(CHOOSE u \in Volunteers : l[1] = SafeEmail[u])
    BY <2>2 DEF Blank
  <2>4. \A u \in Volunteers : l[1] = SafeEmail[u] => u = v
    BY <2>2 DEF PathsApart, Account
  <2>5. (CHOOSE u \in Volunteers : l[1] = SafeEmail[u]) = v
    BY <2>2, <2>4
  <2> QED
    BY <2>1, <2>3, <2>5
<1>3. ASSUME NEW k, NEW v \in Volunteers, <<k, v>> \in TakenAtStart
      PROVE  k \in DOMAIN Filed /\ \E i \in DOMAIN LoggedBy(v) : LoggedBy(v)[i] = Filed[k].name
  <2>1. k \in DOMAIN Filed /\ Filed[k].volunteer = v
    BY <1>3 DEF TakenAtStart, Taken
  <2>2. PICK t, I : t = [i \in DOMAIN Filed |-> i] /\ I = {i \in DOMAIN Filed : Filed[i].volunteer = v}
    OBVIOUS
  <2>3. t \in Seq(Nat) /\ k \in DOMAIN t /\ t[k] = k /\ k \in I
    <3>1. PICK C : Filed \in Seq(C)
      BY SchemaAssumption
    <3>2. DOMAIN Filed = 1 .. Len(Filed) /\ Len(Filed) \in Nat
      BY <3>1
    <3> QED
      BY <2>1, <2>2, <3>2
  <2>4. PICK j \in DOMAIN Sift(t, I) : Sift(t, I)[j] = k
    BY <2>3, SiftKeeps
  <2>5. TakenBy(v) = Sift(t, I)
    BY <2>2 DEF TakenBy
  <2>6. j \in DOMAIN LoggedBy(v) /\ LoggedBy(v)[j] = Filed[k].name
    BY <2>4, <2>5 DEF LoggedBy
  <2> QED
    BY <2>1, <2>6
<1> QED
  BY <1>1, <1>2, <1>3

LEMMA LedgersAtStart == Init /\ PathsApart => LedgerInv
<1> SUFFICES ASSUME Init, PathsApart, NEW d \in Device, NEW l \in Listens[d], Sole(d, l, saved)
             PROVE  /\ M!OwnShown(d, l)
                    /\ \E y : /\ Ledger(calls[d], view[d][l], l, y)
                              /\ restarts = 0 => Records(d, l, y, accepted, issued, saved)
  BY DEF LedgerInv
<1>1. M!Init /\ l \in Leaf
  BY SyncActions, MirrorAssumptions DEF Init
<1>2. M!OwnShown(d, l)
  BY <1>1, MirrorAssumptions, M!OwnShownInit
<1>3. PICK y : y = Blank[l]
  OBVIOUS
<1>4. view[d][l] = y /\ calls[d] = <<>> /\ saved = <<>> /\ accepted = TakenAtStart
  BY <1>1, <1>3 DEF Init, M!Init, TakenAtStart
<1>5. Entries(<<>>) = {}
  BY ShortWrites DEF Entries
<1>6. Ledger(calls[d], view[d][l], l, y)
  BY <1>4, <1>5, LedgerFresh
<1>7. ASSUME d \in Account, l = Log(d)
      PROVE  Logged(d, y, accepted, issued)
  <2>1. SUFFICES ASSUME NEW k \in Key, <<k, d>> \in TakenAtStart
                 PROVE  k \in DOMAIN issued /\ \E i \in DOMAIN y : y[i] = issued[k].name
    BY <1>4 DEF Logged
  <2>2. d \in Volunteers
    BY <2>1, TakenTypes
  <2>3. y = LoggedBy(d)
    BY <1>3, <1>7, <2>2, BlankEntries
  <2>4. k \in DOMAIN Filed /\ \E i \in DOMAIN y : y[i] = Filed[k].name
    BY <2>1, <2>2, <2>3, BlankEntries
  <2>5. k \in DOMAIN issued /\ issued[k].name = Filed[k].name
    BY <2>4 DEF Init
  <2> QED
    BY <2>4, <2>5
<1>8. ASSUME NEW u \in Graded(d), l = Marks(u)
      PROVE  y = Marked(saved, u)
  <2>1. y = <<>>
    BY <1>3, <1>8, EnteredLeaves, BlankEntries
  <2>2. Given(saved, u) = <<>>
    BY <1>4, SiftNone DEF Given
  <2>3. Marked(saved, u) = <<>>
    BY <2>2 DEF Marked
  <2> QED
    BY <2>1, <2>3
<1>9. Records(d, l, y, accepted, issued, saved)
  BY <1>7, <1>8 DEF Records
<1> QED
  BY <1>2, <1>6, <1>9

\* A list nobody may write is as it was; an account whose device is off accepts nothing;
\* a grade that was saved is on record, or on its way there.
Untouched == \A l \in Leaf : (Entered(l) /\ \A b \in Device : ~ByRight(b, l, saved))
                                => server[l] = Blank[l]
Offline == \A k \in Key, v \in Volunteers :
             <<k, v>> \in accepted => v \in Device \/ <<k, v>> \in TakenAtStart

UnderWay(l, s, qs, ws) == \/ s[l] # <<>>
                          \/ \E b \in Device : \/ \E w \in Entries(qs[b]) : l \in DOMAIN w
                                               \/ \E i \in DOMAIN ws[b] : l \in DOMAIN ws[b][i]
Tracked == restarts = 0 => \A i \in DOMAIN saved : UnderWay(Marks(saved[i].of), server, calls, pending)

LogInv == PeersFollowed /\ WritersInv /\ LedgerInv /\ Untouched /\ Offline /\ Tracked

\* What the next write of d puts on the server.
LEMMA NextWrite ==
  ASSUME M!TypeOK, NEW d \in Device, NEW s, M!SentOnly(Own(s)), M!Commit(d), NEW l \in Leaf
  PROVE  /\ pending[d] # <<>> /\ Head(pending[d]) \in Own(s)[d]
         /\ server'[l] = IF l \in DOMAIN Head(pending[d]) THEN Head(pending[d])[l] ELSE server[l]
<1>1. PICK q, P : q = pending[d] /\ P = Own(s)
  OBVIOUS
<1>2. q # <<>> /\ q \in Seq(P[d])
  BY <1>1 DEF M!Commit, M!SentOnly
<1>3. Head(q) \in P[d]
  BY <1>2, HeadTailProperties
<1>4. server' = M!Overlay(Head(q), server)
  BY <1>1 DEF M!Commit
<1>5. server'[l] = IF l \in DOMAIN Head(q) THEN Head(q)[l] ELSE server[l]
  BY <1>4 DEF M!Overlay
<1> QED
  BY <1>1, <1>2, <1>3, <1>5

LEMMA UntouchedKept ==
  ASSUME AppInv, WritersInv, WritersInv', Untouched, NEW d \in Device, Shape(d)
  PROVE  Untouched'
<1>1. PICK s : s = saved'
  OBVIOUS
<1>2. Longer(saved, s)
  BY <1>1, SavedStep
<1>3. M!TypeOK /\ M!SentOnly(Own(s))
  <2>1. \A c \in Device : Own(saved)[c] \subseteq Own(s)[c]
    BY <1>2, RightGrows
  <2> QED
    BY <2>1, MirrorAssumptions, M!SentOnlyGrows DEF WritersInv, AppInv, MirrorInv, M!IInv
<1>4. SUFFICES ASSUME NEW l \in Leaf, Entered(l), \A b \in Device : ~ByRight(b, l, s)
               PROVE  server'[l] = Blank[l]
  BY <1>1 DEF Untouched
<1>5. server[l] = Blank[l]
  BY <1>2, <1>4, RightGrows DEF Untouched
<1>6. Moves(d, Own(s))
  BY <1>2, ShapeMoves
<1>7. CASE M!Commit(d)
  <2>1. PICK w : w = Head(pending[d])
    OBVIOUS
  <2>2. w \in Own(s)[d] /\ server'[l] = IF l \in DOMAIN w THEN w[l] ELSE server[l]
    BY <1>3, <1>7, <2>1, NextWrite
  <2>3. l \notin DOMAIN w
    BY <1>4, <2>2 DEF Own
  <2> QED
    BY <1>5, <2>2, <2>3
<1>8. CASE ~M!Commit(d)
  <2>1. server' = server
    BY <1>6, <1>8 DEF Moves, M!LocalWrite, M!Deliver, M!Reconnect, M!Restart, syncVars
  <2> QED
    BY <1>5, <2>1
<1> QED
  BY <1>7, <1>8

LEMMA OfflineKept ==
  ASSUME Offline, NEW d \in Device, Shape(d)
  PROVE  Offline'
<1>1. accepted' = accepted \/ \E k : accepted' = accepted \cup {<<k, d>>}
  BY DEF Shape, Idles, Enters, PlansLog, PlansGrade, Quits
<1> QED
  BY <1>1 DEF Offline

\* What is on its way stays on its way.
LEMMA ReachesServer ==
  ASSUME AppInv, WritersInv, NEW d \in Device, Shape(d), restarts' = 0,
         NEW l \in Leaf, Entered(l), UnderWay(l, server, calls, pending)
  PROVE  UnderWay(l, server', calls', pending')
<1>1. M!TypeOK /\ M!SentOnly(Own(saved))
  BY DEF WritersInv, AppInv, MirrorInv, M!IInv
<1>2. Moves(d, Own(saved)) /\ ~M!Restart(d)
  <2>1. Moves(d, Own(saved))
    BY ShapeMoves DEF Longer
  <2> QED
    BY <1>1, <2>1 DEF M!Restart, M!TypeOK
<1>3. ~Quits(d)
  BY <1>2 DEF Quits
<1>4. server[l] # <<>> => server'[l] # <<>>
  <2>1. CASE M!Commit(d)
    <3>1. PICK w : w = Head(pending[d])
      OBVIOUS
    <3>2. w \in Own(saved)[d] /\ server'[l] = IF l \in DOMAIN w THEN w[l] ELSE server[l]
      BY <1>1, <2>1, <3>1, NextWrite
    <3> QED
      BY <3>2 DEF Own
  <2>2. CASE ~M!Commit(d)
    <3>1. server' = server
      BY <1>2, <2>2 DEF Moves, M!LocalWrite, M!Deliver, M!Reconnect, M!Restart, syncVars
    <3> QED
      BY <3>1
  <2> QED
    BY <2>1, <2>2
\* A write not yet processed stays so, or is processed.
<1>5. ASSUME NEW b \in Device, NEW i \in DOMAIN pending[b], l \in DOMAIN pending[b][i]
      PROVE  server'[l] # <<>> \/ \E j \in DOMAIN pending'[b] : l \in DOMAIN pending'[b][j]
  <2>1. PICK q, u, r, e : q = pending[b] /\ u = unheard[b] /\ r = pending'[b] /\ e = Head(pending[d])
    OBVIOUS
  <2>2. q \in Seq(M!Write) /\ u \in Seq(M!Write) /\ pending = [c \in Device |-> pending[c]]
    BY <1>1, <2>1 DEF M!TypeOK
  <2>3. i \in 1 .. Len(q) /\ Len(q) \in Nat /\ Len(u) \in Nat /\ l \in DOMAIN q[i]
    BY <1>5, <2>1, <2>2
  <2>4. SUFFICES server'[l] # <<>> \/ \E j \in DOMAIN r : l \in DOMAIN r[j]
    BY <2>1
  <2>5. ASSUME r = q
        PROVE  \E j \in DOMAIN r : l \in DOMAIN r[j]
    BY <2>2, <2>3, <2>5
  <2>6. ASSUME NEW w \in M!Write, M!LocalWrite(d, w)
        PROVE  \E j \in DOMAIN r : l \in DOMAIN r[j]
    <3>1. r = q \/ r = Append(q, w)
      BY <2>1, <2>2, <2>6 DEF M!LocalWrite
    <3>2. CASE r = Append(q, w)
      <4>1. i \in DOMAIN r /\ r[i] = q[i]
        BY <2>2, <2>3, <2>6, <3>2
      <4> QED
        BY <2>3, <4>1
    <3> QED
      BY <2>5, <3>1, <3>2
  <2>7. CASE M!Commit(d)
    <3>1. e \in Own(saved)[d] /\ server'[l] = IF l \in DOMAIN e THEN e[l] ELSE server[l]
      BY <1>1, <2>1, <2>7, NextWrite
    <3>2. r = q \/ (q # <<>> /\ r = Tail(q) /\ e = Head(q))
      BY <2>1, <2>2, <2>7 DEF M!Commit
    <3>3. CASE q # <<>> /\ r = Tail(q) /\ e = Head(q) /\ i = 1
      <4>1. e = q[i]
        BY <2>2, <2>3, <3>3
      <4> QED
        BY <2>3, <3>1, <4>1 DEF Own
    <3>4. CASE q # <<>> /\ r = Tail(q) /\ e = Head(q) /\ i # 1
      <4>1. PICK j : j = i - 1
        OBVIOUS
      <4>2. j \in DOMAIN r /\ r[j] = q[i]
        BY <2>2, <2>3, <3>4, <4>1
      <4> QED
        BY <2>3, <4>2
    <3> QED
      BY <2>5, <3>2, <3>3, <3>4
  <2>8. CASE M!Deliver(d)
    BY <2>1, <2>5, <2>8 DEF M!Deliver
  <2>9. CASE M!Reconnect(d)
    <3>1. r = q \/ r = u \o q
      BY <2>1, <2>2, <2>9 DEF M!Reconnect, M!Unacked
    <3>2. CASE r = u \o q
      <4>1. PICK j, m : m = Len(u) /\ j = m + i
        OBVIOUS
      <4>2. j \in DOMAIN r /\ r[j] = q[i]
        <5>1. /\ r \in Seq(M!Write) /\ Len(r) = m + Len(q)
              /\ \A k \in 1 .. (m + Len(q)) : r[k] = IF k =< m THEN u[k] ELSE q[k - m]
          BY <2>2, <3>2, <4>1, ConcatProperties
        <5>2. j \in 1 .. (m + Len(q)) /\ ~(j =< m) /\ j - m = i
          BY <2>3, <4>1
        <5>3. DOMAIN r = 1 .. (m + Len(q))
          BY <5>1
        <5> QED
          BY <5>1, <5>2, <5>3
      <4> QED
        BY <2>3, <4>2
    <3> QED
      BY <2>5, <3>1, <3>2
  <2>10. CASE UNCHANGED syncVars
    BY <2>1, <2>5, <2>10 DEF syncVars
  <2> QED
    BY <1>2, <2>6, <2>7, <2>8, <2>9, <2>10 DEF Moves
\* An entry to be made stays so, or is sent.
<1>6. ASSUME NEW b \in Device, NEW w \in Entries(calls[b]), l \in DOMAIN w
      PROVE  UnderWay(l, server', calls', pending')
  <2>1. CASE w \in Entries(calls'[b])
    BY <1>6, <2>1 DEF UnderWay
  <2>2. CASE w \notin Entries(calls'[b])
    <3>1. b = d /\ Enters(d)
      <4>1. b = d
        BY <2>2 DEF Shape
      <4> QED
        BY <1>3, <2>2, <4>1 DEF Shape, Idles, PlansLog, PlansGrade, Plans
    <3>2. w \in M!Write /\ M!LocalWrite(d, w)
      <4>1. PICK x \in M!Write : M!LocalWrite(d, x) /\ Entries(calls[d]) \subseteq Entries(calls'[d]) \cup {x}
        BY <3>1 DEF Enters
      <4>2. w = x
        BY <1>6, <2>2, <3>1, <4>1
      <4> QED
        BY <4>1, <4>2
    <3>3. PICK q, r : q = pending[d] /\ r = pending'[d]
      OBVIOUS
    <3>4. q \in Seq(M!Write) /\ r = Append(q, w)
      BY <1>1, <3>2, <3>3 DEF M!LocalWrite, M!TypeOK
    <3>5. Len(q) + 1 \in DOMAIN r /\ r[Len(q) + 1] = w
      BY <3>2, <3>4
    <3> QED
      BY <1>6, <3>3, <3>5 DEF UnderWay
  <2> QED
    BY <2>1, <2>2
<1> QED
  BY <1>4, <1>5, <1>6 DEF UnderWay

LEMMA TrackedKept ==
  ASSUME AppInv, WritersInv, Tracked, NEW d \in Device, Shape(d)
  PROVE  Tracked'
<1>1. SUFFICES ASSUME restarts' = 0
               PROVE  \A i \in DOMAIN saved' : UnderWay(Marks(saved'[i].of), server', calls', pending')
  BY DEF Tracked
<1>2. restarts = 0
  BY <1>1, FirstRun
<1>3. ASSUME NEW i \in DOMAIN saved
      PROVE  UnderWay(Marks(saved[i].of), server', calls', pending')
  <2>1. PICK l : l = Marks(saved[i].of)
    OBVIOUS
  <2>2. l \in Leaf /\ Entered(l)
    <3>1. saved[i].of \in Account \cup {NoUser}
      BY <1>3, EnteredLeaves DEF WritersInv
    <3> QED
      BY <2>1, <3>1, EnteredLeaves
  <2>3. UnderWay(l, server, calls, pending)
    BY <1>2, <1>3, <2>1 DEF Tracked
  <2>4. UnderWay(l, server', calls', pending')
    BY <1>1, <2>2, <2>3, ReachesServer
  <2> QED
    BY <2>1, <2>4
<1>4. CASE saved' = saved
  BY <1>3, <1>4
<1>5. CASE PlansGrade(d)
  <2>0. PICK u \in Graded(d) : \E g : /\ Plans(d, Marks(u), g)
                                      /\ saved' = Append(saved, [by |-> d, of |-> u, grade |-> g])
    BY <1>5 DEF PlansGrade
  <2>1. PICK g : /\ Plans(d, Marks(u), g)
                 /\ saved' = Append(saved, [by |-> d, of |-> u, grade |-> g])
    BY <2>0
  <2>2. PICK t, s, x : t = saved' /\ s = saved /\ x = [by |-> d, of |-> u, grade |-> g]
    OBVIOUS
  <2>3. PICK A : s \in Seq(A)
    BY <2>2 DEF WritersInv, IsList
  <2>4. ASSUME NEW i \in DOMAIN t
        PROVE  (i \in DOMAIN s /\ t[i] = s[i]) \/ t[i].of = u
    <3>1. t = Append(s, x) /\ x.of = u
      BY <2>1, <2>2
    <3>2. DOMAIN t = 1 .. Len(s) + 1 /\ Len(s) \in Nat /\ DOMAIN s = 1 .. Len(s)
          /\ t[Len(s) + 1] = x /\ \A j \in 1 .. Len(s) : t[j] = s[j]
      <4>1. PICK B : B = A \cup {x}
        OBVIOUS
      <4>2. s \in Seq(B) /\ x \in B
        BY <2>3, <4>1, SeqMonotonic
      <4> QED
        BY <3>1, <4>2
    <3> QED
      BY <2>4, <3>1, <3>2
  <2>5. UnderWay(Marks(u), server', calls', pending')
    <3>1. PICK l, y : l = Marks(u) /\ y = Append(view[d][l], g)
      OBVIOUS
    <3>2. PutLeaf(l, y) \in Entries(calls'[d]) /\ l \in DOMAIN PutLeaf(l, y)
      BY <2>1, <3>1 DEF Plans, PutLeaf
    <3> QED
      BY <3>1, <3>2 DEF UnderWay
  <2>6. ASSUME NEW i \in DOMAIN t
        PROVE  UnderWay(Marks(t[i].of), server', calls', pending')
    BY <1>3, <2>2, <2>4, <2>5, <2>6
  <2> QED
    BY <2>2, <2>6
<1> QED
  BY <1>4, <1>5 DEF Shape, Idles, Enters, PlansLog, Quits

LEMMA LogInvKept ==
  ASSUME Hasty = FALSE, PathsApart
  PROVE  AppInv /\ TaskInv /\ LogInv /\ [Next]_vars => LogInv'
<1> SUFFICES ASSUME AppInv, TaskInv, LogInv, [Next]_vars
             PROVE  LogInv'
  OBVIOUS
<1>1. PeersFollowed' /\ AppInv'
  BY PeersKept, NextKeeps DEF LogInv
<1>2. ASSUME NEW d \in Device, Shape(d)
      PROVE  LogInv'
  <2>1. WritersInv'
    BY <1>1, <1>2, WritersKept DEF LogInv
  <2>2. LedgerInv'
    BY <1>1, <1>2, LedgersKept DEF LogInv
  <2>3. Untouched'
    BY <1>2, <2>1, UntouchedKept DEF LogInv
  <2>4. Offline'
    BY <1>2, OfflineKept DEF LogInv
  <2>5. Tracked'
    BY <1>2, TrackedKept DEF LogInv
  <2> QED
    BY <1>1, <2>1, <2>2, <2>3, <2>4, <2>5 DEF LogInv
<1>3. CASE Next
  <2>1. \E d \in Device : Shape(d)
    BY <1>3, StepShapes DEF LogInv
  <2> QED
    BY <1>2, <2>1
<1>4. CASE UNCHANGED vars
  <2>1. CASE Device = {}
    <3>1. UNCHANGED <<server, saved, accepted, restarts, issued>>
      BY <1>4 DEF vars, syncVars, history
    <3> QED
      BY <1>1, <2>1, <3>1 DEF LogInv, WritersInv, LedgerInv, Untouched, Offline, Tracked, M!SentOnly, UnderWay
  <2>2. CASE Device # {}
    <3>1. PICK d \in Device : TRUE
      BY <2>2
    <3>2. UNCHANGED <<syncVars, calls, accepted, saved, issued>>
      BY <1>4 DEF vars, history
    <3>3. Shape(d)
      BY <3>1, <3>2, SameShape
    <3> QED
      BY <1>2, <3>3
  <2> QED
    BY <2>1, <2>2
<1> QED
  BY <1>3, <1>4

LEMMA LogInvAtStart == Init /\ PathsApart => LogInv
<1> SUFFICES ASSUME Init, PathsApart
             PROVE  LogInv
  OBVIOUS
<1>1. M!Init
  BY SyncActions DEF Init
<1>2. saved = <<>> /\ accepted = TakenAtStart /\ calls = [d \in Device |-> <<>>] /\ server = Blank
  BY <1>1 DEF Init, TakenAtStart, M!Init
<1>3. WritersInv
  <2>1. M!SentOnly(Own(saved))
    BY <1>1, MirrorAssumptions, M!InitSentOnly
  <2>2. \A d \in Device : Entries(calls[d]) = {}
    BY <1>2, ShortWrites DEF Entries
  <2>3. IsList(saved) /\ \A i \in DOMAIN saved : FALSE
    BY <1>2, ShortLists
  <2> QED
    BY <2>1, <2>2, <2>3 DEF WritersInv
<1>4. LedgerInv /\ PeersFollowed
  BY LedgersAtStart, PeersAtStart
<1>5. Untouched /\ Offline
  BY <1>2 DEF Untouched, Offline
<1>6. Tracked
  BY <1>2 DEF Tracked
<1> QED
  BY <1>3, <1>4, <1>5, <1>6 DEF LogInv

LEMMA LogsFit ==
  ASSUME Hasty = FALSE, PathsApart
  PROVE  Spec => [](AppInv /\ TaskInv /\ LogInv)
<1>1. Init => AppInv /\ TaskInv /\ LogInv
  BY InitAppInv, InitTaskInv, LogInvAtStart
<1>2. AppInv /\ TaskInv /\ LogInv /\ [Next]_vars => (AppInv /\ TaskInv /\ LogInv)'
  BY NextKeeps, TaskInvKept, LogInvKept
<1> QED
  BY <1>1, <1>2, PTL DEF Spec

-----------------------------------------------------------------------------
(* What all this comes to when nothing is under way.                       *)

LEMMA QuietLedger ==
  ASSUME AppInv, LogInv, Quiet, restarts = 0, NEW d \in Device, NEW l \in Listens[d],
         Sole(d, l, saved)
  PROVE  Records(d, l, server[l], accepted, issued, saved)
<1>1. PICK y : /\ Ledger(calls[d], view[d][l], l, y)
               /\ Records(d, l, y, accepted, issued, saved)
  BY DEF LogInv, LedgerInv
<1>2. Entries(calls[d]) = {}
  <2>1. \A i \in DOMAIN calls[d] : calls[d][i].op # "write"
    BY DEF Quiet, Due, Ready
  <2>2. WritesIn(calls[d]) = {}
    BY <2>1 DEF WritesIn
  <2> QED
    BY <2>2 DEF Entries
<1>3. view[d][l] = y
  <2>1. Waiting(calls[d], l) = {}
    BY <1>2, WaitingNone
  <2> QED
    BY <1>1, <2>1 DEF Ledger
<1>4. l \in Leaf
  BY MirrorAssumptions
<1>5. view[d][l] = server[l]
  <2>1. M!Converged
    BY MirrorAssumptions, M!IInvConverges DEF AppInv, MirrorInv
  <2>2. view[d] = M!Mirror(d, server)
    BY <2>1 DEF M!Converged, Quiet
  <2> QED
    BY <1>4, <2>2 DEF M!Mirror
<1> QED
  BY <1>1, <1>3, <1>5

\* While no device is restarted, each task a volunteer accepted is in the volunteer's
\* activity log once the app is at rest, although the entry is added by reading the
\* list and writing all of it back: the volunteer's own device is the only one to
\* write it, and waits for each write (DatabaseManager, insertActivities).  It
\* needs that no two accounts share a path (safeEmail).
THEOREM AcceptancesAreLogged ==
  ASSUME Hasty = FALSE, PathsApart
  PROVE  Spec => [](restarts = 0 => AcceptedIsLogged)
<1>1. AppInv /\ TaskInv /\ LogInv => (restarts = 0 => AcceptedIsLogged)
  <2> SUFFICES ASSUME AppInv, TaskInv, LogInv, restarts = 0, Quiet,
                      NEW k \in Key, NEW v \in Volunteers, <<k, v>> \in accepted
               PROVE  issued[k].name \in ToSet(server[<<SafeEmail[v], "activities">>])
    BY DEF AcceptedIsLogged
  <2>1. PICK l, y : l = Log(v) /\ y = server[l]
    OBVIOUS
  <2>2. v \in Account /\ l \in Leaf /\ Entered(l) /\ \A u : l # Marks(u)
    BY <2>1, EnteredLeaves DEF Account
  <2>3. ASSUME NEW b \in Device, ByRight(b, l, saved)
        PROVE  b = v
    <3>1. b \in Account /\ Log(b) = Log(v)
      BY <2>1, <2>2, <2>3 DEF ByRight
    <3>2. SafeEmail[b] = SafeEmail[v]
      BY <3>1 DEF Log
    <3> QED
      BY <2>2, <3>1, <3>2 DEF PathsApart
  <2>4. \E i \in DOMAIN y : y[i] = issued[k].name
    <3>1. CASE v \in Device
      <4>1. l \in Listens[v]
        BY <2>1, <2>2, <3>1 DEF Listens, Log
      <4>2. Sole(v, l, saved)
        BY <2>2, <2>3 DEF Sole
      <4>3. Records(v, l, y, accepted, issued, saved)
        BY <2>1, <3>1, <4>1, <4>2, QuietLedger
      <4> QED
        BY <2>1, <2>2, <4>3 DEF Records, Logged
    <3>2. CASE v \notin Device
      <4>1. <<k, v>> \in TakenAtStart
        BY <3>2 DEF LogInv, Offline
      <4>2. y = Blank[l]
        BY <2>1, <2>2, <2>3, <3>2 DEF LogInv, Untouched
      <4>3. y = LoggedBy(v)
        BY <2>1, <4>2, BlankEntries
      <4>4. k \in DOMAIN Filed /\ \E i \in DOMAIN y : y[i] = Filed[k].name
        BY <4>1, <4>3, BlankEntries
      <4>5. issued[k].name = Filed[k].name
        <5>1. AtStart.issued[k].name = Filed[k].name /\ k \in DOMAIN AtStart.issued
          BY <4>4 DEF AtStart
        <5>2. issued[k] = AtStart.issued[k]
          BY <5>1 DEF TaskInv, Later, Past
        <5> QED
          BY <5>1, <5>2
      <4> QED
        BY <4>4, <4>5
    <3> QED
      BY <3>1, <3>2
  <2> QED
    BY <2>1, <2>4 DEF ToSet, Log
<1> QED
  BY <1>1, LogsFit, PTL

\* While no device is restarted, a grader who is the only one to have graded an account
\* loses no grade, although each is added by reading the list and writing all of it
\* back, and of the grades of several graders some are left (DatabaseManager,
\* insertGrades).  It needs that no two accounts share a path (safeEmail).
THEOREM LoneGradersLoseNothing ==
  ASSUME Hasty = FALSE, PathsApart
  PROVE  Spec => [](restarts = 0 => LoneGraderLosesNothing)
<1>1. AppInv /\ LogInv => (restarts = 0 => LoneGraderLosesNothing)
  <2> SUFFICES ASSUME AppInv, LogInv, restarts = 0, Quiet, NEW u \in Account,
                      NEW given, given = GivenTo(u),
                      NEW grades, grades = server[<<SafeEmail[u], "grades">>]
               PROVE  IF \E d \in Device : \A i \in DOMAIN given : given[i].by = d
                      THEN grades = [i \in DOMAIN given |-> given[i].grade]
                      ELSE grades # <<>> \/ given = <<>>
    BY DEF LoneGraderLosesNothing
  <2>1. PICK l : l = Marks(u)
    OBVIOUS
  <2>2. l \in Leaf /\ Entered(l) /\ grades = server[l] /\ \A c : l # Log(c)
    BY <2>1, EnteredLeaves DEF Marks
  <2>3. given = Given(saved, u) /\ Marked(saved, u) = [i \in DOMAIN given |-> given[i].grade]
    BY DEF Given, Marked, GivenTo
  <2>4. /\ \A i \in DOMAIN saved : saved[i].of = u => \E j \in DOMAIN given : given[j] = saved[i]
        /\ \A j \in DOMAIN given : \E i \in DOMAIN saved : saved[i].of = u /\ given[j] = saved[i]
    <3>1. PICK s, I : s = saved /\ I = {i \in DOMAIN saved : saved[i].of = u}
      OBVIOUS
    <3>2. PICK A : s \in Seq(A)
      BY <3>1 DEF LogInv, WritersInv, IsList
    <3>3. given = Sift(s, I)
      BY <3>1 DEF GivenTo
    <3>4. PICK t : t = Sift(s, I)
      OBVIOUS
    <3>5. /\ \A i \in DOMAIN s : i \in I => \E j \in DOMAIN t : t[j] = s[i]
          /\ \A j \in DOMAIN t : \E i \in DOMAIN s : i \in I /\ t[j] = s[i]
      BY <3>2, <3>4, SiftKeeps
    <3>6. \A i \in DOMAIN saved : saved[i].of = u => i \in I
      BY <3>1
    <3>7. \A i \in I : i \in DOMAIN saved /\ saved[i].of = u
      BY <3>1
    <3> QED
      BY <3>1, <3>3, <3>4, <3>5, <3>6, <3>7
  <2>5. ASSUME NEW b \in Device, ByRight(b, l, saved)
        PROVE  \E j \in DOMAIN given : given[j].by = b
    <3>1. PICK i \in DOMAIN saved : saved[i].by = b /\ l = Marks(saved[i].of)
      BY <2>2, <2>5 DEF ByRight
    <3>2. saved[i].of \in Account \cup {NoUser}
      BY <3>1, EnteredLeaves DEF LogInv, WritersInv
    <3>3. SafeEmail[saved[i].of] = SafeEmail[u]
      BY <2>1, <3>1 DEF Marks
    <3>4. saved[i].of = u
      BY <3>2, <3>3 DEF PathsApart
    <3> QED
      BY <2>4, <3>1, <3>4
  <2>6. CASE DOMAIN given = {}
    <3>1. grades = <<>>
      <4>1. server[l] = Blank[l]
        BY <2>2, <2>5, <2>6 DEF LogInv, Untouched
      <4> QED
        BY <2>1, <2>2, <4>1, BlankEntries
    <3>2. given = <<>>
      <4>1. PICK A : given \in Seq(A)
        <5>1. PICK A, s, I : s = saved /\ I = {i \in DOMAIN saved : saved[i].of = u} /\ s \in Seq(A)
          BY DEF LogInv, WritersInv, IsList
        <5>2. given = Sift(s, I)
          BY <5>1 DEF GivenTo
        <5> QED
          BY <5>1, <5>2, SiftPart
      <4> QED
        BY <2>6, <4>1
    <3>3. [i \in DOMAIN given |-> given[i].grade] = <<>>
      BY <3>2
    <3> QED
      BY <3>1, <3>2, <3>3
  <2>7. CASE DOMAIN given # {}
    <3>1. PICK j \in DOMAIN given : TRUE
      BY <2>7
    <3>2. PICK i \in DOMAIN saved : saved[i].of = u /\ given[j] = saved[i]
      BY <2>4, <3>1
    <3>3. ASSUME NEW d \in Device, \A m \in DOMAIN given : given[m].by = d
          PROVE  grades = [m \in DOMAIN given |-> given[m].grade]
      <4>1. saved[i].by = d /\ u \in Graded(d)
        BY <3>1, <3>2, <3>3 DEF LogInv, WritersInv
      <4>2. l \in Listens[d]
        BY <2>1, <3>3, <4>1 DEF Listens, Marks
      <4>3. Sole(d, l, saved)
        BY <2>2, <2>5, <3>3 DEF Sole
      <4>4. Records(d, l, server[l], accepted, issued, saved)
        BY <3>3, <4>2, <4>3, QuietLedger
      <4> QED
        BY <2>1, <2>2, <2>3, <4>1, <4>4 DEF Records
    <3>4. grades # <<>>
      <4>1. UnderWay(l, server, calls, pending)
        BY <2>1, <3>2 DEF LogInv, Tracked
      <4>2. \A b \in Device : Entries(calls[b]) = {} /\ pending[b] = <<>>
        <5>1. ASSUME NEW b \in Device
              PROVE  Entries(calls[b]) = {}
          <6>1. \A m \in DOMAIN calls[b] : calls[b][m].op # "write"
            BY DEF Quiet, Due, Ready
          <6>2. WritesIn(calls[b]) = {}
            BY <6>1 DEF WritesIn
          <6> QED
            BY <6>2 DEF Entries
        <5> QED
          BY <5>1 DEF Quiet
      <4> QED
        BY <2>2, <4>1, <4>2 DEF UnderWay
    <3> QED
      BY <3>3, <3>4
  <2> QED
    BY <2>6, <2>7
<1> QED
  BY <1>1, LogsFit, PTL

-----------------------------------------------------------------------------
(* The logs, write by write: as long as no connection is lost, and so no   *)
(* write is sent twice, each write of an account's log on its way to the   *)
(* server adds to what is there when it arrives.                           *)

Grows(a, b) == b = a \/ \E x : b = Append(a, x)
Chain(q, s, l) == \A i \in DOMAIN q :
                     l \in DOMAIN q[i] => Grows(M!Replay(SubSeq(q, 1, i - 1), s)[l], q[i][l])
ChainsInv == /\ reconnects = 0
             /\ \A d \in Device \cap Account : Chain(pending[d], server, Log(d))

LEMMA ChainSame ==
  ASSUME NEW q, NEW l \in Leaf, NEW s, NEW t, s[l] = t[l], Chain(q, s, l)
  PROVE  Chain(q, t, l)
<1>1. \A ws : M!Replay(ws, t)[l] = M!Replay(ws, s)[l]
  BY MirrorAssumptions, M!ReplayAt
<1> QED
  BY <1>1 DEF Chain

LEMMA ChainAdds ==
  ASSUME NEW q \in Seq(M!Write), NEW w \in M!Write, NEW l \in Leaf, NEW s, Chain(q, s, l),
         NEW r, Adds(r, q, w), l \in DOMAIN w => Grows(M!Replay(q, s)[l], w[l])
  PROVE  Chain(r, s, l)
<1>1. PICK n : n = Len(q)
  OBVIOUS
<1>2. /\ n \in Nat /\ r \in Seq(M!Write) /\ DOMAIN q = 1 .. n /\ DOMAIN r = 1 .. n + 1
      /\ r[n + 1] = w /\ \A i \in 1 .. n : r[i] = q[i]
  BY <1>1 DEF Adds
<1>3. ASSUME NEW i \in 1 .. n + 1
      PROVE  SubSeq(r, 1, i - 1) = SubSeq(q, 1, i - 1)
  <2>1. PICK m : m = i - 1
    OBVIOUS
  <2>2. m \in 0 .. n /\ Len(r) = n + 1
    BY <1>2, <2>1
  <2>3. /\ SubSeq(r, 1, m) = [j \in 1 .. m |-> r[j]]
        /\ SubSeq(q, 1, m) = [j \in 1 .. m |-> q[j]]
    BY <1>1, <1>2, <2>2
  <2>4. \A j \in 1 .. m : r[j] = q[j]
    BY <1>2, <2>2
  <2> QED
    BY <2>1, <2>3, <2>4
<1>4. SubSeq(q, 1, n) = q
  BY <1>1
<1>5. ASSUME NEW i \in DOMAIN r, l \in DOMAIN r[i]
      PROVE  Grows(M!Replay(SubSeq(r, 1, i - 1), s)[l], r[i][l])
  <2>1. SubSeq(r, 1, i - 1) = SubSeq(q, 1, i - 1)
    BY <1>2, <1>3, <1>5
  <2>2. CASE i = n + 1
    <3>1. i - 1 = n
      BY <1>2, <2>2
    <3>2. SubSeq(r, 1, i - 1) = q
      BY <1>4, <2>1, <3>1
    <3> QED
      BY <1>2, <1>5, <2>2, <3>2
  <2>3. CASE i # n + 1
    <3>1. i \in DOMAIN q /\ r[i] = q[i]
      BY <1>2, <1>5, <2>3
    <3> QED
      BY <1>5, <2>1, <3>1 DEF Chain
  <2> QED
    BY <2>2, <2>3
<1> QED
  BY <1>5 DEF Chain

LEMMA ChainSent ==
  ASSUME NEW q \in Seq(M!Write), q # <<>>, NEW l \in Leaf, NEW s \in [Leaf -> Value], Chain(q, s, l),
         NEW r, r = Tail(q), NEW t, t = M!Overlay(Head(q), s)
  PROVE  Chain(r, t, l) /\ Grows(s[l], t[l])
<1>1. PICK n, e : n = Len(q) /\ e = Head(q)
  OBVIOUS
<1>2. /\ n \in Nat \ {0} /\ r \in Seq(M!Write) /\ DOMAIN q = 1 .. n /\ DOMAIN r = 1 .. n - 1
      /\ \A i \in 1 .. n - 1 : r[i] = q[i + 1] /\ e = q[1] /\ e \in M!Write
  BY <1>1
<1>3. ASSUME NEW i \in DOMAIN r, l \in DOMAIN r[i]
      PROVE  Grows(M!Replay(SubSeq(r, 1, i - 1), t)[l], r[i][l])
  <2>1. i \in 1 .. n - 1 /\ i + 1 \in DOMAIN q /\ r[i] = q[i + 1] /\ (i + 1) - 1 = i
    BY <1>2, <1>3
  <2>2. Grows(M!Replay(SubSeq(q, 1, i), s)[l], r[i][l])
    BY <1>3, <2>1 DEF Chain
  <2>3. PICK a, b : a = SubSeq(q, 1, i) /\ b = SubSeq(r, 1, i - 1)
    OBVIOUS
  <2>4. a \in Seq(M!Write) /\ a # <<>> /\ Head(a) = Head(q) /\ b = Tail(a)
    <3>1. /\ a \in Seq(M!Write) /\ Len(a) = i /\ a = [j \in 1 .. i |-> q[j]]
      BY <1>1, <1>2, <2>1, <2>3
    <3>2. b = [j \in 1 .. i - 1 |-> r[j]]
      BY <1>2, <2>1, <2>3
    <3>3. a # <<>> /\ Head(a) = Head(q)
      BY <1>1, <1>2, <2>1, <3>1
    <3>4. Tail(a) = [j \in 1 .. i - 1 |-> a[j + 1]]
      BY <2>1, <3>1, <3>3
    <3>5. \A j \in 1 .. i - 1 : r[j] = q[j + 1] /\ a[j + 1] = q[j + 1]
      BY <1>2, <2>1, <3>1
    <3> QED
      BY <3>1, <3>2, <3>3, <3>4, <3>5
  <2>5. M!Replay(Tail(a), M!Overlay(Head(a), s))[l] = M!Replay(a, s)[l]
    BY <2>4, MirrorAssumptions, M!ReplayHead
  <2> QED
    BY <2>2, <2>3, <2>4, <2>5
<1>4. Grows(s[l], t[l])
  <2>1. t[l] = IF l \in DOMAIN e THEN e[l] ELSE s[l]
    BY <1>1 DEF M!Overlay
  <2>2. CASE l \in DOMAIN e
    <3>1. 1 \in DOMAIN q /\ q[1] = e
      BY <1>1, <1>2
    <3>2. Grows(M!Replay(SubSeq(q, 1, 1 - 1), s)[l], e[l])
      BY <2>2, <3>1 DEF Chain
    <3>3. SubSeq(q, 1, 1 - 1) = <<>>
      OBVIOUS
    <3>4. M!Replay(<<>>, s)[l] = s[l]
      BY MirrorAssumptions, M!ReplayNone
    <3> QED
      BY <2>1, <2>2, <3>2, <3>3, <3>4
  <2>3. CASE l \notin DOMAIN e
    BY <2>1, <2>3 DEF Grows
  <2> QED
    BY <2>2, <2>3
<1> QED
  BY <1>3, <1>4 DEF Chain

LEMMA SoleLog ==
  ASSUME PathsApart, NEW d \in Device \cap Account, NEW s
  PROVE  /\ Log(d) \in Listens[d] /\ Log(d) \in Leaf /\ Sole(d, Log(d), s)
         /\ \A b \in Device : ByRight(b, Log(d), s) => b = d
<1>1. PICK l : l = Log(d)
  OBVIOUS
<1>2. l \in Leaf /\ Entered(l) /\ \A u : l # Marks(u)
  BY <1>1, EnteredLeaves
<1>3. l \in Listens[d]
  BY <1>1 DEF Listens, Log
<1>4. ASSUME NEW b \in Device, ByRight(b, l, s)
      PROVE  b = d
  <2>1. b \in Account /\ Log(b) = Log(d)
    BY <1>1, <1>2, <1>4 DEF ByRight
  <2>2. SafeEmail[b] = SafeEmail[d]
    BY <2>1 DEF Log
  <2> QED
    BY <2>1, <2>2 DEF PathsApart
<1> QED
  BY <1>1, <1>2, <1>3, <1>4 DEF Sole

\* d shows its log with the writes that are still to be sent.
LEMMA ShownWithUnsent ==
  ASSUME M!TypeOK, NEW d \in Device, NEW l \in Leaf, M!OwnShown(d, l)
  PROVE  view[d][l] = M!Replay(pending[d], server)[l]
<1>1. PICK q, u, s, t, v : /\ q = pending[d] /\ u = unheard[d] /\ s = server /\ t = u \o q
                           /\ v = view[d][l]
  OBVIOUS
<1>2. q \in Seq(M!Write) /\ u \in Seq(M!Write) /\ s \in [Leaf -> Value]
  BY <1>1 DEF M!TypeOK
<1>3. M!Replay(u, s)[l] = s[l] /\ M!Replay(t, s)[l] = v
  BY <1>1 DEF M!OwnShown, M!Unacked
<1>4. M!Joins(t, u, q)
  BY <1>1 DEF M!Joins
<1>5. \A a, b \in Seq(M!Write) : M!Joins(t, a, b) =>
        /\ M!Touching(b, l) # {} => M!Replay(t, s)[l] = M!Replay(b, s)[l]
        /\ M!Touching(b, l) = {} => M!Replay(t, s)[l] = M!Replay(a, s)[l]
  BY <1>2, MirrorAssumptions, M!ReplayConcat
<1>6. M!Touching(q, l) = {} => M!Replay(q, s)[l] = s[l]
  BY DEF M!Replay
<1>7. /\ M!Touching(q, l) # {} => M!Replay(t, s)[l] = M!Replay(q, s)[l]
      /\ M!Touching(q, l) = {} => M!Replay(t, s)[l] = M!Replay(u, s)[l]
  BY <1>2, <1>4, <1>5
<1> QED
  BY <1>1, <1>3, <1>6, <1>7

LEMMA ChainsKept ==
  ASSUME AppInv, LogInv, ChainsInv, PathsApart, MaxReconnects = 0, NEW d \in Device, Shape(d)
  PROVE  ChainsInv'
<1>1. M!TypeOK /\ M!SentOnly(Own(saved))
  BY DEF LogInv, WritersInv, AppInv, MirrorInv, M!IInv
<1>2. Moves(d, Own(saved))
  BY ShapeMoves DEF Longer, LogInv
<1>3. ~M!Reconnect(d)
  BY DEF M!Reconnect, ChainsInv
<1>4. reconnects' = 0
  BY <1>2, <1>3 DEF Moves, ChainsInv, M!LocalWrite, M!Commit, M!Deliver, M!Restart, syncVars
<1>5. SUFFICES ASSUME NEW c \in Device \cap Account
               PROVE  Chain(pending'[c], server', Log(c))
  BY <1>4 DEF ChainsInv
<1>6. PICK l, q, s, r, t : /\ l = Log(c) /\ q = pending[c] /\ s = server
                           /\ r = pending'[c] /\ t = server'
  OBVIOUS
<1>7. /\ l \in Listens[c] /\ l \in Leaf /\ Sole(c, l, saved)
      /\ \A b \in Device : ByRight(b, l, saved) => b = c
  BY <1>6, SoleLog
<1>8. /\ q \in Seq(M!Write) /\ s \in [Leaf -> Value] /\ Chain(q, s, l)
      /\ pending = [b \in Device |-> pending[b]]
  BY <1>1, <1>6 DEF M!TypeOK, ChainsInv
<1>9. SUFFICES Chain(r, t, l)
  BY <1>6
<1>10. CASE M!Commit(d)
  <2>1. PICK e : e = Head(pending[d])
    OBVIOUS
  <2>2. e \in Own(saved)[d] /\ t = M!Overlay(e, s) /\ t[l] = IF l \in DOMAIN e THEN e[l] ELSE s[l]
    BY <1>1, <1>6, <1>7, <1>10, <2>1, NextWrite DEF M!Commit
  <2>3. CASE c = d
    <3>1. q # <<>> /\ r = Tail(q) /\ e = Head(q)
      BY <1>6, <1>8, <1>10, <2>1, <2>3 DEF M!Commit
    <3> QED
      BY <1>7, <1>8, <2>2, <3>1, ChainSent
  <2>4. CASE c # d
    <3>1. r = q
      BY <1>6, <1>8, <1>10, <2>4 DEF M!Commit
    <3>2. l \notin DOMAIN e
      BY <1>7, <2>2, <2>4 DEF Own, Sole
    <3> QED
      BY <1>7, <1>8, <2>2, <3>1, <3>2, ChainSame
  <2> QED
    BY <2>3, <2>4
<1>11. CASE M!Deliver(d) \/ UNCHANGED syncVars
  BY <1>6, <1>8, <1>11 DEF M!Deliver, syncVars
<1>12. CASE M!Restart(d)
  <2>1. t = s /\ (r = q \/ r = <<>>)
    BY <1>6, <1>8, <1>12 DEF M!Restart
  <2>2. Chain(<<>>, s, l)
    BY DEF Chain
  <2> QED
    BY <1>8, <2>1, <2>2
<1>13. ASSUME NEW w \in M!Write, M!LocalWrite(d, w), Aside(w) \/ w \in Entries(calls[d])
       PROVE  Chain(r, t, l)
  <2>1. t = s /\ (r = q \/ (c = d /\ r = Append(q, w)))
    BY <1>6, <1>8, <1>13 DEF M!LocalWrite
  <2>2. CASE c = d /\ r = Append(q, w)
    <3>1. ASSUME l \in DOMAIN w
          PROVE  Grows(M!Replay(q, s)[l], w[l])
      <4>1. w \in Entries(calls[d])
        BY <1>7, <1>13, <3>1 DEF Aside, Sole
      <4>2. M!OwnShown(c, l)
        BY <1>7 DEF LogInv, LedgerInv
      <4>3. PICK y : Ledger(calls[c], view[c][l], l, y)
        BY <1>7 DEF LogInv, LedgerInv
      <4>4. PICK v : v = view[c][l]
        OBVIOUS
      <4>5. v = M!Replay(q, s)[l]
        BY <1>1, <1>6, <1>7, <4>2, <4>4, ShownWithUnsent
      <4>6. w[l] \in Waiting(calls[c], l)
        BY <2>2, <3>1, <4>1 DEF Waiting
      <4>7. w[l] = y
        BY <4>3, <4>6 DEF Ledger
      <4>8. v = y \/ \E x : y = Append(v, x)
        BY <4>3, <4>4 DEF Ledger
      <4> QED
        BY <4>5, <4>7, <4>8 DEF Grows
    <3>2. Adds(r, q, w)
      BY <2>2 DEF Adds
    <3> QED
      BY <1>7, <1>8, <1>13, <2>1, <3>1, <3>2, ChainAdds
  <2> QED
    BY <1>8, <2>1, <2>2
<1>14. \/ \E w \in M!Write : M!LocalWrite(d, w) /\ (Aside(w) \/ w \in Entries(calls[d]))
       \/ M!Commit(d) \/ M!Deliver(d) \/ M!Restart(d) \/ UNCHANGED syncVars
  BY <1>3 DEF Shape, Idles, Enters, PlansLog, PlansGrade, Plans, Quits, Silent
<1> QED
  BY <1>10, <1>11, <1>12, <1>13, <1>14

\* What one step does to a log.
LEMMA LogsGrow ==
  ASSUME AppInv, AppInv', LogInv, ChainsInv, PathsApart, NEW d \in Device, Shape(d),
         NEW u \in Account
  PROVE  LogGrows(u)
<1>1. PICK l, s, t : l = Log(u) /\ s = server /\ t = server'
  OBVIOUS
<1>2. l \in Leaf /\ Entered(l) /\ (\A c : l # Marks(c)) /\ ValueOf(l) = Seq(Names \cup {NoName})
  BY <1>1, EnteredLeaves
<1>3. s[l] \in Seq(Names \cup {NoName}) /\ t[l] \in Seq(Names \cup {NoName})
  <2>1. \A m \in Leaf : server[m] \in ValueOf(m)
    BY ViewTyped
  <2>2. \A m \in Leaf : server'[m] \in ValueOf(m)
    BY KnownTypes DEF AppInv, MirrorInv, M!HoldsOnly, Allowed
  <2> QED
    BY <1>1, <1>2, <2>1, <2>2
<1>4. Moves(d, Own(saved)) /\ M!TypeOK /\ M!SentOnly(Own(saved))
  BY ShapeMoves DEF Longer, LogInv, WritersInv, AppInv, MirrorInv, M!IInv
<1>5. Grows(s[l], t[l])
  <2>1. CASE ~M!Commit(d)
    <3>1. t = s
      BY <1>1, <1>4, <2>1 DEF Moves, M!LocalWrite, M!Deliver, M!Reconnect, M!Restart, syncVars
    <3> QED
      BY <3>1 DEF Grows
  <2>2. CASE M!Commit(d)
    <3>1. PICK q, e : q = pending[d] /\ e = Head(q)
      OBVIOUS
    <3>2. /\ q # <<>> /\ e \in Own(saved)[d] /\ t = M!Overlay(e, s)
          /\ t[l] = IF l \in DOMAIN e THEN e[l] ELSE s[l]
      BY <1>1, <1>2, <1>4, <2>2, <3>1, NextWrite DEF M!Commit
    <3>3. CASE l \in DOMAIN e
      <4>1. ByRight(d, l, saved)
        BY <1>2, <3>2, <3>3 DEF Own
      <4>2. d \in Account /\ Log(d) = Log(u)
        BY <1>1, <1>2, <4>1 DEF ByRight
      <4>3. SafeEmail[d] = SafeEmail[u]
        BY <4>2 DEF Log
      <4>4. d = u
        BY <4>2, <4>3 DEF PathsApart
      <4>5. Chain(q, s, l) /\ q \in Seq(M!Write) /\ s \in [Leaf -> Value]
        BY <1>1, <1>4, <3>1, <4>2, <4>4 DEF ChainsInv, M!TypeOK
      <4> QED
        BY <1>2, <3>1, <3>2, <4>5, ChainSent
    <3>4. CASE l \notin DOMAIN e
      BY <3>2, <3>4 DEF Grows
    <3> QED
      BY <3>3, <3>4
  <2> QED
    BY <2>1, <2>2
<1>6. ASSUME NEW a, NEW b, a \in Seq(Names \cup {NoName}), b \in Seq(Names \cup {NoName}),
             NEW x, b = Append(a, x)
      PROVE  x \in Names \cup {NoName}
  <2>1. PICK B : B = Names \cup {NoName} \cup {x}
    OBVIOUS
  <2>2. a \in Seq(B) /\ x \in B
    BY <1>6, <2>1, SeqMonotonic
  <2>3. Len(a) + 1 \in DOMAIN b /\ b[Len(a) + 1] = x
    BY <1>6, <2>2
  <2> QED
    BY <1>6, <2>3
<1>7. t[l] # s[l] => \E x \in Names \cup {NoName} : t[l] = Append(s[l], x)
  BY <1>3, <1>5, <1>6 DEF Grows
<1> QED
  BY <1>1, <1>7 DEF LogGrows, Log

\* As long as no connection is lost, an account's activity log only grows, one entry
\* at a time, although every entry is added by writing the whole list back
\* (DatabaseManager, insertActivities): restarts included, for what a restart
\* loses was never sent.
THEOREM LogsOnlyGrow ==
  ASSUME Hasty = FALSE, PathsApart, MaxReconnects = 0
  PROVE  Spec => ActivitiesOnlyGrow
<1>1. Init => ChainsInv
  <2> SUFFICES ASSUME Init
               PROVE  ChainsInv
    OBVIOUS
  <2>1. reconnects = 0 /\ \A d \in Device : pending[d] = <<>>
    BY SyncActions DEF Init, M!Init
  <2> QED
    BY <2>1 DEF ChainsInv, Chain
<1>2. AppInv /\ TaskInv /\ LogInv /\ ChainsInv /\ [Next]_vars
        => ChainsInv' /\ [\A u \in Account : LogGrows(u)]_vars
  <2> SUFFICES ASSUME AppInv, TaskInv, LogInv, ChainsInv, [Next]_vars
               PROVE  ChainsInv' /\ [\A u \in Account : LogGrows(u)]_vars
    OBVIOUS
  <2>1. CASE Next
    <3>1. PICK d \in Device : Shape(d)
      BY <2>1, StepShapes DEF LogInv
    <3>2. AppInv'
      BY NextKeeps
    <3> QED
      BY <3>1, <3>2, ChainsKept, LogsGrow
  <2>2. CASE UNCHANGED vars
    <3>1. reconnects' = reconnects /\ pending' = pending /\ server' = server
      BY <2>2 DEF vars, syncVars
    <3> QED
      BY <2>2, <3>1 DEF ChainsInv
  <2> QED
    BY <2>1, <2>2
<1>3. Spec => [](AppInv /\ TaskInv /\ LogInv)
  BY LogsFit
<1> QED
  BY <1>1, <1>2, <1>3, PTL DEF Spec, ActivitiesOnlyGrow
=============================================================================
