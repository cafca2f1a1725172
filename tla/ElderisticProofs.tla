-------------------------- MODULE ElderisticProofs --------------------------
(***************************************************************************)
(* Proofs about the whole system.                                          *)
(***************************************************************************)
EXTENDS Elderistic, ListsProofs

M == INSTANCE FirebaseSyncProofs WITH Client <- Device

-----------------------------------------------------------------------------
(* The leaves and their values.                                            *)

LEMMA KeyTypes == Key \subseteq Nat /\ NoKey \notin Key
BY SchemaAssumption DEF Key, NoKey

LEMMA Values ==
  /\ \A k : /\ ValueOf(<<k, "request">>) = {Absent} \cup Heading
            /\ ValueOf(<<k, "status">>) = {Absent} \cup Status
            /\ ValueOf(<<k, "volunteer">>) = {Absent, NoUser} \cup Volunteers
            /\ ValueOf(<<k, "activities">>) = Seq(Names \cup {NoName})
            /\ ValueOf(<<k, "grades">>) = Seq(Grades)
            /\ ValueOf(<<k, "comments">>) = Seq([name : Names \cup {NoName}, user : Account])
            /\ ValueOf(<<k, "rating">>) = {Absent} \cup Rating
  /\ \A l \in Leaf : ValueOf(l) \subseteq Value
BY DEF ValueOf, Value

LEMMA Leaves ==
  /\ \A k \in Key \cup {NoKey}, f \in RequestField : <<k, f>> \in Leaf
  /\ \A u \in Account \cup {NoUser}, f \in ListField \cup {"rating"} : <<SafeEmail[u], f>> \in Leaf
  /\ \A p \in Path, f \in ListField \cup {"rating"} : <<p, f>> \in Leaf
  /\ \A l \in Leaf : l = <<l[1], l[2]>>
BY DEF Leaf, RequestLeaf, UserLeaf, Path

-----------------------------------------------------------------------------
(* What a leaf may hold once the tasks asg are assigned and acc accepted.  *)

InScale(x) == \/ x.sum = 0 /\ x.count = 0
              \/ x.count * Min(Grades) =< x.sum /\ x.sum =< x.count * Max(Grades)

Known(l, acc, asg) ==
  {x \in ValueOf(l) :
     /\ (l[2] = "status" /\ l[1] \in Key /\ x = Scheduled) =>
          \E v \in Volunteers : <<l[1], v>> \in acc \cap asg
     /\ (l[2] = "volunteer" /\ l[1] \in Key /\ x \in Volunteers) => <<l[1], x>> \in asg
     /\ (l[2] = "rating" /\ x # Absent) => InScale(x)}

Allowed(acc, asg) == [l \in Leaf |-> Known(l, acc, asg)]

\* The values of a leaf that no history restricts,
LEMMA FreeValues ==
  ASSUME NEW acc, NEW asg
  PROVE  /\ \A k : Known(<<k, "request">>, acc, asg) = {Absent} \cup Heading
         /\ \A p : \A f \in ListField : Known(<<p, f>>, acc, asg) = ValueOf(<<p, f>>)
         /\ \A k : {Active, Registered, Finished, Absent} \subseteq Known(<<k, "status">>, acc, asg)
         /\ \A k : {NoUser, Absent} \subseteq Known(<<k, "volunteer">>, acc, asg)
         /\ \A k : k \notin Key => /\ Scheduled \in Known(<<k, "status">>, acc, asg)
                                  /\ Volunteers \subseteq Known(<<k, "volunteer">>, acc, asg)
<1>1. \A k : Known(<<k, "request">>, acc, asg) = {Absent} \cup Heading
  BY Values DEF Known
<1>2. \A p : \A f \in ListField : Known(<<p, f>>, acc, asg) = ValueOf(<<p, f>>)
  BY DEF Known, ListField
<1>3. \A k : {Active, Registered, Finished, Absent} \subseteq Known(<<k, "status">>, acc, asg)
  BY Values, SchemaAssumption DEF Known, Status, Active, Registered, Finished, Scheduled
<1>4. \A k : {NoUser, Absent} \subseteq Known(<<k, "volunteer">>, acc, asg)
  BY Values, SchemaAssumption DEF Known, User
<1>5. ASSUME NEW k, k \notin Key
      PROVE  /\ Scheduled \in Known(<<k, "status">>, acc, asg)
             /\ Volunteers \subseteq Known(<<k, "volunteer">>, acc, asg)
  BY <1>5, Values DEF Known, Status
<1> QED
  BY <1>1, <1>2, <1>3, <1>4, <1>5

\* ... the others,
LEMMA HistoryValues ==
  ASSUME NEW acc, NEW asg, NEW k \in Key
  PROVE  /\ \A v \in Volunteers : <<k, v>> \in acc \cap asg =>
              Scheduled \in Known(<<k, "status">>, acc, asg)
         /\ \A v \in Volunteers : <<k, v>> \in asg => v \in Known(<<k, "volunteer">>, acc, asg)
BY Values DEF Known, Status

\* ... and more as more is assigned and accepted.
LEMMA KnownGrows ==
  ASSUME NEW acc, NEW asg, NEW acc2, NEW asg2, acc \subseteq acc2, asg \subseteq asg2
  PROVE  \A l \in Leaf : Allowed(acc, asg)[l] \subseteq Allowed(acc2, asg2)[l]
BY DEF Allowed, Known

LEMMA KnownTypes ==
  ASSUME NEW acc, NEW asg
  PROVE  \A l \in Leaf : /\ Allowed(acc, asg)[l] \subseteq ValueOf(l)
                         /\ Allowed(acc, asg)[l] \subseteq Value
                         /\ Allowed(acc, asg)[l] = Known(l, acc, asg)
BY Values DEF Allowed, Known

-----------------------------------------------------------------------------
(* The writes of the app.                                                  *)

LEMMA PutKnown ==
  ASSUME NEW acc, NEW asg, NEW l \in Leaf, NEW x \in Known(l, acc, asg)
  PROVE  PutLeaf(l, x) \in M!WritesOf(Allowed(acc, asg))
<1>1. x \in Value
  BY KnownTypes
<1>2. PutLeaf(l, x) \in [{l} -> Value] /\ {l} \in (SUBSET Leaf) \ {{}}
  BY <1>1 DEF PutLeaf
<1>3. PutLeaf(l, x) \in M!Write
  BY <1>2 DEF M!Write
<1>4. \A m \in DOMAIN PutLeaf(l, x) : PutLeaf(l, x)[m] \in Allowed(acc, asg)[m]
  BY DEF PutLeaf, Allowed
<1> QED
  BY <1>3, <1>4 DEF M!WritesOf

LEMMA CreateKnown ==
  ASSUME NEW acc, NEW asg, NEW k \in Key, NEW e \in Elders, NEW n \in Names \cup {NoName}
  PROVE  CreateRecord(k, e, n) \in M!WritesOf(Allowed(acc, asg))
<1> DEFINE w == CreateRecord(k, e, n)
           S == {k} \X RequestField
<1>1. S \in (SUBSET Leaf) \ {{}} /\ DOMAIN w = S
  <2>1. <<k, "request">> \in S /\ S \subseteq Leaf
    BY DEF Leaf, RequestLeaf, RequestField
  <2> QED
    BY <2>1 DEF CreateRecord
<1>2. ASSUME NEW l \in S
      PROVE  w[l] \in Known(l, acc, asg)
  <2>1. l = <<k, "request">> \/ l = <<k, "status">> \/ l = <<k, "volunteer">>
    BY DEF RequestField
  <2>2. CASE l = <<k, "request">>
    BY <2>2, FreeValues DEF CreateRecord, NewField, Heading
  <2>3. CASE l = <<k, "status">>
    BY <2>3, FreeValues DEF CreateRecord, NewField
  <2>4. CASE l = <<k, "volunteer">>
    BY <2>4, FreeValues DEF CreateRecord, NewField
  <2> QED
    BY <2>1, <2>2, <2>3, <2>4
<1>3. \A l \in S : w[l] \in Value /\ w[l] \in Allowed(acc, asg)[l]
  BY <1>1, <1>2, KnownTypes
<1>4. w \in [S -> Value]
  BY <1>1, <1>3 DEF CreateRecord
<1> QED
  BY <1>1, <1>3, <1>4 DEF M!WritesOf, M!Write

LEMMA RemoveKnown ==
  ASSUME NEW acc, NEW asg, NEW k \in Key \cup {NoKey}
  PROVE  RemoveRecord(k) \in M!WritesOf(Allowed(acc, asg))
<1> DEFINE w == RemoveRecord(k)
           S == IF k = NoKey THEN RequestLeaf ELSE {k} \X RequestField
<1>1. S \in (SUBSET Leaf) \ {{}} /\ S \subseteq RequestLeaf /\ DOMAIN w = S
  <2>1. <<k, "request">> \in S /\ S \subseteq RequestLeaf
    BY DEF RequestLeaf, RequestField
  <2>2. RequestLeaf \subseteq Leaf
    BY DEF Leaf
  <2> QED
    BY <2>1, <2>2 DEF RemoveRecord
<1>2. ASSUME NEW l \in S
      PROVE  w[l] \in Known(l, acc, asg)
  <2>1. w[l] = Absent
    BY DEF RemoveRecord
  <2>2. \E j : l = <<j, "request">> \/ l = <<j, "status">> \/ l = <<j, "volunteer">>
    BY <1>1 DEF RequestLeaf, RequestField
  <2> QED
    BY <2>1, <2>2, FreeValues
<1>3. \A l \in S : w[l] \in Value /\ w[l] \in Allowed(acc, asg)[l]
  BY <1>1, <1>2, KnownTypes
<1>4. w \in [S -> Value]
  BY <1>1, <1>3 DEF RemoveRecord
<1> QED
  BY <1>1, <1>3, <1>4 DEF M!WritesOf, M!Write

-----------------------------------------------------------------------------
(* The database at the start.                                              *)

TakenAtStart == {<<i, Filed[i].volunteer>> : i \in Taken}

LEMMA FiledKeys ==
  Len(Filed) \in Nat /\ DOMAIN Filed = 1 .. Len(Filed) /\ \A i \in DOMAIN Filed : i \in Key
<1> DEFINE R == [elder : Elders, name : Names, status : {Active, Scheduled},
                 volunteer : Volunteers \cup {NoUser}]
<1>1. Filed \in Seq(R)
  BY SchemaAssumption
<1>2. Len(Filed) =< MaxRequests /\ MaxRequests \in Nat
  BY SchemaAssumption
<1> HIDE DEF R
<1> QED
  BY <1>1, <1>2 DEF Key

LEMMA FiledTypes ==
  ASSUME NEW i \in DOMAIN Filed
  PROVE  /\ Filed[i].elder \in Elders
         /\ Filed[i].name \in Names
         /\ Filed[i].status \in {Active, Scheduled}
         /\ Filed[i].volunteer \in Volunteers \cup {NoUser}
         /\ Filed[i].status = Active <=> Filed[i].volunteer = NoUser
<1> DEFINE R == [elder : Elders, name : Names, status : {Active, Scheduled},
                 volunteer : Volunteers \cup {NoUser}]
<1>1. Filed[i] \in R
  <2>1. Filed \in Seq(R)
    BY SchemaAssumption
  <2> HIDE DEF R
  <2> QED
    BY <2>1
<1>2. Filed[i].status = Active <=> Filed[i].volunteer = NoUser
  BY SchemaAssumption
<1> QED
  BY <1>1, <1>2

LEMMA TakenTypes ==
  /\ TakenAtStart \subseteq Key \X Volunteers
  /\ \A i \in DOMAIN Filed : Filed[i].volunteer # NoUser => <<i, Filed[i].volunteer>> \in TakenAtStart
<1>1. ASSUME NEW i \in DOMAIN Filed, Filed[i].status = Scheduled
      PROVE  <<i, Filed[i].volunteer>> \in Key \X Volunteers
  <2>1. Active # Scheduled
    BY DEF Active, Scheduled
  <2> QED
    BY <1>1, <2>1, FiledKeys, FiledTypes
<1>2. TakenAtStart \subseteq Key \X Volunteers
  BY <1>1 DEF TakenAtStart, Taken
<1>3. ASSUME NEW i \in DOMAIN Filed, Filed[i].volunteer # NoUser
      PROVE  <<i, Filed[i].volunteer>> \in TakenAtStart
  <2>1. Filed[i].status = Scheduled
    BY <1>3, FiledTypes
  <2> QED
    BY <2>1 DEF TakenAtStart, Taken
<1> QED
  BY <1>2, <1>3

LEMMA LoggedTypes == \A v : LoggedBy(v) \in Seq(Names \cup {NoName})
<1> TAKE v
<1>1. [i \in DOMAIN Filed |-> i] \in Seq(DOMAIN Filed)
  <2>1. [i \in DOMAIN Filed |-> i] \in [1 .. Len(Filed) -> DOMAIN Filed]
    BY FiledKeys
  <2> QED
    BY <2>1, FiledKeys
<1>2. TakenBy(v) \in Seq(DOMAIN Filed)
  BY <1>1, SiftPart DEF TakenBy
<1>3. PICK t : t = TakenBy(v)
  OBVIOUS
<1>4. Len(t) \in Nat /\ DOMAIN t = 1 .. Len(t) /\ \A j \in 1 .. Len(t) : t[j] \in DOMAIN Filed
  BY <1>2, <1>3
<1>5. \A j \in 1 .. Len(t) : Filed[t[j]].name \in Names \cup {NoName}
  BY <1>4, FiledTypes
<1>6. LoggedBy(v) = [j \in 1 .. Len(t) |-> Filed[t[j]].name]
  BY <1>3, <1>4 DEF LoggedBy
<1>7. LoggedBy(v) \in [1 .. Len(t) -> Names \cup {NoName}]
  BY <1>5, <1>6
<1> QED
  BY <1>4, <1>7

LEMMA BlankKnown ==
  \A l \in Leaf : Blank[l] \in Allowed(TakenAtStart, TakenAtStart)[l]
<1> SUFFICES ASSUME NEW l \in Leaf
             PROVE  Blank[l] \in Known(l, TakenAtStart, TakenAtStart)
  BY DEF Allowed
<1>1. CASE l \in UserLeaf
  <2>1. /\ l[2] \in ListField \cup {"rating"} /\ l = <<l[1], l[2]>>
        /\ l[2] \notin RequestField
    BY <1>1 DEF UserLeaf, ListField, RequestField
  <2>2. CASE l[2] = "rating"
    <3>1. Blank[l] \in {Absent, NoRating}
      BY <2>2 DEF Blank, ListField
    <3>2. NoRating \in Rating
      BY DEF NoRating, Rating
    <3>3. ValueOf(l) = {Absent} \cup Rating
      BY <2>2 DEF ValueOf
    <3> QED
      BY <2>2, <3>1, <3>2, <3>3 DEF Known, InScale, NoRating
  <2>3. CASE l[2] = "activities"
    <3>1. Blank[l] \in Seq(Names \cup {NoName})
      BY <2>3, LoggedTypes, EmptySeq DEF Blank, ListField
    <3>2. ValueOf(l) = Seq(Names \cup {NoName})
      BY <2>3 DEF ValueOf
    <3> QED
      BY <2>3, <3>1, <3>2 DEF Known
  <2>4. CASE l[2] = "grades" \/ l[2] = "comments"
    <3>1. Blank[l] = <<>>
      BY <2>4 DEF Blank, ListField
    <3>2. <<>> \in ValueOf(l)
      BY <2>4, EmptySeq DEF ValueOf
    <3> QED
      BY <2>4, <3>1, <3>2 DEF Known
  <2> QED
    BY <2>1, <2>2, <2>3, <2>4 DEF ListField
<1>2. CASE l \in RequestLeaf
  <2>1. PICK k \in Key \cup {NoKey}, f \in RequestField : l = <<k, f>>
    BY <1>2 DEF RequestLeaf
  <2>2. l[1] = k /\ l[2] = f /\ f \notin ListField /\ f # "rating" /\ f # "activities"
    BY <2>1 DEF RequestField, ListField
  <2>3. Blank[l] = IF k \in DOMAIN Filed THEN FiledField(f, Filed[k]) ELSE Absent
    BY <2>2 DEF Blank
  <2>4. CASE k \notin DOMAIN Filed
    BY <2>1, <2>3, <2>4, FreeValues DEF RequestField
  <2>5. CASE k \in DOMAIN Filed
    <3>1. k \in Key /\ Blank[l] = FiledField(f, Filed[k])
      BY <2>3, <2>5, FiledKeys
    <3>2. CASE f = "request"
      <4>1. Blank[l] = [elder |-> Filed[k].elder, name |-> Filed[k].name]
        BY <3>1, <3>2 DEF FiledField
      <4>2. Filed[k].elder \in Elders /\ Filed[k].name \in Names
        BY <2>5, FiledTypes
      <4>3. Blank[l] \in Heading
        BY <4>1, <4>2 DEF Heading
      <4> QED
        BY <2>1, <3>2, <4>3, FreeValues
    <3>3. CASE f = "status"
      <4>1. Blank[l] = Filed[k].status
        BY <3>1, <3>3 DEF FiledField
      <4>2. CASE Filed[k].status = Active
        BY <2>1, <3>3, <4>1, <4>2, FreeValues
      <4>3. CASE Filed[k].status # Active
        <5>1. /\ Filed[k].status = Scheduled /\ Filed[k].volunteer \in Volunteers
              /\ <<k, Filed[k].volunteer>> \in TakenAtStart
          <6>1. Filed[k].status = Scheduled /\ Filed[k].volunteer # NoUser
            BY <2>5, <4>3, FiledTypes
          <6>2. Filed[k].volunteer \in Volunteers
            BY <2>5, <6>1, FiledTypes
          <6> QED
            BY <2>5, <6>1, <6>2, TakenTypes
        <5> QED
          BY <2>1, <3>1, <3>3, <4>1, <5>1, HistoryValues
      <4> QED
        BY <4>2, <4>3
    <3>4. CASE f = "volunteer"
      <4>1. Blank[l] = Filed[k].volunteer
        BY <3>1, <3>4 DEF FiledField
      <4>2. CASE Filed[k].volunteer = NoUser
        BY <2>1, <3>4, <4>1, <4>2, FreeValues
      <4>3. CASE Filed[k].volunteer # NoUser
        <5>1. Filed[k].volunteer \in Volunteers /\ <<k, Filed[k].volunteer>> \in TakenAtStart
          BY <2>5, <4>3, FiledTypes, TakenTypes
        <5> QED
          BY <2>1, <3>1, <3>4, <4>1, <5>1, HistoryValues
      <4> QED
        BY <4>2, <4>3
    <3> QED
      BY <3>2, <3>3, <3>4 DEF RequestField
  <2> QED
    BY <2>4, <2>5
<1> QED
  BY <1>1, <1>2 DEF Leaf

\* What FirebaseSync assumes of its constants.
LEMMA MirrorAssumptions ==
  /\ Blank \in [Leaf -> Value] /\ Listens \in [Device -> SUBSET Leaf]
  /\ MaxPending \in Nat /\ MaxInbox \in Nat /\ MaxReconnects \in Nat /\ MaxRestarts \in Nat
<1>1. \A l \in Leaf : Blank[l] \in Value
  BY BlankKnown, KnownTypes
<1>2. Blank \in [Leaf -> Value]
  BY <1>1 DEF Blank
<1>3. ASSUME NEW d \in Device
      PROVE  Listens[d] \subseteq Leaf
  <2>1. Key \X RequestField \subseteq Leaf
    BY DEF Leaf, RequestLeaf
  <2>2. {<<SafeEmail[u], "activities">> : u \in {d} \cap Account} \subseteq Leaf
    BY Leaves DEF ListField
  <2>3. {SafeEmail[u] : u \in Graded(d)} \X {"grades", "comments"} \subseteq Leaf
    <3>1. Graded(d) \subseteq Account \cup {NoUser}
      BY DEF Graded, Account
    <3>2. {SafeEmail[u] : u \in Graded(d)} \subseteq Path
      BY <3>1 DEF Path
    <3> QED
      BY <3>2 DEF Leaf, UserLeaf, ListField
  <2> QED
    BY <2>1, <2>2, <2>3 DEF Listens
<1>4. Listens \in [Device -> SUBSET Leaf]
  BY <1>3 DEF Listens
<1> QED
  BY <1>2, <1>4, LimitAssumption

\* The two instances of FirebaseSync are the same.
LEMMA SyncActions ==
  /\ Sync!Init <=> M!Init
  /\ \A d, w : Sync!LocalWrite(d, w) <=> M!LocalWrite(d, w)
  /\ \A d : Sync!Commit(d) <=> M!Commit(d)
  /\ \A d : Sync!Deliver(d) <=> M!Deliver(d)
  /\ \A d : Sync!Reconnect(d) <=> M!Reconnect(d)
  /\ \A d : Sync!Restart(d) <=> M!Restart(d)
<1>1. Sync!Init <=> M!Init
  BY DEF Sync!Init, M!Init
<1>2. \A d, w : Sync!LocalWrite(d, w) <=> M!LocalWrite(d, w)
  BY DEF Sync!LocalWrite, M!LocalWrite, Sync!Mirror, M!Mirror, Sync!Overlay, M!Overlay
<1>3. \A d : Sync!Commit(d) <=> M!Commit(d)
  BY DEF Sync!Commit, M!Commit, Sync!Overlay, M!Overlay, Sync!Seen, M!Seen
<1>4. \A d : Sync!Deliver(d) <=> M!Deliver(d)
  BY DEF Sync!Deliver, M!Deliver, Sync!Seen, M!Seen, Sync!Shadowed, M!Shadowed,
     Sync!Unsent, M!Unsent, Sync!Touching, M!Touching, Sync!Echo, M!Echo, Sync!Coming, M!Coming
<1>5. \A d : Sync!Reconnect(d) <=> M!Reconnect(d)
  BY DEF Sync!Reconnect, M!Reconnect, Sync!Unacked, M!Unacked, Sync!Mirror, M!Mirror,
     Sync!Replay, M!Replay, Sync!Touching, M!Touching, Sync!Latest, M!Latest
<1>6. \A d : Sync!Restart(d) <=> M!Restart(d)
  BY DEF Sync!Restart, M!Restart, Sync!Mirror, M!Mirror
<1> QED
  BY <1>1, <1>2, <1>3, <1>4, <1>5, <1>6

-----------------------------------------------------------------------------
(* What a device may keep.                                                 *)

RowsFor(d, asg) == {r \in Row : (d \in Volunteers /\ r.key \in Key) => <<r.key, d>> \in asg}
ScreensFor(d, asg) ==
  {s \in ScreenType : (d \in Volunteers /\ s.key \in Key) => <<s.key, d>> \in asg}
WatchesFor == {w \in [path : Path, sum : Nat, count : Nat] : InScale(w)}

FindPuts == {<< <<"status", Finished>> >>}
              \cup {<< <<"status", Registered>>, <<"volunteer", v>> >> : v \in Volunteers}

CallsFor(n, K) == [op : {"write"}, put : M!WritesOf(K)]
                    \cup {[op |-> "dismiss"]}
                    \cup [op : {"find"}, name : Names \cup {NoName}, puts : FindPuts]
                    \cup [op : {"rate"}, watch : 1 .. n, grades : Seq(Grades) \ {<<>>}]

\* Rows with a key show the request as the view v has it.
KeyedIn(R, v) ==
  \A r \in R : r.key # NoKey => Exists(v, r.key) /\ r = RowFor(v, r.key, r.key)

LEMMA CallKinds ==
  ASSUME NEW n, NEW K, NEW c \in CallsFor(n, K)
  PROVE  /\ c.op = "write" => c.put \in M!WritesOf(K)
         /\ c.op = "find" => c.name \in Names \cup {NoName} /\ c.puts \in FindPuts
         /\ c.op = "rate" => c.watch \in 1 .. n /\ c.grades \in Seq(Grades) /\ c.grades # <<>>
BY DEF CallsFor

LEMMA CallsGrow ==
  ASSUME NEW n \in Nat, NEW m \in Nat, n =< m, NEW K, NEW L,
         \A l \in Leaf : K[l] \subseteq L[l]
  PROVE  CallsFor(n, K) \subseteq CallsFor(m, L)
<1>1. M!WritesOf(K) \subseteq M!WritesOf(L)
  BY MirrorAssumptions, M!WritesGrow
<1>2. [op : {"write"}, put : M!WritesOf(K)] \subseteq [op : {"write"}, put : M!WritesOf(L)]
  BY <1>1
<1>3. [op : {"rate"}, watch : 1 .. n, grades : Seq(Grades) \ {<<>>}]
        \subseteq [op : {"rate"}, watch : 1 .. m, grades : Seq(Grades) \ {<<>>}]
  OBVIOUS
<1> QED
  BY <1>2, <1>3 DEF CallsFor

\* A table row made from a view that holds only what is allowed.
LEMMA RowKnown ==
  ASSUME NEW acc, NEW asg, NEW v, \A l \in Leaf : v[l] \in Allowed(acc, asg)[l],
         NEW d, NEW k \in Key, NEW key \in {k, NoKey},
         (d \in Volunteers /\ key = k) => VolunteerOf(v, k) = d
  PROVE  RowFor(v, k, key) \in RowsFor(d, asg)
<1>1. /\ Request(v, k) \in {Absent} \cup Heading
      /\ StatusOf(v, k) \in {Absent} \cup Status
      /\ VolunteerOf(v, k) \in {Absent, NoUser} \cup Volunteers
      /\ VolunteerOf(v, k) \in Known(<<k, "volunteer">>, acc, asg)
  <2>1. <<k, "request">> \in Leaf /\ <<k, "status">> \in Leaf /\ <<k, "volunteer">> \in Leaf
    BY Leaves DEF RequestField
  <2>2. /\ v[<<k, "request">>] \in ValueOf(<<k, "request">>)
        /\ v[<<k, "status">>] \in ValueOf(<<k, "status">>)
        /\ v[<<k, "volunteer">>] \in ValueOf(<<k, "volunteer">>)
        /\ v[<<k, "volunteer">>] \in Known(<<k, "volunteer">>, acc, asg)
    BY <2>1, KnownTypes
  <2> QED
    BY <2>2, Values DEF Request, StatusOf, VolunteerOf
<1>2. RowFor(v, k, key) \in Row
  BY <1>1 DEF RowFor, Row
<1>3. (d \in Volunteers /\ key = k) => <<k, d>> \in asg
  BY <1>1 DEF Known
<1>4. RowFor(v, k, key).key = key
  BY DEF RowFor
<1>5. (d \in Volunteers /\ key \in Key) => <<key, d>> \in asg
  BY <1>3, KeyTypes
<1> QED
  BY <1>2, <1>4, <1>5 DEF RowsFor

LEMMA MineIsVolunteers ==
  ASSUME NEW d \in Volunteers, NEW v, NEW k, Mine(d, v, k)
  PROVE  VolunteerOf(v, k) = d
BY SchemaAssumption DEF Mine

LEMMA FetchedKnown ==
  ASSUME NEW acc, NEW asg, NEW v, \A l \in Leaf : v[l] \in Allowed(acc, asg)[l], NEW d
  PROVE  Fetched(d, v) \subseteq RowsFor(d, asg) /\ KeyedIn(Fetched(d, v), v)
<1>1. \A k \in Key : Mine(d, v, k) => RowFor(v, k, k) \in RowsFor(d, asg)
  BY RowKnown, MineIsVolunteers
<1>2. \A k : RowFor(v, k, k).key = k
  BY DEF RowFor
<1> QED
  BY <1>1, <1>2 DEF Fetched, KeyedIn

LEMMA RowsAfterKnown ==
  ASSUME NEW acc, NEW asg, NEW new, \A l \in Leaf : new[l] \in Allowed(acc, asg)[l],
         NEW old, NEW d, NEW R \in SUBSET RowsFor(d, asg)
  PROVE  /\ RowsAfter(d, R, old, new) \subseteq RowsFor(d, asg)
         /\ (d \notin Organisers /\ KeyedIn(R, old)) => KeyedIn(RowsAfter(d, R, old, new), new)
<1>1. Appended(d, old, new) \subseteq RowsFor(d, asg)
  <2>1. \A k \in Key : Mine(d, new, k) => RowFor(new, k, k) \in RowsFor(d, asg)
    BY RowKnown, MineIsVolunteers
  <2> QED
    BY <2>1 DEF Appended
<1>2. KeyedIn(Appended(d, old, new), new)
  <2>1. \A k : RowFor(new, k, k).key = k
    BY DEF RowFor
  <2> QED
    BY <2>1 DEF Appended, KeyedIn
<1>3. ASSUME NEW r \in Kept(d, R, old, new)
      PROVE  /\ r \in RowsFor(d, asg)
             /\ (d \notin Organisers /\ KeyedIn(R, old) /\ r.key # NoKey) =>
                   Exists(new, r.key) /\ r = RowFor(new, r.key, r.key)
  <2>1. PICK q \in R : /\ (q.key # NoKey /\ Exists(old, q.key) /\ ~Exists(new, q.key))
                              => d \in Organisers
                       /\ r = IF /\ q.key # NoKey /\ Exists(old, q.key) /\ Exists(new, q.key)
                                 /\ Record(old, q.key) # Record(new, q.key)
                              THEN RowFor(new, q.key, NoKey) ELSE q
    BY <1>3 DEF Kept
  <2>2. q \in RowsFor(d, asg) /\ q.key \in Key \cup {NoKey}
    BY DEF RowsFor, Row
  <2>3. CASE r = q
    <3>1. ASSUME d \notin Organisers, KeyedIn(R, old), r.key # NoKey
          PROVE  Exists(new, r.key) /\ r = RowFor(new, r.key, r.key)
      <4>1. Exists(old, q.key) /\ q = RowFor(old, q.key, q.key)
        BY <2>3, <3>1 DEF KeyedIn
      <4>2. Exists(new, q.key)
        BY <2>1, <2>3, <3>1, <4>1
      <4>3. Record(old, q.key) = Record(new, q.key) \/ r.key = NoKey
        <5>1. RowFor(new, q.key, NoKey).key = NoKey
          BY DEF RowFor
        <5> QED
          BY <2>1, <2>3, <3>1, <4>1, <4>2, <5>1
      <4>4. RowFor(old, q.key, q.key) = RowFor(new, q.key, q.key)
        BY <3>1, <4>3 DEF Record, RowFor
      <4> QED
        BY <2>3, <4>1, <4>2, <4>4
    <3> QED
      BY <2>2, <2>3, <3>1
  <2>4. CASE r # q
    <3>1. q.key # NoKey /\ r = RowFor(new, q.key, NoKey)
      BY <2>1, <2>4
    <3>2. q.key \in Key /\ NoKey \notin Key
      BY <2>2, <3>1, KeyTypes
    <3>3. NoKey # q.key
      BY <3>2
    <3>4. r \in RowsFor(d, asg)
      BY <3>1, <3>2, <3>3, RowKnown
    <3>5. r.key = NoKey
      BY <3>1 DEF RowFor
    <3> QED
      BY <3>4, <3>5
  <2> QED
    BY <2>3, <2>4
<1>4. Kept(d, R, old, new) \subseteq RowsFor(d, asg)
  BY <1>3
<1>5. (d \notin Organisers /\ KeyedIn(R, old)) => KeyedIn(Kept(d, R, old, new), new)
  BY <1>3 DEF KeyedIn
<1> QED
  BY <1>1, <1>2, <1>4, <1>5 DEF RowsAfter, KeyedIn

LEMMA ScreenAfterKnown ==
  ASSUME NEW d, NEW asg, NEW s \in ScreensFor(d, asg), NEW v
  PROVE  ScreenAfter(d, s, v) \in ScreensFor(d, asg)
<1>1. AlreadyGraded(d, v, s) \in BOOLEAN
  BY DEF AlreadyGraded
<1>2. s \in ScreenType
  BY DEF ScreensFor
<1>3. (s.graded \/ AlreadyGraded(d, v, s)) \in BOOLEAN
  BY <1>1
<1>4. ScreenAfter(d, s, v) \in ScreenType /\ ScreenAfter(d, s, v).key = s.key
  BY <1>2, <1>3 DEF ScreenAfter, ScreenType
<1> QED
  BY <1>4 DEF ScreensFor

-----------------------------------------------------------------------------
(* The callbacks handlers leave to be run.                                 *)

LEMMA WriteCallKnown ==
  ASSUME NEW n, NEW K, NEW w \in M!WritesOf(K)
  PROVE  WriteCall(w) \in CallsFor(n, K)
BY DEF WriteCall, CallsFor

LEMMA UpdateCallsKnown ==
  ASSUME NEW n, NEW K, NEW k, NEW puts, NEW m \in Nat, DOMAIN puts = 1 .. m,
         \A i \in 1 .. m : PutField(k, puts[i][1], puts[i][2]) \in M!WritesOf(K)
  PROVE  UpdateCalls(k, puts) \in Seq(CallsFor(n, K))
<1>1. \A i \in 1 .. m : WriteCall(PutField(k, puts[i][1], puts[i][2])) \in CallsFor(n, K)
  BY WriteCallKnown
<1>2. UpdateCalls(k, puts) = [i \in 1 .. m |-> WriteCall(PutField(k, puts[i][1], puts[i][2]))]
  BY DEF UpdateCalls
<1>3. UpdateCalls(k, puts) \in [1 .. m -> CallsFor(n, K)]
  BY <1>1, <1>2
<1> QED
  BY <1>3

\* An update by name of request k: for a volunteer k is, from now on, assigned to.
LEMMA FindPutsKnown ==
  ASSUME NEW acc, NEW asg, NEW n, NEW k \in Key, NEW puts \in FindPuts,
         \A v \in Volunteers : puts = << <<"status", Registered>>, <<"volunteer", v>> >> => <<k, v>> \in asg
  PROVE  UpdateCalls(k, puts) \in Seq(CallsFor(n, Allowed(acc, asg)))
<1>1. <<k, "status">> \in Leaf /\ <<k, "volunteer">> \in Leaf
  BY Leaves DEF RequestField
<1>2. /\ PutField(k, "status", Finished) \in M!WritesOf(Allowed(acc, asg))
      /\ PutField(k, "status", Registered) \in M!WritesOf(Allowed(acc, asg))
  BY <1>1, FreeValues, PutKnown DEF PutField
<1>3. CASE puts = << <<"status", Finished>> >>
  <2>1. DOMAIN puts = 1 .. 1 /\ \A i \in 1 .. 1 : puts[i][1] = "status" /\ puts[i][2] = Finished
    BY <1>3
  <2> QED
    BY <1>2, <2>1, UpdateCallsKnown
<1>4. ASSUME NEW v \in Volunteers, puts = << <<"status", Registered>>, <<"volunteer", v>> >>
      PROVE  UpdateCalls(k, puts) \in Seq(CallsFor(n, Allowed(acc, asg)))
  <2>1. PutField(k, "volunteer", v) \in M!WritesOf(Allowed(acc, asg))
    <3>1. v \in Known(<<k, "volunteer">>, acc, asg)
      BY <1>4, HistoryValues
    <3> QED
      BY <1>1, <3>1, PutKnown DEF PutField
  <2>2. /\ DOMAIN puts = 1 .. 2
        /\ puts[1][1] = "status" /\ puts[1][2] = Registered
        /\ puts[2][1] = "volunteer" /\ puts[2][2] = v
    BY <1>4
  <2>3. \A i \in 1 .. 2 : PutField(k, puts[i][1], puts[i][2]) \in M!WritesOf(Allowed(acc, asg))
    <3> TAKE i \in 1 .. 2
    <3>1. i = 1 \/ i = 2
      OBVIOUS
    <3> QED
      BY <1>2, <2>1, <2>2, <3>1
  <2> QED
    BY <2>2, <2>3, UpdateCallsKnown
<1> QED
  BY <1>3, <1>4 DEF FindPuts

LEMMA InsertKnown ==
  ASSUME NEW acc, NEW asg, NEW n, NEW d, NEW u \in Account \cup {NoUser}, NEW field \in ListField,
         NEW item, Append(view[d][<<SafeEmail[u], field>>], item) \in ValueOf(<<SafeEmail[u], field>>)
  PROVE  Insert(d, u, field, item) \in Seq(CallsFor(n, Allowed(acc, asg)))
<1>1. PICK l : l = <<SafeEmail[u], field>>
  OBVIOUS
<1>2. l \in Leaf /\ Append(view[d][l], item) \in Known(l, acc, asg)
  <2>1. l \in Leaf
    BY <1>1, Leaves
  <2>2. Known(<<SafeEmail[u], field>>, acc, asg) = ValueOf(<<SafeEmail[u], field>>)
    BY FreeValues
  <2> QED
    BY <1>1, <2>1, <2>2
<1>3. WriteCall(PutLeaf(l, Append(view[d][l], item))) \in CallsFor(n, Allowed(acc, asg))
  BY <1>2, PutKnown, WriteCallKnown
<1>4. Insert(d, u, field, item) = <<WriteCall(PutLeaf(l, Append(view[d][l], item)))>>
  BY <1>1 DEF Insert
<1> QED
  BY <1>3, <1>4

\* The lists of an account as a view that holds only what is allowed shows them.
LEMMA ListsKnown ==
  ASSUME NEW acc, NEW asg, NEW v, \A l \in Leaf : v[l] \in Allowed(acc, asg)[l],
         NEW u \in Account \cup {NoUser}
  PROVE  /\ v[<<SafeEmail[u], "activities">>] \in Seq(Names \cup {NoName})
         /\ v[<<SafeEmail[u], "grades">>] \in Seq(Grades)
         /\ v[<<SafeEmail[u], "comments">>] \in Seq([name : Names \cup {NoName}, user : Account])
<1>1. \A f \in ListField : v[<<SafeEmail[u], f>>] \in ValueOf(<<SafeEmail[u], f>>)
  BY Leaves, KnownTypes
<1> QED
  BY <1>1, Values DEF ListField

LEMMA InsertsKnown ==
  ASSUME NEW acc, NEW asg, NEW n, NEW d, \A l \in Leaf : view[d][l] \in Allowed(acc, asg)[l],
         NEW u \in Account \cup {NoUser}
  PROVE  /\ \A x \in Names \cup {NoName} :
              Insert(d, u, "activities", x) \in Seq(CallsFor(n, Allowed(acc, asg)))
         /\ \A g \in Grades :
              Insert(d, u, "grades", g) \in Seq(CallsFor(n, Allowed(acc, asg)))
         /\ \A c \in [name : Names \cup {NoName}, user : Account] :
              Insert(d, u, "comments", c) \in Seq(CallsFor(n, Allowed(acc, asg)))
<1> DEFINE C == [name : Names \cup {NoName}, user : Account]
           N == Names \cup {NoName}
<1>1. /\ view[d][<<SafeEmail[u], "activities">>] \in Seq(N)
      /\ view[d][<<SafeEmail[u], "grades">>] \in Seq(Grades)
      /\ view[d][<<SafeEmail[u], "comments">>] \in Seq(C)
  BY ListsKnown
<1>2. /\ ValueOf(<<SafeEmail[u], "activities">>) = Seq(N)
      /\ ValueOf(<<SafeEmail[u], "grades">>) = Seq(Grades)
      /\ ValueOf(<<SafeEmail[u], "comments">>) = Seq(C)
  BY Values
<1> HIDE DEF C, N
<1>3. "activities" \in ListField /\ "grades" \in ListField /\ "comments" \in ListField
  BY DEF ListField
<1>4. \A x \in N : Insert(d, u, "activities", x) \in Seq(CallsFor(n, Allowed(acc, asg)))
  <2> TAKE x \in N
  <2>1. Append(view[d][<<SafeEmail[u], "activities">>], x) \in ValueOf(<<SafeEmail[u], "activities">>)
    BY <1>1, <1>2, AppendProperties
  <2> QED
    BY <1>3, <2>1, InsertKnown
<1>5. \A g \in Grades : Insert(d, u, "grades", g) \in Seq(CallsFor(n, Allowed(acc, asg)))
  <2> TAKE g \in Grades
  <2>1. Append(view[d][<<SafeEmail[u], "grades">>], g) \in ValueOf(<<SafeEmail[u], "grades">>)
    BY <1>1, <1>2, AppendProperties
  <2> QED
    BY <1>3, <2>1, InsertKnown
<1>6. \A c \in C : Insert(d, u, "comments", c) \in Seq(CallsFor(n, Allowed(acc, asg)))
  <2> TAKE c \in C
  <2>1. Append(view[d][<<SafeEmail[u], "comments">>], c) \in ValueOf(<<SafeEmail[u], "comments">>)
    BY <1>1, <1>2, AppendProperties
  <2> QED
    BY <1>3, <2>1, InsertKnown
<1> QED
  BY <1>4, <1>5, <1>6 DEF C, N

LEMMA RateCallKnown ==
  ASSUME NEW n \in Nat, NEW K, NEW i \in 1 .. n, NEW gs \in Seq(Grades), gs # <<>>
  PROVE  [op |-> "rate", watch |-> i, grades |-> gs] \in CallsFor(n, K)
BY DEF CallsFor

LEMMA InsertRatingKnown ==
  ASSUME NEW acc, NEW asg, NEW d, \A l \in Leaf : view[d][l] \in Allowed(acc, asg)[l],
         NEW u \in Account \cup {NoUser}, NEW K, Len(watches[d]) \in Nat
  PROVE  InsertRating(d, u) \in Seq(CallsFor(Len(watches[d]) + 1, K))
<1>1. PICK gs : gs = view[d][<<SafeEmail[u], "grades">>]
  OBVIOUS
<1>2. gs \in Seq(Grades)
  BY <1>1, ListsKnown
<1>3. InsertRating(d, u) = IF gs = <<>> THEN <<>>
                           ELSE <<[op |-> "rate", watch |-> Len(watches[d]) + 1, grades |-> gs]>>
  BY <1>1 DEF InsertRating
<1>4. PICK c : c = [op |-> "rate", watch |-> Len(watches[d]) + 1, grades |-> gs]
  OBVIOUS
<1>5. PICK C : C = CallsFor(Len(watches[d]) + 1, K)
  OBVIOUS
<1>6. gs # <<>> => c \in C
  BY <1>2, <1>4, <1>5, RateCallKnown
<1>7. <<>> \in Seq(C) /\ (c \in C => <<c>> \in Seq(C))
  BY EmptySeq
<1> QED
  BY <1>3, <1>4, <1>5, <1>6, <1>7

LEMMA RatingEventsKnown ==
  ASSUME NEW acc, NEW asg, NEW new, \A l \in Leaf : new[l] \in Allowed(acc, asg)[l],
         NEW old, NEW d, watches[d] \in Seq(WatchesFor), NEW K
  PROVE  RatingEvents(d, old, new) \in Seq(CallsFor(Len(watches[d]), K))
<1> DEFINE grades(i, v) == v[<<watches[d][i].path, "grades">>]
           I == {i \in DOMAIN watches[d] : grades(i, new) # grades(i, old) /\ grades(i, new) # <<>>}
           idx == [i \in DOMAIN watches[d] |-> i]
<1>1. /\ Len(watches[d]) \in Nat /\ DOMAIN watches[d] = 1 .. Len(watches[d])
      /\ \A i \in DOMAIN watches[d] : watches[d][i] \in WatchesFor
  OBVIOUS
<1>2. \A i \in I : grades(i, new) \in Seq(Grades) \ {<<>>}
  <2> SUFFICES ASSUME NEW i \in I
               PROVE  grades(i, new) \in Seq(Grades)
    OBVIOUS
  <2>1. watches[d][i].path \in Path
    BY <1>1 DEF WatchesFor
  <2>2. PICK p \in Path : p = watches[d][i].path
    BY <2>1
  <2>3. <<p, "grades">> \in Leaf
    BY Leaves DEF ListField
  <2>4. new[<<p, "grades">>] \in ValueOf(<<p, "grades">>)
    BY <2>3, KnownTypes
  <2> QED
    BY <2>2, <2>4, Values
<1>3. idx \in Seq(DOMAIN watches[d])
  <2>1. idx \in [1 .. Len(watches[d]) -> DOMAIN watches[d]]
    BY <1>1
  <2> QED
    BY <1>1, <2>1
<1>4. PICK due : due = Sift(idx, I)
  OBVIOUS
<1>5. due \in Seq(I)
  <2>1. \A i \in DOMAIN idx : i \in I => idx[i] \in I
    OBVIOUS
  <2> HIDE DEF I, idx
  <2> QED
    BY <1>3, <1>4, <2>1, SiftType
<1>6. Len(due) \in Nat /\ DOMAIN due = 1 .. Len(due) /\ \A j \in 1 .. Len(due) : due[j] \in I
  <2> HIDE DEF I, idx
  <2> QED
    BY <1>5
<1>7. RatingEvents(d, old, new) =
        [j \in 1 .. Len(due) |-> [op |-> "rate", watch |-> due[j], grades |-> grades(due[j], new)]]
  BY <1>4, <1>6 DEF RatingEvents
<1>8. \A j \in 1 .. Len(due) :
        [op |-> "rate", watch |-> due[j], grades |-> grades(due[j], new)] \in CallsFor(Len(watches[d]), K)
  <2> TAKE j \in 1 .. Len(due)
  <2>1. /\ due[j] \in 1 .. Len(watches[d])
        /\ grades(due[j], new) \in Seq(Grades) /\ grades(due[j], new) # <<>>
    BY <1>1, <1>2, <1>6
  <2> HIDE DEF grades
  <2> QED
    BY <1>1, <2>1, RateCallKnown
<1> DEFINE e == [j \in 1 .. Len(due) |-> [op |-> "rate", watch |-> due[j], grades |-> grades(due[j], new)]]
<1>9. e \in [1 .. Len(due) -> CallsFor(Len(watches[d]), K)]
  BY <1>8
<1>10. e \in Seq(CallsFor(Len(watches[d]), K))
  <2> HIDE DEF e
  <2> QED
    BY <1>6, <1>9
<1> QED
  BY <1>7, <1>10

\* What is left after a screen was popped, or after a callback was taken off.
LEMMA PoppedKnown ==
  ASSUME NEW C, NEW q \in Seq(C)
  PROVE  Popped(q) \in Seq(C)
BY SiftPart DEF Popped

LEMMA RemovedKnown ==
  ASSUME NEW C, NEW q \in Seq(C), NEW i \in DOMAIN q
  PROVE  /\ RemoveAt(q, i) \in Seq(C)
         /\ SubSeq(q, 1, i - 1) \in Seq(C) /\ SubSeq(q, i + 1, Len(q)) \in Seq(C)
<1>1. Len(q) \in Nat /\ i \in 1 .. Len(q) /\ \A j \in 1 .. Len(q) : q[j] \in C
  OBVIOUS
<1>2. SubSeq(q, 1, i - 1) \in Seq(C) /\ SubSeq(q, i + 1, Len(q)) \in Seq(C)
  BY <1>1, SubSeqProperties
<1> QED
  BY <1>2, ConcatProperties DEF RemoveAt

-----------------------------------------------------------------------------
(* The inductive invariant: the tree, the views and the queues hold only   *)
(* what the history explains, and so does whatever a device derives from   *)
(* them; a row that kept its key is the request as the device sees it.     *)

Histories == /\ issued \in Seq(Heading)
             /\ chosen \subseteq (Key \cup {NoKey}) \X Volunteers
             /\ assigned \subseteq Key \X Volunteers
             /\ accepted \subseteq (Key \cup {NoKey}) \X Volunteers
             /\ TakenAtStart \subseteq accepted \cap assigned

LocalAt(d) ==
  /\ rows[d] \in SUBSET RowsFor(d, assigned)
  /\ d \notin Organisers => KeyedIn(rows[d], view[d])
  /\ found[d] \in [active : BOOLEAN, rows : SUBSET RowsFor(d, assigned)]
  /\ screen[d] \in ScreensFor(d, assigned)
  /\ watches[d] \in Seq(WatchesFor)
  /\ calls[d] \in Seq(CallsFor(Len(watches[d]), Allowed(accepted, assigned)))

PerDevice == /\ rows = [d \in Device |-> rows[d]]
             /\ found = [d \in Device |-> found[d]]
             /\ screen = [d \in Device |-> screen[d]]
             /\ watches = [d \in Device |-> watches[d]]
             /\ calls = [d \in Device |-> calls[d]]

MirrorInv == M!IInv /\ M!HoldsOnly(Allowed(accepted, assigned))

AppInv == MirrorInv /\ Histories /\ PerDevice /\ \A d \in Device : LocalAt(d)

\* A step of device d leaves the others alone, and history only grows.
StepOf(d) == /\ rows' = [rows EXCEPT ![d] = rows'[d]]
             /\ found' = [found EXCEPT ![d] = found'[d]]
             /\ screen' = [screen EXCEPT ![d] = screen'[d]]
             /\ watches' = [watches EXCEPT ![d] = watches'[d]]
             /\ calls' = [calls EXCEPT ![d] = calls'[d]]
             /\ \A c \in Device \ {d} : view'[c] = view[c]

HistoryGrows == accepted \subseteq accepted' /\ assigned \subseteq assigned'

LEMMA LocalGrows ==
  ASSUME NEW asg, NEW asg2, asg \subseteq asg2, NEW d
  PROVE  /\ RowsFor(d, asg) \subseteq RowsFor(d, asg2)
         /\ ScreensFor(d, asg) \subseteq ScreensFor(d, asg2)
BY DEF RowsFor, ScreensFor

LEMMA CallsStay ==
  ASSUME NEW acc, NEW asg, NEW acc2, NEW asg2, acc \subseteq acc2, asg \subseteq asg2,
         NEW n \in Nat, NEW m \in Nat, n =< m, NEW q \in Seq(CallsFor(n, Allowed(acc, asg)))
  PROVE  q \in Seq(CallsFor(m, Allowed(acc2, asg2)))
<1>1. CallsFor(n, Allowed(acc, asg)) \subseteq CallsFor(m, Allowed(acc2, asg2))
  BY KnownGrows, CallsGrow
<1> QED
  BY <1>1, SeqMonotonic

LEMMA DeviceStep ==
  ASSUME AppInv, NEW d \in Device, StepOf(d), HistoryGrows, LocalAt(d)'
  PROVE  PerDevice' /\ \A c \in Device : LocalAt(c)'
<1>1. PerDevice'
  <2>1. /\ rows = [c \in Device |-> rows[c]] /\ found = [c \in Device |-> found[c]]
        /\ screen = [c \in Device |-> screen[c]] /\ watches = [c \in Device |-> watches[c]]
        /\ calls = [c \in Device |-> calls[c]]
    BY DEF AppInv, PerDevice
  <2>2. rows' = [c \in Device |-> rows'[c]]
    BY <2>1 DEF StepOf
  <2>3. found' = [c \in Device |-> found'[c]]
    BY <2>1 DEF StepOf
  <2>4. screen' = [c \in Device |-> screen'[c]]
    BY <2>1 DEF StepOf
  <2>5. watches' = [c \in Device |-> watches'[c]]
    BY <2>1 DEF StepOf
  <2>6. calls' = [c \in Device |-> calls'[c]]
    BY <2>1 DEF StepOf
  <2> QED
    BY <2>2, <2>3, <2>4, <2>5, <2>6 DEF PerDevice
<1>2. ASSUME NEW c \in Device, c # d
      PROVE  LocalAt(c)'
  <2>1. /\ rows'[c] = rows[c] /\ found'[c] = found[c] /\ screen'[c] = screen[c]
        /\ watches'[c] = watches[c] /\ calls'[c] = calls[c] /\ view'[c] = view[c]
    BY <1>2 DEF AppInv, PerDevice, StepOf
  <2>2. LocalAt(c)
    BY DEF AppInv
  <2>3. /\ RowsFor(c, assigned) \subseteq RowsFor(c, assigned')
        /\ ScreensFor(c, assigned) \subseteq ScreensFor(c, assigned')
    BY LocalGrows DEF HistoryGrows
  <2>4. calls[c] \in Seq(CallsFor(Len(watches[c]), Allowed(accepted', assigned')))
    <3>1. Len(watches[c]) \in Nat /\ calls[c] \in Seq(CallsFor(Len(watches[c]), Allowed(accepted, assigned)))
      BY <2>2 DEF LocalAt
    <3> QED
      BY <3>1, CallsStay DEF HistoryGrows
  <2> QED
    BY <2>1, <2>2, <2>3, <2>4 DEF LocalAt
<1> QED
  BY <1>1, <1>2

\* What the mirrors do in a step: one write of allowed values, a step of the network
\* or nothing.
SyncStep == \/ \E d \in Device, w \in M!WritesOf(Allowed(accepted', assigned')) : Sync!LocalWrite(d, w)
            \/ \E d \in Device : \/ Sync!Commit(d) \/ Sync!Deliver(d)
                                 \/ Sync!Reconnect(d) \/ Sync!Restart(d)
            \/ UNCHANGED syncVars

LEMMA MirrorStep ==
  ASSUME AppInv, HistoryGrows, SyncStep
  PROVE  MirrorInv'
<1>1. PICK acc, asg : acc = accepted' /\ asg = assigned'
  OBVIOUS
<1>2. PICK K : K = Allowed(acc, asg)
  OBVIOUS
<1>3. PICK K0 : K0 = Allowed(accepted, assigned)
  OBVIOUS
<1>4. /\ \A l \in Leaf : K0[l] \subseteq K[l]
      /\ \A l \in Leaf : Blank[l] \in K[l]
  <2>1. \A l \in Leaf : K0[l] \subseteq K[l]
    BY <1>1, <1>2, <1>3, KnownGrows DEF HistoryGrows
  <2>2. \A l \in Leaf : Allowed(TakenAtStart, TakenAtStart)[l] \subseteq K[l]
    <3>1. TakenAtStart \subseteq acc /\ TakenAtStart \subseteq asg
      BY <1>1 DEF AppInv, Histories, HistoryGrows
    <3> QED
      BY <1>2, <3>1, KnownGrows
  <2> QED
    BY <2>1, <2>2, BlankKnown
<1>5. M!IInv /\ M!TypeOK
  BY DEF AppInv, MirrorInv, M!IInv
<1>6. M!HoldsOnly(K)
  <2>1. M!HoldsOnly(K0)
    BY <1>3 DEF AppInv, MirrorInv
  <2> QED
    BY <1>4, <2>1, MirrorAssumptions, M!HoldsOnlyGrows
<1>7. M!IInv' /\ M!HoldsOnly(K)'
  <2>1. ASSUME NEW d \in Device, NEW w \in M!WritesOf(K), Sync!LocalWrite(d, w)
        PROVE  M!IInv' /\ M!HoldsOnly(K)'
    <3>1. M!LocalWrite(d, w) /\ w \in M!Write
      BY <2>1, SyncActions DEF M!WritesOf
    <3>2. M!HoldsOnly(K)'
      BY <1>4, <1>5, <1>6, <3>1, MirrorAssumptions, M!LocalWriteHoldsOnly
    <3>3. M!IInv'
      BY <1>5, <3>1, MirrorAssumptions, M!LocalWriteKeeps
    <3> QED
      BY <3>2, <3>3
  <2>2. ASSUME NEW d \in Device, Sync!Commit(d)
        PROVE  M!IInv' /\ M!HoldsOnly(K)'
    <3>1. M!Commit(d)
      BY <2>2, SyncActions
    <3> QED
      BY <1>5, <1>6, <3>1, MirrorAssumptions, M!CommitHoldsOnly, M!CommitKeeps
  <2>3. ASSUME NEW d \in Device, Sync!Deliver(d)
        PROVE  M!IInv' /\ M!HoldsOnly(K)'
    <3>1. M!Deliver(d)
      BY <2>3, SyncActions
    <3> QED
      BY <1>5, <1>6, <3>1, MirrorAssumptions, M!DeliverHoldsOnly, M!DeliverKeeps
  <2>4. ASSUME NEW d \in Device, Sync!Reconnect(d)
        PROVE  M!IInv' /\ M!HoldsOnly(K)'
    <3>1. M!Reconnect(d)
      BY <2>4, SyncActions
    <3> QED
      BY <1>4, <1>5, <1>6, <3>1, MirrorAssumptions, M!ReconnectHoldsOnly, M!ReconnectKeeps
  <2>5. ASSUME NEW d \in Device, Sync!Restart(d)
        PROVE  M!IInv' /\ M!HoldsOnly(K)'
    <3>1. M!Restart(d)
      BY <2>5, SyncActions
    <3> QED
      BY <1>4, <1>5, <1>6, <3>1, MirrorAssumptions, M!RestartHoldsOnly, M!RestartKeeps
  <2>6. CASE UNCHANGED syncVars
    <3>1. M!HoldsOnly(K)'
      BY <1>6, <2>6 DEF syncVars, M!HoldsOnly
    <3>2. UNCHANGED M!syncVars
      BY <2>6 DEF syncVars, M!syncVars
    <3>3. M!IInv'
      BY <1>5, <3>2, MirrorAssumptions, M!NextKeeps
    <3> QED
      BY <3>1, <3>3
  <2> QED
    BY <1>1, <1>2, <2>1, <2>2, <2>3, <2>4, <2>5, <2>6 DEF SyncStep
<1>8. M!HoldsOnly(Allowed(accepted, assigned))'
  <2>1. K = Allowed(accepted, assigned)'
    BY <1>1, <1>2
  <2>2. /\ \A l \in Leaf : server'[l] \in K[l]
        /\ \A c \in Device, l \in Leaf : view'[c][l] \in K[l]
    BY <1>7 DEF M!HoldsOnly
  <2> QED
    BY <1>7, <2>1 DEF M!HoldsOnly
<1> QED
  BY <1>7, <1>8 DEF MirrorInv

-----------------------------------------------------------------------------
(* The shapes of a step of device d.                                       *)

LEMMA StepKeeps ==
  ASSUME AppInv, NEW d \in Device, HistoryGrows, Histories', SyncStep,
         \A c \in Device \ {d} : view'[c] = view[c],
         NEW R, rows' = [rows EXCEPT ![d] = R], R \in SUBSET RowsFor(d, assigned'),
         d \notin Organisers => KeyedIn(R, view'[d]),
         NEW f, found' = [found EXCEPT ![d] = f],
         f \in [active : BOOLEAN, rows : SUBSET RowsFor(d, assigned')],
         NEW s, screen' = [screen EXCEPT ![d] = s], s \in ScreensFor(d, assigned'),
         NEW ws, watches' = [watches EXCEPT ![d] = ws], ws \in Seq(WatchesFor),
         NEW q, calls' = [calls EXCEPT ![d] = q],
         q \in Seq(CallsFor(Len(ws), Allowed(accepted', assigned')))
  PROVE  AppInv' /\ SyncStep
<1>1. /\ rows'[d] = R /\ found'[d] = f /\ screen'[d] = s /\ watches'[d] = ws /\ calls'[d] = q
      /\ StepOf(d)
  BY DEF AppInv, PerDevice, StepOf
<1>2. LocalAt(d)'
  BY <1>1 DEF LocalAt
<1>3. PerDevice' /\ \A c \in Device : LocalAt(c)'
  BY <1>1, <1>2, DeviceStep
<1>4. MirrorInv'
  BY MirrorStep
<1> QED
  BY <1>3, <1>4 DEF AppInv

\* What d has is still what it may have when history has grown.
LEMMA Stays ==
  ASSUME AppInv, NEW d \in Device, HistoryGrows
  PROVE  /\ rows = [rows EXCEPT ![d] = rows[d]] /\ rows[d] \in SUBSET RowsFor(d, assigned')
         /\ d \notin Organisers => KeyedIn(rows[d], view[d])
         /\ found = [found EXCEPT ![d] = found[d]]
         /\ found[d] \in [active : BOOLEAN, rows : SUBSET RowsFor(d, assigned')]
         /\ screen = [screen EXCEPT ![d] = screen[d]] /\ screen[d] \in ScreensFor(d, assigned')
         /\ watches = [watches EXCEPT ![d] = watches[d]] /\ watches[d] \in Seq(WatchesFor)
         /\ Len(watches[d]) \in Nat
         /\ calls = [calls EXCEPT ![d] = calls[d]]
         /\ calls[d] \in Seq(CallsFor(Len(watches[d]), Allowed(accepted', assigned')))
<1>1. LocalAt(d) /\ PerDevice
  BY DEF AppInv
<1>2. /\ rows = [rows EXCEPT ![d] = rows[d]] /\ found = [found EXCEPT ![d] = found[d]]
      /\ screen = [screen EXCEPT ![d] = screen[d]] /\ watches = [watches EXCEPT ![d] = watches[d]]
      /\ calls = [calls EXCEPT ![d] = calls[d]]
  BY <1>1 DEF PerDevice
<1>3. /\ RowsFor(d, assigned) \subseteq RowsFor(d, assigned')
      /\ ScreensFor(d, assigned) \subseteq ScreensFor(d, assigned')
  BY LocalGrows DEF HistoryGrows
<1>4. Len(watches[d]) \in Nat /\ watches[d] \in Seq(WatchesFor)
  BY <1>1 DEF LocalAt
<1>5. calls[d] \in Seq(CallsFor(Len(watches[d]), Allowed(accepted', assigned')))
  BY <1>1, <1>4, CallsStay DEF LocalAt, HistoryGrows
<1> QED
  BY <1>1, <1>2, <1>3, <1>4, <1>5 DEF LocalAt

\* A tap that writes nothing at once changes the screen, the callbacks, the observers.
LEMMA QuietStep ==
  ASSUME AppInv, NEW d \in Device, HistoryGrows, Histories', UNCHANGED <<syncVars, rows, found>>,
         NEW s, screen' = [screen EXCEPT ![d] = s], s \in ScreensFor(d, assigned'),
         NEW ws, watches' = [watches EXCEPT ![d] = ws], ws \in Seq(WatchesFor),
         NEW q, calls' = [calls EXCEPT ![d] = q],
         q \in Seq(CallsFor(Len(ws), Allowed(accepted', assigned')))
  PROVE  AppInv' /\ SyncStep
<1>1. SyncStep /\ view' = view
  BY DEF SyncStep, syncVars
<1>2. /\ rows' = [rows EXCEPT ![d] = rows[d]] /\ rows[d] \in SUBSET RowsFor(d, assigned')
      /\ d \notin Organisers => KeyedIn(rows[d], view'[d])
      /\ found' = [found EXCEPT ![d] = found[d]]
      /\ found[d] \in [active : BOOLEAN, rows : SUBSET RowsFor(d, assigned')]
  BY <1>1, Stays
<1> QED
  BY <1>1, <1>2, StepKeeps

\* A step that changes what d shows, and to which its observers react.
LEMMA ObserveStep ==
  ASSUME AppInv, NEW d \in Device, HistoryGrows, Histories', SyncStep,
         \A c \in Device \ {d} : view'[c] = view[c], UNCHANGED found,
         NEW ws, watches' = [watches EXCEPT ![d] = ws], ws \in Seq(WatchesFor),
         Len(ws) = Len(watches[d]),
         NEW q \in Seq(CallsFor(Len(ws), Allowed(accepted', assigned'))),
         NEW s \in ScreensFor(d, assigned'), Observe(d, q, s)
  PROVE  AppInv' /\ SyncStep
<1>1. PICK acc, asg : acc = accepted' /\ asg = assigned'
  OBVIOUS
<1>2. \A l \in Leaf : view'[d][l] \in Allowed(acc, asg)[l]
  BY <1>1, MirrorStep DEF MirrorInv, M!HoldsOnly
<1>3. /\ rows[d] \in SUBSET RowsFor(d, asg)
      /\ d \notin Organisers => KeyedIn(rows[d], view[d])
      /\ found' = [found EXCEPT ![d] = found[d]]
      /\ found[d] \in [active : BOOLEAN, rows : SUBSET RowsFor(d, asg)]
      /\ watches[d] \in Seq(WatchesFor)
  BY <1>1, Stays
<1>4. /\ RowsAfter(d, rows[d], view[d], view'[d]) \in SUBSET RowsFor(d, asg)
      /\ d \notin Organisers => KeyedIn(RowsAfter(d, rows[d], view[d], view'[d]), view'[d])
  BY <1>2, <1>3, RowsAfterKnown
<1>5. ScreenAfter(d, s, view'[d]) \in ScreensFor(d, asg)
  BY <1>1, ScreenAfterKnown
<1>6. q \o RatingEvents(d, view[d], view'[d]) \in Seq(CallsFor(Len(ws), Allowed(acc, asg)))
  <2>1. RatingEvents(d, view[d], view'[d]) \in Seq(CallsFor(Len(watches[d]), Allowed(acc, asg)))
    BY <1>2, <1>3, RatingEventsKnown
  <2> QED
    BY <1>1, <2>1, ConcatProperties
<1> QED
  BY <1>1, <1>3, <1>4, <1>5, <1>6, StepKeeps DEF Observe

LEMMA ViewKnown ==
  ASSUME AppInv, HistoryGrows
  PROVE  \A d \in Device, l \in Leaf : /\ view[d][l] \in Allowed(accepted, assigned)[l]
                                       /\ view[d][l] \in Allowed(accepted', assigned')[l]
<1>1. \A d \in Device, l \in Leaf : view[d][l] \in Allowed(accepted, assigned)[l]
  BY DEF AppInv, MirrorInv, M!HoldsOnly
<1>2. \A l \in Leaf : Allowed(accepted, assigned)[l] \subseteq Allowed(accepted', assigned')[l]
  BY KnownGrows DEF HistoryGrows
<1> QED
  BY <1>1, <1>2

\* One write of the app, and its observers.
LEMMA EmitStep ==
  ASSUME AppInv, NEW d \in Device, HistoryGrows, Histories', UNCHANGED found,
         NEW w \in M!WritesOf(Allowed(accepted', assigned')), Sync!LocalWrite(d, w),
         NEW ws, watches' = [watches EXCEPT ![d] = ws], ws \in Seq(WatchesFor),
         Len(ws) = Len(watches[d]),
         NEW q \in Seq(CallsFor(Len(ws), Allowed(accepted', assigned'))),
         NEW s \in ScreensFor(d, assigned'), Observe(d, q, s)
  PROVE  AppInv' /\ SyncStep
<1>1. SyncStep
  BY DEF SyncStep
<1>2. \A c \in Device \ {d} : view'[c] = view[c]
  <2>1. view \in [Device -> [Leaf -> Value]]
    BY DEF AppInv, MirrorInv, M!IInv, M!TypeOK
  <2> QED
    BY <2>1 DEF Sync!LocalWrite
<1> QED
  BY <1>1, <1>2, ObserveStep

\* The same by a tap, or a callback, that leaves the observers of insertRating alone.
LEMMA PlainEmitStep ==
  ASSUME AppInv, NEW d \in Device, HistoryGrows, Histories', UNCHANGED <<found, watches>>,
         NEW w \in M!WritesOf(Allowed(accepted', assigned')),
         NEW q \in Seq(CallsFor(Len(watches[d]), Allowed(accepted', assigned'))),
         NEW s \in ScreensFor(d, assigned'), Emit(d, w, q, s)
  PROVE  AppInv' /\ SyncStep
<1>1. watches' = [watches EXCEPT ![d] = watches[d]] /\ watches[d] \in Seq(WatchesFor)
  BY Stays
<1> QED
  BY <1>1, EmitStep DEF Emit

\* Screens that need no history.
LEMMA EmptyScreens ==
  ASSUME NEW d, NEW asg
  PROVE  {NoScreen, BlankDetails, LoginScreen} \subseteq ScreensFor(d, asg)
<1>1. {NoScreen, BlankDetails, LoginScreen} \subseteq ScreenType
  BY DEF NoScreen, BlankDetails, LoginScreen, Screen, ScreenType
<1>2. \A s \in {NoScreen, BlankDetails, LoginScreen} : s.key = NoKey
  BY DEF NoScreen, BlankDetails, LoginScreen, Screen
<1> QED
  BY <1>1, <1>2, KeyTypes DEF ScreensFor

\* A screen that goes on to another page, or takes note of an acceptance.
LEMMA ScreenTurns ==
  ASSUME NEW d, NEW asg, NEW s \in ScreensFor(d, asg),
         NEW p \in {"login", "none", "details", "rate", "done"}
  PROVE  /\ [s EXCEPT !.page = p] \in ScreensFor(d, asg)
         /\ [s EXCEPT !.status = Scheduled] \in ScreensFor(d, asg)
<1>1. s \in ScreenType
  BY DEF ScreensFor
<1>2. /\ [s EXCEPT !.page = p] \in ScreenType /\ [s EXCEPT !.page = p].key = s.key
      /\ [s EXCEPT !.status = Scheduled] \in ScreenType
      /\ [s EXCEPT !.status = Scheduled].key = s.key
  BY <1>1 DEF ScreenType, Status
<1> QED
  BY <1>2 DEF ScreensFor

LEMMA UnchangedHistory ==
  ASSUME AppInv, UNCHANGED history
  PROVE  HistoryGrows /\ Histories' /\ UNCHANGED <<issued, chosen, assigned, accepted, saved>>
BY DEF AppInv, Histories, HistoryGrows, history

-----------------------------------------------------------------------------
(* The elder's taps.                                                       *)

LEMMA CreateKeeps ==
  ASSUME AppInv, NEW e \in Device, e \in Elders, NEW n \in Names \cup {NoName},
         NEW cs \in Seq(CallsFor(Len(watches[e]), Allowed(accepted', assigned'))),
         Create(e, n, cs)
  PROVE  AppInv' /\ SyncStep
<1>1. issued \in Seq(Heading) /\ Len(issued) < MaxRequests
  BY DEF AppInv, Histories, Create
<1>2. Len(issued) + 1 \in Key
  BY <1>1, SchemaAssumption DEF Key
<1>3. issued' \in Seq(Heading)
  <2>1. PICK h : h = [elder |-> e, name |-> n]
    OBVIOUS
  <2>2. h \in Heading
    BY <2>1 DEF Heading
  <2> QED
    BY <1>1, <2>1, <2>2 DEF Create
<1>4. HistoryGrows /\ Histories'
  BY <1>3 DEF Create, HistoryGrows, AppInv, Histories
<1>5. CreateRecord(Len(issued) + 1, e, n) \in M!WritesOf(Allowed(accepted', assigned'))
  BY <1>2, CreateKnown
<1>6. /\ calls[e] \o cs \in Seq(CallsFor(Len(watches[e]), Allowed(accepted', assigned')))
      /\ screen[e] \in ScreensFor(e, assigned')
  BY <1>4, Stays, ConcatProperties
<1> QED
  BY <1>4, <1>5, <1>6, PlainEmitStep DEF Create

LEMMA AddActivityKeeps ==
  ASSUME AppInv, NEW e \in Device, e \in Elders, NEW n \in Names, AddActivity(e, n)
  PROVE  AppInv' /\ SyncStep
<1>1. Create(e, n, Insert(e, e, "activities", n))
  BY DEF AddActivity
<1>2. HistoryGrows
  BY <1>1 DEF Create, HistoryGrows
<1>3. \A l \in Leaf : view[e][l] \in Allowed(accepted', assigned')[l]
  BY <1>2, ViewKnown
<1>4. Insert(e, e, "activities", n) \in Seq(CallsFor(Len(watches[e]), Allowed(accepted', assigned')))
  <2>1. PICK acc, asg : acc = accepted' /\ asg = assigned'
    OBVIOUS
  <2>2. e \in Account \cup {NoUser} /\ n \in Names \cup {NoName}
    BY DEF Account
  <2> QED
    BY <1>3, <2>1, <2>2, InsertsKnown
<1> QED
  BY <1>1, <1>4, CreateKeeps

LEMMA AddFromMapKeeps ==
  ASSUME AppInv, NEW e \in Device, e \in Elders, NEW n \in Names, AddFromMap(e, n)
  PROVE  AppInv' /\ SyncStep
<1>1. <<>> \in Seq(CallsFor(Len(watches[e]), Allowed(accepted', assigned')))
  BY EmptySeq
<1> QED
  BY <1>1, CreateKeeps DEF AddFromMap

LEMMA CancelKeeps ==
  ASSUME AppInv, NEW e \in Device, Cancel(e)
  PROVE  AppInv' /\ SyncStep
<1>1. HistoryGrows /\ Histories'
  BY UnchangedHistory DEF Cancel
<1>2. screen[e] \in ScreenType
  BY <1>1, Stays DEF ScreensFor
<1>3. RemoveRecord(screen[e].key) \in M!WritesOf(Allowed(accepted', assigned'))
  BY <1>2, RemoveKnown DEF ScreenType
<1>4. /\ NoScreen \in ScreensFor(e, assigned')
      /\ calls[e] \in Seq(CallsFor(Len(watches[e]), Allowed(accepted', assigned')))
  BY <1>1, Stays, EmptyScreens
<1> QED
  BY <1>1, <1>3, <1>4, PlainEmitStep DEF Cancel

\* The rows of a table and those of its search.
LEMMA ShownKnown ==
  ASSUME AppInv, NEW d \in Device
  PROVE  rows[d] \subseteq RowsFor(d, assigned) /\ Shown(d) \subseteq RowsFor(d, assigned)
BY DEF AppInv, LocalAt, Shown

\* A screen opened from a complete row.
LEMMA OpenedKnown ==
  ASSUME NEW d, NEW asg, NEW r \in RowsFor(d, asg), Complete(r)
  PROVE  /\ r.request.elder \in Account
         /\ \A p \in Account \cup {NoUser} :
              Screen("details", r.key, r.request.name, r.status, p, FALSE) \in ScreensFor(d, asg)
<1>1. r \in Row
  BY DEF RowsFor
<1>2. /\ r.key \in Key \cup {NoKey} /\ r.request \in Heading
      /\ r.status \in {Absent} \cup Status
  BY <1>1 DEF Row, Complete
<1>3. /\ r.request.elder \in Elders /\ r.request.name \in Names \cup {NoName}
  BY <1>2 DEF Heading
<1>4. ASSUME NEW p \in Account \cup {NoUser}
      PROVE  Screen("details", r.key, r.request.name, r.status, p, FALSE) \in ScreensFor(d, asg)
  <2>1. PICK s : s = Screen("details", r.key, r.request.name, r.status, p, FALSE)
    OBVIOUS
  <2>2. s \in ScreenType /\ s.key = r.key
    BY <1>2, <1>3, <2>1 DEF Screen, ScreenType
  <2> QED
    BY <2>1, <2>2 DEF ScreensFor, RowsFor
<1> QED
  BY <1>3, <1>4 DEF Account

LEMMA OpenKeeps ==
  ASSUME AppInv, NEW d \in Device, NEW s \in ScreensFor(d, assigned), Open(d, s)
  PROVE  AppInv' /\ SyncStep
<1>1. HistoryGrows /\ Histories' /\ assigned' = assigned
  BY UnchangedHistory DEF Open
<1>2. ScreenAfter(d, s, view[d]) \in ScreensFor(d, assigned')
  BY <1>1, ScreenAfterKnown
<1>3. UNCHANGED <<syncVars, rows, found, calls, watches>>
  BY DEF Open, Quietly
<1>4. screen' = [screen EXCEPT ![d] = ScreenAfter(d, s, view[d])]
  BY DEF Open
<1> HIDE DEF Open
<1> QED
  BY <1>1, <1>2, <1>3, <1>4, Stays, QuietStep

LEMMA OpenElderDetailsKeeps ==
  ASSUME AppInv, NEW e \in Device, OpenElderDetails(e)
  PROVE  AppInv' /\ SyncStep
<1>1. PICK r \in RowsFor(e, assigned) : Open(e, ElderDetails(r))
  BY ShownKnown DEF OpenElderDetails
<1>2. ElderDetails(r) \in ScreensFor(e, assigned)
  <2>1. CASE ~Complete(r) \/ r.volunteer = Absent
    BY <2>1, EmptyScreens DEF ElderDetails
  <2>2. CASE Complete(r) /\ r.volunteer # Absent
    <3>1. r.volunteer \in Account \cup {NoUser}
      BY <2>2 DEF RowsFor, Row, Account
    <3> QED
      BY <2>2, <3>1, OpenedKnown DEF ElderDetails
  <2> QED
    BY <2>1, <2>2
<1> QED
  BY <1>1, <1>2, OpenKeeps

LEMMA OpenVolunteerDetailsKeeps ==
  ASSUME AppInv, NEW v \in Device, OpenVolunteerDetails(v)
  PROVE  AppInv' /\ SyncStep
<1>1. PICK r \in RowsFor(v, assigned) : Open(v, VolunteerDetails(r))
  BY ShownKnown DEF OpenVolunteerDetails
<1>2. VolunteerDetails(r) \in ScreensFor(v, assigned)
  BY EmptyScreens, OpenedKnown DEF VolunteerDetails
<1> QED
  BY <1>1, <1>2, OpenKeeps

LEMMA OpenActivityDetailsKeeps ==
  ASSUME AppInv, NEW o \in Device, OpenActivityDetails(o)
  PROVE  AppInv' /\ SyncStep
<1>1. PICK r \in RowsFor(o, assigned) : Open(o, OrganiserDetails(r))
  BY ShownKnown DEF OpenActivityDetails
<1>2. OrganiserDetails(r) \in ScreensFor(o, assigned)
  BY EmptyScreens, OpenedKnown DEF OrganiserDetails
<1> QED
  BY <1>1, <1>2, OpenKeeps

\* A tap that only turns the screen to another page.
LEMMA PageKeeps ==
  ASSUME AppInv, NEW d \in Device, NEW p \in {"login", "none", "details", "rate", "done"},
         screen' = [screen EXCEPT ![d].page = p], Quietly,
         UNCHANGED <<found, calls, watches, history>>
  PROVE  AppInv' /\ SyncStep
<1>1. HistoryGrows /\ Histories'
  BY UnchangedHistory
<1>2. [screen[d] EXCEPT !.page = p] \in ScreensFor(d, assigned')
  BY <1>1, Stays, ScreenTurns
<1> QED
  BY <1>1, <1>2, Stays, QuietStep DEF Quietly

LEMMA GradePressedKeeps ==
  ASSUME AppInv, NEW e \in Device, GradePressed(e)
  PROVE  AppInv' /\ SyncStep
BY PageKeeps DEF GradePressed

LEMMA RatePressedKeeps ==
  ASSUME AppInv, NEW v \in Device, RatePressed(v)
  PROVE  AppInv' /\ SyncStep
BY PageKeeps DEF RatePressed

LEMMA BackToDetailsKeeps ==
  ASSUME AppInv, NEW d \in Device, BackToDetails(d)
  PROVE  AppInv' /\ SyncStep
BY PageKeeps DEF BackToDetails

\* Leaving a screen: what it had to dismiss later is dropped.
LEMMA LeaveKeeps ==
  ASSUME AppInv, NEW d \in Device, NEW s \in {NoScreen, LoginScreen},
         screen' = [screen EXCEPT ![d] = s], calls' = [calls EXCEPT ![d] = Popped(@)],
         Quietly, UNCHANGED <<found, watches, history>>
  PROVE  AppInv' /\ SyncStep
<1>1. HistoryGrows /\ Histories'
  BY UnchangedHistory
<1>2. s \in ScreensFor(d, assigned')
  BY EmptyScreens
<1>3. Popped(calls[d]) \in Seq(CallsFor(Len(watches[d]), Allowed(accepted', assigned')))
  BY <1>1, Stays, PoppedKnown
<1> QED
  BY <1>1, <1>2, <1>3, Stays, QuietStep DEF Quietly

LEMMA BackToTableKeeps ==
  ASSUME AppInv, NEW d \in Device, BackToTable(d)
  PROVE  AppInv' /\ SyncStep
BY LeaveKeeps DEF BackToTable

LEMMA LogOutKeeps ==
  ASSUME AppInv, NEW d \in Device, LogOut(d)
  PROVE  AppInv' /\ SyncStep
BY LeaveKeeps DEF LogOut

-----------------------------------------------------------------------------
(* The table and its search.                                               *)

LEMMA RowsStep ==
  ASSUME AppInv, NEW d \in Device, UNCHANGED <<syncVars, calls, watches, history>>,
         NEW R, rows' = [rows EXCEPT ![d] = R], R \in SUBSET RowsFor(d, assigned),
         d \notin Organisers => KeyedIn(R, view[d]),
         NEW f, found' = [found EXCEPT ![d] = f],
         f \in [active : BOOLEAN, rows : SUBSET RowsFor(d, assigned)],
         NEW s, screen' = [screen EXCEPT ![d] = s], s \in ScreensFor(d, assigned)
  PROVE  AppInv' /\ SyncStep
<1>1. HistoryGrows /\ Histories' /\ assigned' = assigned
  BY UnchangedHistory
<1>2. SyncStep /\ view' = view
  BY DEF SyncStep, syncVars
<1>3. /\ watches' = [watches EXCEPT ![d] = watches[d]] /\ watches[d] \in Seq(WatchesFor)
      /\ calls' = [calls EXCEPT ![d] = calls[d]]
      /\ calls[d] \in Seq(CallsFor(Len(watches[d]), Allowed(accepted', assigned')))
  BY <1>1, Stays
<1> QED
  BY <1>1, <1>2, <1>3, StepKeeps

\* The table and the search as they are, and as they are fetched.
LEMMA RowsStay ==
  ASSUME AppInv, NEW d \in Device
  PROVE  /\ rows = [rows EXCEPT ![d] = rows[d]] /\ rows[d] \in SUBSET RowsFor(d, assigned)
         /\ d \notin Organisers => KeyedIn(rows[d], view[d])
         /\ found = [found EXCEPT ![d] = found[d]]
         /\ found[d] \in [active : BOOLEAN, rows : SUBSET RowsFor(d, assigned)]
         /\ NotSearching \in [active : BOOLEAN, rows : SUBSET RowsFor(d, assigned)]
         /\ screen = [screen EXCEPT ![d] = screen[d]] /\ screen[d] \in ScreensFor(d, assigned)
         /\ Fetched(d, view[d]) \in SUBSET RowsFor(d, assigned)
         /\ KeyedIn(Fetched(d, view[d]), view[d])
<1>1. LocalAt(d) /\ PerDevice
  BY DEF AppInv
<1>2. \A l \in Leaf : view[d][l] \in Allowed(accepted, assigned)[l]
  BY DEF AppInv, MirrorInv, M!HoldsOnly
<1>3. Fetched(d, view[d]) \subseteq RowsFor(d, assigned) /\ KeyedIn(Fetched(d, view[d]), view[d])
  BY <1>2, FetchedKnown
<1>4. /\ rows = [rows EXCEPT ![d] = rows[d]] /\ found = [found EXCEPT ![d] = found[d]]
      /\ screen = [screen EXCEPT ![d] = screen[d]]
  BY <1>1 DEF PerDevice
<1> QED
  BY <1>1, <1>3, <1>4 DEF LocalAt, NotSearching

LEMMA RefreshKeeps ==
  ASSUME AppInv, NEW d \in Device, Refresh(d)
  PROVE  AppInv' /\ SyncStep
<1>1. /\ UNCHANGED <<syncVars, found, screen, calls, watches, history>>
      /\ rows' = [rows EXCEPT ![d] = Fetched(d, view[d])]
  BY DEF Refresh
<1> QED
  BY <1>1, RowsStay, RowsStep

\* The search copies rows of the table.
LEMMA SearchStep ==
  ASSUME AppInv, NEW d \in Device, NEW R \in SUBSET rows[d],
         found' = [found EXCEPT ![d] = [active |-> TRUE, rows |-> R]],
         UNCHANGED <<syncVars, rows, screen, calls, watches, history>>
  PROVE  AppInv' /\ SyncStep
<1>1. [active |-> TRUE, rows |-> R] \in [active : BOOLEAN, rows : SUBSET RowsFor(d, assigned)]
  BY RowsStay
<1> QED
  BY <1>1, RowsStay, RowsStep

LEMMA SearchScopeKeeps ==
  ASSUME AppInv, NEW d \in Device, NEW st, SearchScope(d, st)
  PROVE  AppInv' /\ SyncStep
<1>1. {r \in rows[d] : r.status = st} \in SUBSET rows[d]
  OBVIOUS
<1> QED
  BY <1>1, SearchStep DEF SearchScope

LEMMA SearchTextKeeps ==
  ASSUME AppInv, NEW d \in Device, NEW n, SearchText(d, n)
  PROVE  AppInv' /\ SyncStep
<1>1. {r \in rows[d] : r.request.name = n} \in SUBSET rows[d]
  OBVIOUS
<1> QED
  BY <1>1, SearchStep DEF SearchText

LEMMA EndSearchKeeps ==
  ASSUME AppInv, NEW d \in Device, EndSearch(d)
  PROVE  AppInv' /\ SyncStep
<1>1. /\ UNCHANGED <<syncVars, rows, screen, calls, watches, history>>
      /\ found' = [found EXCEPT ![d] = NotSearching]
  BY DEF EndSearch
<1> QED
  BY <1>1, RowsStay, RowsStep

LEMMA LogInKeeps ==
  ASSUME AppInv, NEW d \in Device, LogIn(d)
  PROVE  AppInv' /\ SyncStep
<1>1. /\ UNCHANGED <<syncVars, calls, watches, history>>
      /\ screen' = [screen EXCEPT ![d] = NoScreen]
      /\ rows' = [rows EXCEPT ![d] = Fetched(d, view[d])]
      /\ found' = [found EXCEPT ![d] = NotSearching]
  BY DEF LogIn
<1>2. NoScreen \in ScreensFor(d, assigned)
  BY EmptyScreens
<1> QED
  BY <1>1, <1>2, RowsStay, RowsStep

LEMMA TableNextKeeps ==
  ASSUME AppInv, NEW d \in Device, TableNext(d)
  PROVE  AppInv' /\ SyncStep
BY RefreshKeeps, SearchScopeKeeps, SearchTextKeeps, EndSearchKeeps, BackToDetailsKeeps,
   BackToTableKeeps, LogOutKeeps, LogInKeeps DEF TableNext

-----------------------------------------------------------------------------
(* Updates by name.                                                        *)

\* The first of some requests.
LEMMA FirstKey ==
  ASSUME NEW S \in SUBSET Key, S # {}
  PROVE  Min(S) \in S /\ \A j \in S : Min(S) =< j
<1>1. S \subseteq Nat
  BY KeyTypes
<1>2. \E k \in S : \A j \in S : k =< j
  BY <1>1, LeastNat
<1> QED
  BY <1>2 DEF Min

LEMMA HitFirst ==
  ASSUME NEW d, NEW n, Named(view[d], n) # {}
  PROVE  /\ Min(Named(view[d], n)) \in Key
         /\ \A v : <<Min(Named(view[d], n)), v>> \in Hit(d, n, v)
<1>1. Named(view[d], n) \in SUBSET Key
  BY DEF Named
<1>2. PICK k : k = Min(Named(view[d], n))
  OBVIOUS
<1>3. k \in Named(view[d], n) /\ \A j \in Named(view[d], n) : k =< j
  BY <1>1, <1>2, FirstKey
<1>4. \A v : <<k, v>> \in Hit(d, n, v)
  BY <1>3 DEF Hit
<1> QED
  BY <1>1, <1>2, <1>3, <1>4

LEMMA HitTypes ==
  ASSUME NEW d, NEW n, NEW v \in Volunteers
  PROVE  Hit(d, n, v) \subseteq Key \X Volunteers
BY DEF Hit, Named

LEMMA UpdateNamedKnown ==
  ASSUME NEW acc, NEW asg, NEW m, NEW d, NEW n \in Names \cup {NoName}, NEW puts \in FindPuts,
         \A v \in Volunteers :
           puts = << <<"status", Registered>>, <<"volunteer", v>> >> => Hit(d, n, v) \subseteq asg
  PROVE  UpdateNamed(d, n, puts) \in Seq(CallsFor(m, Allowed(acc, asg)))
<1>1. CASE Named(view[d], n) # {}
  <2>1. PICK k \in Key : k = Min(Named(view[d], n))
    BY <1>1, HitFirst
  <2>2. \A v \in Volunteers :
          puts = << <<"status", Registered>>, <<"volunteer", v>> >> => <<k, v>> \in asg
    BY <1>1, <2>1, HitFirst
  <2>3. UpdateCalls(k, puts) \in Seq(CallsFor(m, Allowed(acc, asg)))
    BY <2>2, FindPutsKnown
  <2> QED
    BY <1>1, <2>1, <2>3 DEF UpdateNamed
<1>2. CASE Named(view[d], n) = {}
  <2>1. PICK c : c = [op |-> "find", name |-> n, puts |-> puts]
    OBVIOUS
  <2>2. c \in CallsFor(m, Allowed(acc, asg))
    BY <2>1 DEF CallsFor
  <2>3. UpdateNamed(d, n, puts) = <<c>>
    BY <1>2, <2>1 DEF UpdateNamed
  <2> QED
    BY <2>2, <2>3
<1> QED
  BY <1>1, <1>2

-----------------------------------------------------------------------------
(* The grades.                                                             *)

LEMMA SaveGradeKeeps ==
  ASSUME AppInv, NEW d \in Device, d \in Account, NEW g \in Grades,
         NEW more \in Seq(CallsFor(Len(watches[d]) + 1, Allowed(accepted', assigned'))),
         SaveGrade(d, screen[d].peer, g, more)
  PROVE  AppInv' /\ SyncStep
<1>1. PICK u : u = screen[d].peer
  OBVIOUS
<1>2. HistoryGrows /\ Histories' /\ UNCHANGED <<found, issued, chosen, assigned, accepted>>
  BY DEF SaveGrade, HistoryGrows, AppInv, Histories
<1>3. u \in Account \cup {NoUser} /\ screen[d].name \in Names \cup {NoName}
  BY <1>1, <1>2, Stays DEF ScreensFor, ScreenType
<1>4. PICK acc, asg : acc = accepted' /\ asg = assigned'
  OBVIOUS
<1>5. \A l \in Leaf : view[d][l] \in Allowed(acc, asg)[l]
  BY <1>2, <1>4, ViewKnown
<1>6. PICK C : C = CallsFor(Len(watches[d]) + 1, Allowed(acc, asg))
  OBVIOUS
<1>7. Popped(calls[d]) \in Seq(C)
  <2>1. /\ calls[d] \in Seq(CallsFor(Len(watches[d]), Allowed(acc, asg)))
        /\ Len(watches[d]) \in Nat
    BY <1>2, <1>4, Stays
  <2>2. calls[d] \in Seq(C)
    <3>1. /\ Len(watches[d]) + 1 \in Nat /\ Len(watches[d]) =< Len(watches[d]) + 1
          /\ acc \subseteq acc /\ asg \subseteq asg
      BY <2>1
    <3> QED
      BY <1>6, <2>1, <3>1, CallsStay
  <2> QED
    BY <2>2, PoppedKnown
<1>8. Insert(d, u, "grades", g) \in Seq(C)
  BY <1>3, <1>5, <1>6, InsertsKnown
<1>9. InsertRating(d, u) \in Seq(C)
  BY <1>2, <1>3, <1>5, <1>6, Stays, InsertRatingKnown
<1>10. Insert(d, u, "comments", [name |-> screen[d].name, user |-> d]) \in Seq(C)
  <2>1. PICK c : c = [name |-> screen[d].name, user |-> d]
    OBVIOUS
  <2>2. c \in [name : Names \cup {NoName}, user : Account]
    BY <1>3, <2>1
  <2> QED
    BY <1>3, <1>5, <1>6, <2>1, <2>2, InsertsKnown
<1>11. more \in Seq(C)
  BY <1>4, <1>6
<1>12. PICK a, b, c, e : /\ a = Popped(calls[d]) /\ b = Insert(d, u, "grades", g)
                         /\ c = InsertRating(d, u)
                         /\ e = Insert(d, u, "comments", [name |-> screen[d].name, user |-> d])
  OBVIOUS
<1>13. a \o b \o c \o e \o more \in Seq(C)
  <2>1. a \in Seq(C) /\ b \in Seq(C) /\ c \in Seq(C) /\ e \in Seq(C)
    BY <1>7, <1>8, <1>9, <1>10, <1>12
  <2> QED
    BY <1>11, <2>1, ConcatProperties
<1>14. calls' = [calls EXCEPT ![d] = a \o b \o c \o e \o more]
  BY <1>1, <1>12 DEF SaveGrade
<1>15. /\ watches' = [watches EXCEPT ![d] = Append(@, NewWatch(u))]
       /\ Append(watches[d], NewWatch(u)) \in Seq(WatchesFor)
       /\ Len(Append(watches[d], NewWatch(u))) = Len(watches[d]) + 1
  <2>1. NewWatch(u) \in WatchesFor
    BY <1>3 DEF NewWatch, WatchesFor, InScale, Path
  <2>2. watches[d] \in Seq(WatchesFor)
    BY <1>2, Stays
  <2> QED
    BY <1>1, <2>1, <2>2, AppendProperties DEF SaveGrade
<1>16. /\ screen' = [screen EXCEPT ![d] = NoScreen] /\ NoScreen \in ScreensFor(d, assigned')
       /\ UNCHANGED <<syncVars, rows, found>>
  BY EmptyScreens DEF SaveGrade, Quietly
<1>17. PICK ws : ws = Append(watches[d], NewWatch(u))
  OBVIOUS
<1>18. /\ watches' = [watches EXCEPT ![d] = ws] /\ ws \in Seq(WatchesFor)
       /\ a \o b \o c \o e \o more \in Seq(CallsFor(Len(ws), Allowed(accepted', assigned')))
  BY <1>4, <1>6, <1>13, <1>15, <1>17
<1> QED
  BY <1>2, <1>14, <1>16, <1>18, QuietStep

LEMMA SaveVolunteerGradeKeeps ==
  ASSUME AppInv, NEW e \in Device, e \in Elders, NEW g \in Grades, SaveVolunteerGrade(e, g)
  PROVE  AppInv' /\ SyncStep
<1>1. <<>> \in Seq(CallsFor(Len(watches[e]) + 1, Allowed(accepted', assigned')))
  BY EmptySeq
<1> QED
  BY <1>1, SaveGradeKeeps DEF SaveVolunteerGrade, Account

LEMMA SaveElderGradeKeeps ==
  ASSUME AppInv, NEW v \in Device, v \in Volunteers, NEW g \in Grades, SaveElderGrade(v, g)
  PROVE  AppInv' /\ SyncStep
<1>1. screen[v].name \in Names \cup {NoName}
  BY DEF AppInv, LocalAt, ScreensFor, ScreenType
<1>2. PICK puts : puts = << <<"status", Finished>> >>
  OBVIOUS
<1>3. puts \in FindPuts /\ \A w : puts # << <<"status", Registered>>, <<"volunteer", w>> >>
  BY <1>2 DEF FindPuts
<1>4. UpdateNamed(v, screen[v].name, puts)
        \in Seq(CallsFor(Len(watches[v]) + 1, Allowed(accepted', assigned')))
  BY <1>1, <1>3, UpdateNamedKnown
<1> QED
  BY <1>2, <1>4, SaveGradeKeeps DEF SaveElderGrade, Account

LEMMA ElderNextKeeps ==
  ASSUME AppInv, NEW e \in Device, e \in Elders, ElderNext(e)
  PROVE  AppInv' /\ SyncStep
BY AddActivityKeeps, AddFromMapKeeps, OpenElderDetailsKeeps, CancelKeeps, GradePressedKeeps,
   SaveVolunteerGradeKeeps DEF ElderNext

-----------------------------------------------------------------------------
(* The volunteer's decision.                                               *)

\* A list of updates of one field, or of two.
LEMMA PutsKnown ==
  ASSUME NEW n, NEW K, NEW k, NEW f, NEW x, PutField(k, f, x) \in M!WritesOf(K),
         NEW g, NEW y, PutField(k, g, y) \in M!WritesOf(K)
  PROVE  /\ UpdateCalls(k, << <<f, x>> >>) \in Seq(CallsFor(n, K))
         /\ UpdateCalls(k, << <<f, x>>, <<g, y>> >>) \in Seq(CallsFor(n, K))
<1>1. UpdateCalls(k, << <<f, x>> >>) \in Seq(CallsFor(n, K))
  <2>1. PICK puts : puts = << <<f, x>> >>
    OBVIOUS
  <2>2. DOMAIN puts = 1 .. 1 /\ \A i \in 1 .. 1 : puts[i][1] = f /\ puts[i][2] = x
    BY <2>1
  <2> QED
    BY <2>1, <2>2, UpdateCallsKnown
<1>2. UpdateCalls(k, << <<f, x>>, <<g, y>> >>) \in Seq(CallsFor(n, K))
  <2>1. PICK puts : puts = << <<f, x>>, <<g, y>> >>
    OBVIOUS
  <2>2. /\ DOMAIN puts = 1 .. 2
        /\ puts[1][1] = f /\ puts[1][2] = x /\ puts[2][1] = g /\ puts[2][2] = y
    BY <2>1
  <2>3. \A i \in 1 .. 2 : PutField(k, puts[i][1], puts[i][2]) \in M!WritesOf(K)
    <3> TAKE i \in 1 .. 2
    <3>1. i = 1 \/ i = 2
      OBVIOUS
    <3> QED
      BY <2>2, <3>1
  <2> QED
    BY <2>1, <2>2, <2>3, UpdateCallsKnown
<1> QED
  BY <1>1, <1>2

LEMMA AcceptKeeps ==
  ASSUME AppInv, NEW v \in Device, v \in Volunteers, Accept(v)
  PROVE  AppInv' /\ SyncStep
<1>1. PICK s : s = screen[v]
  OBVIOUS
<1>2. /\ s \in ScreensFor(v, assigned) /\ s.key \in Key \cup {NoKey}
      /\ s.name \in Names \cup {NoName}
  BY <1>1 DEF AppInv, LocalAt, ScreensFor, ScreenType
<1>3. /\ accepted' = accepted \cup {<<s.key, v>>}
      /\ UNCHANGED <<found, watches, issued, chosen, assigned, syncVars, rows>>
      /\ screen' = [screen EXCEPT ![v].status = Scheduled]
      /\ calls' = [calls EXCEPT ![v] = @ \o UpdateCalls(s.key, << <<"status", Scheduled>> >>)
                                        \o Insert(v, v, "activities", s.name)]
  BY <1>1 DEF Accept, Quietly
<1>4. HistoryGrows /\ Histories'
  BY <1>2, <1>3 DEF HistoryGrows, AppInv, Histories
<1>5. PICK acc, asg : acc = accepted' /\ asg = assigned'
  OBVIOUS
<1>6. PICK K : K = Allowed(acc, asg)
  OBVIOUS
<1>7. UpdateCalls(s.key, << <<"status", Scheduled>> >>) \in Seq(CallsFor(Len(watches[v]), K))
  <2>1. Scheduled \in Known(<<s.key, "status">>, acc, asg)
    <3>1. CASE s.key \in Key
      <4>1. <<s.key, v>> \in asg /\ <<s.key, v>> \in acc
        BY <1>2, <1>3, <1>5, <3>1 DEF ScreensFor
      <4> QED
        BY <3>1, <4>1, HistoryValues
    <3>2. CASE s.key \notin Key
      BY <3>2, FreeValues
    <3> QED
      BY <3>1, <3>2
  <2>2. <<s.key, "status">> \in Leaf
    BY <1>2, Leaves DEF RequestField
  <2>3. PutField(s.key, "status", Scheduled) \in M!WritesOf(K)
    BY <1>6, <2>1, <2>2, PutKnown DEF PutField
  <2> QED
    BY <2>3, PutsKnown
<1>8. Insert(v, v, "activities", s.name) \in Seq(CallsFor(Len(watches[v]), K))
  <2>1. \A l \in Leaf : view[v][l] \in Allowed(acc, asg)[l]
    BY <1>4, <1>5, ViewKnown
  <2>2. v \in Account \cup {NoUser}
    BY DEF Account
  <2> QED
    BY <1>2, <1>6, <2>1, <2>2, InsertsKnown
<1>9. calls[v] \o UpdateCalls(s.key, << <<"status", Scheduled>> >>)
        \o Insert(v, v, "activities", s.name) \in Seq(CallsFor(Len(watches[v]), K))
  <2>1. calls[v] \in Seq(CallsFor(Len(watches[v]), K))
    BY <1>4, <1>5, <1>6, Stays
  <2> QED
    BY <1>7, <1>8, <2>1, ConcatProperties
<1>10. /\ screen' = [screen EXCEPT ![v] = [s EXCEPT !.status = Scheduled]]
       /\ [s EXCEPT !.status = Scheduled] \in ScreensFor(v, assigned')
  <2>1. [s EXCEPT !.status = Scheduled] \in ScreensFor(v, assigned')
    BY <1>2, <1>3, ScreenTurns
  <2> QED
    BY <1>1, <1>3, <2>1
<1>11. watches' = [watches EXCEPT ![v] = watches[v]] /\ watches[v] \in Seq(WatchesFor)
  BY <1>3, <1>4, Stays
<1>12. PICK q : q = calls[v] \o UpdateCalls(s.key, << <<"status", Scheduled>> >>)
                      \o Insert(v, v, "activities", s.name)
  OBVIOUS
<1>13. /\ calls' = [calls EXCEPT ![v] = q]
       /\ q \in Seq(CallsFor(Len(watches[v]), Allowed(accepted', assigned')))
  BY <1>3, <1>5, <1>6, <1>9, <1>12
<1> QED
  BY <1>3, <1>4, <1>10, <1>11, <1>13, QuietStep

LEMMA RejectKeeps ==
  ASSUME AppInv, NEW v \in Device, v \in Volunteers, Reject(v)
  PROVE  AppInv' /\ SyncStep
<1>1. PICK s : s = screen[v]
  OBVIOUS
<1>2. s.key \in Key \cup {NoKey}
  BY <1>1 DEF AppInv, LocalAt, ScreensFor, ScreenType
<1>3. PICK c, u : /\ c = [op |-> "dismiss"]
                  /\ u = UpdateCalls(s.key, << <<"status", Active>>, <<"volunteer", NoUser>> >>)
  OBVIOUS
<1>4. /\ UNCHANGED <<syncVars, rows, found, screen, watches, history>>
      /\ calls' = [calls EXCEPT ![v] = @ \o u \o <<c>>]
  BY <1>1, <1>3 DEF Reject, Quietly
<1>5. HistoryGrows /\ Histories'
  BY <1>4, UnchangedHistory
<1>6. PICK acc, asg : acc = accepted' /\ asg = assigned'
  OBVIOUS
<1>7. PICK K : K = Allowed(acc, asg)
  OBVIOUS
<1>8. u \in Seq(CallsFor(Len(watches[v]), K))
  <2>1. <<s.key, "status">> \in Leaf /\ <<s.key, "volunteer">> \in Leaf
    BY <1>2, Leaves DEF RequestField
  <2>2. /\ Active \in Known(<<s.key, "status">>, acc, asg)
        /\ NoUser \in Known(<<s.key, "volunteer">>, acc, asg)
    BY FreeValues
  <2>3. /\ PutField(s.key, "status", Active) \in M!WritesOf(K)
        /\ PutField(s.key, "volunteer", NoUser) \in M!WritesOf(K)
    BY <1>7, <2>1, <2>2, PutKnown DEF PutField
  <2> QED
    BY <1>3, <2>3, PutsKnown
<1>9. calls[v] \o u \o <<c>> \in Seq(CallsFor(Len(watches[v]), K))
  <2>1. calls[v] \in Seq(CallsFor(Len(watches[v]), K))
    BY <1>5, <1>6, <1>7, Stays
  <2>2. c \in CallsFor(Len(watches[v]), K)
    BY <1>3 DEF CallsFor
  <2>3. <<c>> \in Seq(CallsFor(Len(watches[v]), K))
    BY <2>2
  <2> QED
    BY <1>8, <2>1, <2>3, ConcatProperties
<1>10. /\ screen' = [screen EXCEPT ![v] = screen[v]] /\ screen[v] \in ScreensFor(v, assigned')
       /\ watches' = [watches EXCEPT ![v] = watches[v]] /\ watches[v] \in Seq(WatchesFor)
  BY <1>4, <1>5, Stays
<1>11. calls[v] \o u \o <<c>> \in Seq(CallsFor(Len(watches[v]), Allowed(accepted', assigned')))
  BY <1>6, <1>7, <1>9
<1> QED
  BY <1>4, <1>5, <1>10, <1>11, QuietStep

LEMMA VolunteerNextKeeps ==
  ASSUME AppInv, NEW v \in Device, v \in Volunteers, VolunteerNext(v)
  PROVE  AppInv' /\ SyncStep
BY OpenVolunteerDetailsKeeps, AcceptKeeps, RejectKeeps, RatePressedKeeps, SaveElderGradeKeeps
   DEF VolunteerNext

-----------------------------------------------------------------------------
(* The organiser's assignment.                                             *)

LEMMA AssignKeeps ==
  ASSUME AppInv, NEW o \in Device, NEW v \in Volunteers, o \in Organisers, Assign(o, v)
  PROVE  AppInv' /\ SyncStep
<1>1. PICK s : s = screen[o]
  OBVIOUS
<1>2. /\ s \in ScreensFor(o, assigned) /\ s.key \in Key \cup {NoKey}
      /\ s.name \in Names \cup {NoName}
  BY <1>1 DEF AppInv, LocalAt, ScreensFor, ScreenType
<1>3. PICK puts : puts = << <<"status", Registered>>, <<"volunteer", v>> >>
  OBVIOUS
<1>4. PICK u : u = UpdateNamed(o, s.name, puts)
  OBVIOUS
<1>5. /\ chosen' = chosen \cup {<<s.key, v>>} /\ assigned' = assigned \cup Hit(o, s.name, v)
      /\ UNCHANGED <<found, watches, issued, accepted, syncVars, rows>>
      /\ screen' = [screen EXCEPT ![o].page = "done"]
      /\ calls' = [calls EXCEPT ![o] = @ \o u]
  BY <1>1, <1>3, <1>4 DEF Assign, Quietly
<1>6. HistoryGrows /\ Histories'
  BY <1>2, <1>5, HitTypes DEF HistoryGrows, AppInv, Histories
<1>7. PICK acc, asg : acc = accepted' /\ asg = assigned'
  OBVIOUS
<1>8. PICK K : K = Allowed(acc, asg)
  OBVIOUS
<1>9. u \in Seq(CallsFor(Len(watches[o]), K))
  <2>1. puts \in FindPuts
    BY <1>3 DEF FindPuts
  <2>2. \A w : puts = << <<"status", Registered>>, <<"volunteer", w>> >> => w = v
    <3>1. puts[2][2] = v
      BY <1>3
    <3> QED
      BY <3>1
  <2>3. Hit(o, s.name, v) \subseteq asg
    BY <1>5, <1>7
  <2>4. \A w \in Volunteers : puts = << <<"status", Registered>>, <<"volunteer", w>> >>
                                 => Hit(o, s.name, w) \subseteq asg
    BY <2>2, <2>3
  <2> QED
    BY <1>2, <1>4, <1>8, <2>1, <2>4, UpdateNamedKnown
<1>10. calls[o] \o u \in Seq(CallsFor(Len(watches[o]), K))
  <2>1. calls[o] \in Seq(CallsFor(Len(watches[o]), K))
    BY <1>6, <1>7, <1>8, Stays
  <2> QED
    BY <1>9, <2>1, ConcatProperties
<1>11. /\ screen' = [screen EXCEPT ![o] = [s EXCEPT !.page = "done"]]
       /\ [s EXCEPT !.page = "done"] \in ScreensFor(o, assigned')
  <2>1. screen[o] \in ScreensFor(o, assigned')
    BY <1>6, Stays
  <2>2. [s EXCEPT !.page = "done"] \in ScreensFor(o, assigned')
    BY <1>1, <2>1, ScreenTurns
  <2> QED
    BY <1>1, <1>5, <2>2
<1>12. watches' = [watches EXCEPT ![o] = watches[o]] /\ watches[o] \in Seq(WatchesFor)
  BY <1>5, <1>6, Stays
<1>13. calls[o] \o u \in Seq(CallsFor(Len(watches[o]), Allowed(accepted', assigned')))
  BY <1>7, <1>8, <1>10
<1> QED
  BY <1>5, <1>6, <1>11, <1>12, <1>13, QuietStep

LEMMA OrganiserNextKeeps ==
  ASSUME AppInv, NEW o \in Device, o \in Organisers, OrganiserNext(o)
  PROVE  AppInv' /\ SyncStep
BY OpenActivityDetailsKeeps, AssignKeeps DEF OrganiserNext

-----------------------------------------------------------------------------
(* The callbacks.                                                          *)

LEMMA NextDue ==
  ASSUME AppInv, NEW d \in Device, Due(d) # {}
  PROVE  /\ NextCall(d) \in DOMAIN calls[d]
         /\ calls[d][NextCall(d)] \in CallsFor(Len(watches[d]), Allowed(accepted, assigned))
         /\ Ready(d, calls[d][NextCall(d)])
<1>1. calls[d] \in Seq(CallsFor(Len(watches[d]), Allowed(accepted, assigned)))
  BY DEF AppInv, LocalAt
<1>2. PICK q, C : q = calls[d] /\ C = CallsFor(Len(watches[d]), Allowed(accepted, assigned))
  OBVIOUS
<1>3. q \in Seq(C) /\ Len(q) \in Nat /\ DOMAIN q = 1 .. Len(q)
  BY <1>1, <1>2
<1>4. Due(d) \in SUBSET Nat /\ Due(d) \subseteq DOMAIN q
  BY <1>2, <1>3 DEF Due
<1>5. \E i \in Due(d) : \A j \in Due(d) : i =< j
  BY <1>4, LeastNat
<1>6. NextCall(d) \in Due(d)
  BY <1>5 DEF NextCall, Min
<1>7. NextCall(d) \in DOMAIN q /\ Ready(d, q[NextCall(d)])
  BY <1>2, <1>6 DEF Due
<1>8. q[NextCall(d)] \in C
  BY <1>3, <1>7
<1> QED
  BY <1>2, <1>7, <1>8

LEMMA RunWriteKeeps ==
  ASSUME AppInv, NEW d \in Device, RunWrite(d)
  PROVE  AppInv' /\ SyncStep
<1>1. PICK i : i = NextCall(d)
  OBVIOUS
<1>2. /\ Due(d) # {} /\ calls[d][i].op = "write"
      /\ Emit(d, calls[d][i].put, RemoveAt(calls[d], i), screen[d])
      /\ UNCHANGED <<found, watches, taps, history>>
  BY <1>1 DEF RunWrite
<1>3. HistoryGrows /\ Histories' /\ UNCHANGED <<issued, chosen, assigned, accepted, saved>>
  BY <1>2, UnchangedHistory
<1>4. i \in DOMAIN calls[d] /\ calls[d][i] \in CallsFor(Len(watches[d]), Allowed(accepted, assigned))
  BY <1>1, <1>2, NextDue
<1>5. calls[d][i].put \in M!WritesOf(Allowed(accepted', assigned'))
  BY <1>2, <1>3, <1>4, CallKinds
<1>6. /\ calls[d] \in Seq(CallsFor(Len(watches[d]), Allowed(accepted', assigned')))
      /\ screen[d] \in ScreensFor(d, assigned')
  BY <1>3, Stays
<1>7. RemoveAt(calls[d], i) \in Seq(CallsFor(Len(watches[d]), Allowed(accepted', assigned')))
  BY <1>4, <1>6, RemovedKnown
<1> QED
  BY <1>2, <1>3, <1>5, <1>6, <1>7, PlainEmitStep

LEMMA RunDismissKeeps ==
  ASSUME AppInv, NEW d \in Device, RunDismiss(d)
  PROVE  AppInv' /\ SyncStep
<1>1. PICK i : i = NextCall(d)
  OBVIOUS
<1>2. /\ Due(d) # {}
      /\ calls' = [calls EXCEPT ![d] = Popped(RemoveAt(calls[d], i))]
      /\ screen' = [screen EXCEPT ![d] = LoginScreen]
      /\ UNCHANGED <<found, watches, history, syncVars, rows>>
  BY <1>1 DEF RunDismiss, Quietly
<1>3. HistoryGrows /\ Histories'
  BY <1>2, UnchangedHistory
<1>4. /\ calls[d] \in Seq(CallsFor(Len(watches[d]), Allowed(accepted', assigned')))
      /\ watches' = [watches EXCEPT ![d] = watches[d]] /\ watches[d] \in Seq(WatchesFor)
  BY <1>2, <1>3, Stays
<1>5. Popped(RemoveAt(calls[d], i)) \in Seq(CallsFor(Len(watches[d]), Allowed(accepted', assigned')))
  BY <1>1, <1>2, <1>4, NextDue, RemovedKnown, PoppedKnown
<1>6. LoginScreen \in ScreensFor(d, assigned')
  BY EmptyScreens
<1> QED
  BY <1>2, <1>3, <1>4, <1>5, <1>6, QuietStep

LEMMA RunFindKeeps ==
  ASSUME AppInv, NEW d \in Device, RunFind(d)
  PROVE  AppInv' /\ SyncStep
<1>1. PICK i, call : i = NextCall(d) /\ call = calls[d][i]
  OBVIOUS
<1> DEFINE new == UNION {Hit(d, call.name, call.puts[j][2]) :
                           j \in {j \in DOMAIN call.puts : call.puts[j][1] = "volunteer"}}
           k == Min(Named(view[d], call.name))
<1>2. /\ Due(d) # {} /\ call.op = "find"
      /\ calls' = [calls EXCEPT ![d] = SubSeq(calls[d], 1, i - 1) \o UpdateCalls(k, call.puts)
                                         \o SubSeq(calls[d], i + 1, Len(calls[d]))]
      /\ assigned' = assigned \cup new
      /\ UNCHANGED <<found, screen, watches, issued, chosen, accepted, syncVars, rows>>
  BY <1>1 DEF RunFind, Quietly
<1>3. /\ i \in DOMAIN calls[d] /\ call \in CallsFor(Len(watches[d]), Allowed(accepted, assigned))
      /\ Ready(d, call)
  BY <1>1, <1>2, NextDue
<1>4. call.puts \in FindPuts /\ k \in Key /\ \A v : <<k, v>> \in Hit(d, call.name, v)
  BY <1>2, <1>3, CallKinds, HitFirst DEF Ready
<1>5. /\ new \subseteq Key \X Volunteers
      /\ \A v \in Volunteers : call.puts = << <<"status", Registered>>, <<"volunteer", v>> >>
                                 => Hit(d, call.name, v) \subseteq new
  <2>1. CASE call.puts = << <<"status", Finished>> >>
    <3>1. DOMAIN call.puts = 1 .. 1 /\ call.puts[1][1] = "status"
      BY <2>1
    <3>2. {j \in DOMAIN call.puts : call.puts[j][1] = "volunteer"} = {}
      BY <3>1
    <3>3. \A v : call.puts # << <<"status", Registered>>, <<"volunteer", v>> >>
      BY <2>1
    <3> QED
      BY <3>2, <3>3
  <2>2. ASSUME NEW v \in Volunteers, call.puts = << <<"status", Registered>>, <<"volunteer", v>> >>
        PROVE  /\ new = Hit(d, call.name, v)
               /\ \A w : call.puts = << <<"status", Registered>>, <<"volunteer", w>> >> => w = v
    <3>1. /\ DOMAIN call.puts = 1 .. 2 /\ call.puts[1][1] = "status"
          /\ call.puts[2][1] = "volunteer" /\ call.puts[2][2] = v
      BY <2>2
    <3>2. {j \in DOMAIN call.puts : call.puts[j][1] = "volunteer"} = {2}
      BY <3>1
    <3>3. new = Hit(d, call.name, v)
      BY <3>1, <3>2
    <3>4. \A w : call.puts = << <<"status", Registered>>, <<"volunteer", w>> >> => call.puts[2][2] = w
      OBVIOUS
    <3> QED
      BY <3>1, <3>3, <3>4
  <2> QED
    BY <1>4, <2>1, <2>2, HitTypes DEF FindPuts
<1>6. HistoryGrows /\ Histories'
  BY <1>2, <1>5 DEF HistoryGrows, AppInv, Histories
<1>7. PICK acc, asg : acc = accepted' /\ asg = assigned'
  OBVIOUS
<1>8. PICK C : C = CallsFor(Len(watches[d]), Allowed(acc, asg))
  OBVIOUS
<1>9. UpdateCalls(k, call.puts) \in Seq(C)
  <2>1. \A v \in Volunteers : call.puts = << <<"status", Registered>>, <<"volunteer", v>> >>
                                => <<k, v>> \in asg
    BY <1>2, <1>4, <1>5, <1>7
  <2> HIDE DEF k
  <2> QED
    BY <1>4, <1>8, <2>1, FindPutsKnown
<1>10. /\ calls[d] \in Seq(C)
       /\ screen' = [screen EXCEPT ![d] = screen[d]] /\ screen[d] \in ScreensFor(d, assigned')
       /\ watches' = [watches EXCEPT ![d] = watches[d]] /\ watches[d] \in Seq(WatchesFor)
  BY <1>2, <1>6, <1>7, <1>8, Stays
<1>11. PICK a, b, e : /\ a = SubSeq(calls[d], 1, i - 1) /\ b = UpdateCalls(k, call.puts)
                      /\ e = SubSeq(calls[d], i + 1, Len(calls[d]))
  OBVIOUS
<1>12. a \in Seq(C) /\ b \in Seq(C) /\ e \in Seq(C)
  BY <1>3, <1>9, <1>10, <1>11, RemovedKnown
<1>13. a \o b \o e \in Seq(C)
  BY <1>12, ConcatProperties
<1>14. /\ calls' = [calls EXCEPT ![d] = a \o b \o e]
       /\ a \o b \o e \in Seq(CallsFor(Len(watches[d]), Allowed(accepted', assigned')))
  BY <1>2, <1>7, <1>8, <1>11, <1>13
<1> QED
  BY <1>2, <1>6, <1>10, <1>14, QuietStep

\* The least and the largest grade there is.
LEMMA GradeBounds ==
  ASSUME Grades # {}
  PROVE  /\ Min(Grades) \in Grades /\ Max(Grades) \in Grades
         /\ \A g \in Grades : Min(Grades) =< g /\ g =< Max(Grades)
<1>1. Grades \subseteq 1..5
  BY SchemaAssumption
<1>2. \E i \in Grades : \A j \in Grades : i =< j
  BY <1>1, LeastNat
<1>3. \E i \in Grades : \A j \in Grades : j =< i
  <2> DEFINE S == {5 - g : g \in Grades}
  <2>1. S \in SUBSET Nat /\ S # {}
    <3>1. \A g \in Grades : 5 - g \in Nat
      BY <1>1
    <3> QED
      BY <3>1
  <2>2. PICK x \in S : \A y \in S : x =< y
    <3> HIDE DEF S
    <3> QED
      BY <2>1, LeastNat
  <2>3. PICK i \in Grades : x = 5 - i
    BY <2>2
  <2>4. \A j \in Grades : 5 - i =< 5 - j
    BY <2>2, <2>3
  <2>5. \A j \in Grades : j =< i
    BY <1>1, <2>4
  <2> QED
    BY <2>5
<1> QED
  BY <1>2, <1>3 DEF Min, Max

\* Adding a list of grades to a sum of grades.
LEMMA SumsAdd ==
  ASSUME NEW g \in 1..5, NEW s \in Nat, NEW c \in Nat, NEW t \in Nat, NEW n \in Nat
  PROVE  /\ c * g =< s /\ n * g =< t => (c + n) * g =< s + t
         /\ s =< c * g /\ t =< n * g => s + t =< (c + n) * g
<1>1. g = 1 \/ g = 2 \/ g = 3 \/ g = 4 \/ g = 5
  OBVIOUS
<1> QED
  BY <1>1

LEMMA RatingAdds ==
  ASSUME NEW w \in WatchesFor, NEW gs \in Seq(Grades), gs # <<>>
  PROVE  /\ w.sum + Total(gs) \in Nat /\ w.count + Len(gs) \in Nat
         /\ InScale([sum |-> w.sum + Total(gs), count |-> w.count + Len(gs)])
<1>1. Len(gs) \in Nat /\ Len(gs) > 0 /\ \A i \in 1 .. Len(gs) : gs[i] \in Grades
  OBVIOUS
<1>2. PICK lo, hi : lo = Min(Grades) /\ hi = Max(Grades)
  OBVIOUS
<1>3. /\ lo \in 1..5 /\ hi \in 1..5 /\ \A g \in Grades : g \in lo .. hi
  <2>1. gs[1] \in Grades
    BY <1>1
  <2>2. lo \in Grades /\ hi \in Grades /\ \A g \in Grades : lo =< g /\ g =< hi
    BY <1>2, <2>1, GradeBounds
  <2>3. Grades \subseteq 1..5
    BY SchemaAssumption
  <2> QED
    BY <2>2, <2>3
<1>4. gs \in Seq(lo .. hi)
  <2>1. Grades \subseteq lo .. hi
    BY <1>3
  <2> QED
    BY <2>1, SeqMonotonic
<1>5. Total(gs) \in Nat /\ Len(gs) * lo =< Total(gs) /\ Total(gs) =< Len(gs) * hi
  <2>1. lo \in Nat /\ hi \in Nat
    BY <1>3
  <2> QED
    BY <1>4, <2>1, TotalBounds
<1>6. PICK s, c, t, n : s = w.sum /\ c = w.count /\ t = Total(gs) /\ n = Len(gs)
  OBVIOUS
<1>7. /\ s \in Nat /\ c \in Nat /\ t \in Nat /\ n \in Nat
      /\ n * lo =< t /\ t =< n * hi
      /\ (s = 0 /\ c = 0) \/ (c * lo =< s /\ s =< c * hi)
  BY <1>1, <1>2, <1>5, <1>6 DEF WatchesFor, InScale
<1>8. c * lo =< s /\ s =< c * hi
  <2>1. CASE s = 0 /\ c = 0
    <3>1. 0 * lo = 0 /\ 0 * hi = 0
      BY <1>3
    <3> QED
      BY <2>1, <3>1
  <2> QED
    BY <1>7, <2>1
<1>9. (c + n) * lo =< s + t /\ s + t =< (c + n) * hi
  BY <1>3, <1>7, <1>8, SumsAdd
<1> QED
  BY <1>1, <1>2, <1>6, <1>7, <1>9 DEF InScale

LEMMA RunRateKeeps ==
  ASSUME AppInv, NEW d \in Device, RunRate(d)
  PROVE  AppInv' /\ SyncStep
<1>1. PICK i, call : i = NextCall(d) /\ call = calls[d][i]
  OBVIOUS
<1>2. PICK j, w : j = call.watch /\ w = watches[d][j]
  OBVIOUS
<1>3. PICK x : x = [sum |-> w.sum + Total(call.grades), count |-> w.count + Len(call.grades)]
  OBVIOUS
<1>4. /\ Due(d) # {} /\ call.op = "rate"
      /\ watches' = [watches EXCEPT ![d][j].sum = x.sum, ![d][j].count = x.count]
      /\ Sync!LocalWrite(d, PutLeaf(<<w.path, "rating">>, x))
      /\ Observe(d, RemoveAt(calls[d], i), screen[d])
      /\ UNCHANGED <<found, taps, history>>
  BY <1>1, <1>2, <1>3 DEF RunRate
<1>5. HistoryGrows /\ Histories' /\ UNCHANGED <<issued, chosen, assigned, accepted, saved>>
  BY <1>4, UnchangedHistory
<1>6. i \in DOMAIN calls[d] /\ call \in CallsFor(Len(watches[d]), Allowed(accepted, assigned))
  BY <1>1, <1>4, NextDue
<1>7. j \in 1 .. Len(watches[d]) /\ call.grades \in Seq(Grades) /\ call.grades # <<>>
  BY <1>2, <1>4, <1>6, CallKinds
<1>8. /\ watches[d] \in Seq(WatchesFor) /\ watches = [watches EXCEPT ![d] = watches[d]]
      /\ calls[d] \in Seq(CallsFor(Len(watches[d]), Allowed(accepted', assigned')))
      /\ screen[d] \in ScreensFor(d, assigned')
  BY <1>5, Stays
<1>9. w \in WatchesFor
  BY <1>2, <1>7, <1>8
<1>10. x \in Rating /\ InScale(x)
  BY <1>3, <1>7, <1>9, RatingAdds DEF Rating
<1>11. w.path \in Path
  BY <1>9 DEF WatchesFor
<1>12. PutLeaf(<<w.path, "rating">>, x) \in M!WritesOf(Allowed(accepted', assigned'))
  <2>1. PICK acc, asg : acc = accepted' /\ asg = assigned'
    OBVIOUS
  <2>2. PICK l : l = <<w.path, "rating">>
    OBVIOUS
  <2>3. l \in Leaf /\ l[2] = "rating"
    BY <1>11, <2>2, Leaves
  <2>4. x \in Known(l, acc, asg)
    BY <1>10, <2>2, <2>3, Values DEF Known
  <2> QED
    BY <2>1, <2>2, <2>3, <2>4, PutKnown
<1>13. PICK y : y = [path |-> w.path, sum |-> x.sum, count |-> x.count]
  OBVIOUS
<1>14. y \in WatchesFor
  BY <1>10, <1>11, <1>13 DEF WatchesFor, InScale, Rating
<1>15. PICK ws : ws = [watches[d] EXCEPT ![j] = y]
  OBVIOUS
<1>16. ws \in Seq(WatchesFor) /\ Len(ws) = Len(watches[d])
  BY <1>7, <1>8, <1>14, <1>15
<1>17. watches' = [watches EXCEPT ![d] = ws]
  <2>1. [w EXCEPT !.sum = x.sum, !.count = x.count] = y
    <3>1. PICK P : P = Path
      OBVIOUS
    <3>2. w \in [path : P, sum : Nat, count : Nat]
      BY <1>9, <3>1 DEF WatchesFor
    <3>3. PICK r : r = [w EXCEPT !.sum = x.sum, !.count = x.count]
      OBVIOUS
    <3>4. /\ r \in [path : P, sum : Nat, count : Nat]
          /\ r.path = w.path /\ r.sum = x.sum /\ r.count = x.count
      BY <1>10, <3>2, <3>3 DEF Rating
    <3>5. r = [path |-> r.path, sum |-> r.sum, count |-> r.count]
      BY <3>4
    <3> QED
      BY <1>13, <3>3, <3>4, <3>5
  <2>2. [watches[d] EXCEPT ![j] = [w EXCEPT !.sum = x.sum, !.count = x.count]] = ws
    BY <1>15, <2>1
  <2>3. watches' = [watches EXCEPT ![d] = [watches[d] EXCEPT ![j] = [w EXCEPT !.sum = x.sum, !.count = x.count]]]
    <3>1. watches = [c \in Device |-> watches[c]]
      BY DEF AppInv, PerDevice
    <3>2. PICK old : old = watches
      OBVIOUS
    <3>3. PICK one : one = [old EXCEPT ![d][j].sum = x.sum]
      OBVIOUS
    <3>4. PICK f : f = old[d]
      OBVIOUS
    <3>5. one = [old EXCEPT ![d] = [f EXCEPT ![j] = [w EXCEPT !.sum = x.sum]]]
      BY <1>2, <3>1, <3>2, <3>3, <3>4
    <3>6. one[d] = [f EXCEPT ![j] = [w EXCEPT !.sum = x.sum]] /\ DOMAIN one = Device
      BY <3>1, <3>2, <3>5
    <3>7. one[d][j] = [w EXCEPT !.sum = x.sum]
      BY <1>7, <1>8, <3>2, <3>4, <3>6
    <3>8. watches' = [one EXCEPT ![d][j].count = x.count]
      BY <1>4, <3>2, <3>3
    <3>9. watches' = [one EXCEPT ![d] = [one[d] EXCEPT ![j] = [one[d][j] EXCEPT !.count = x.count]]]
      BY <3>8
    <3>10. PICK w1, w2 : w1 = [w EXCEPT !.sum = x.sum] /\ w2 = [w1 EXCEPT !.count = x.count]
      OBVIOUS
    <3>11. watches' = [one EXCEPT ![d] = [[f EXCEPT ![j] = w1] EXCEPT ![j] = w2]]
      BY <3>6, <3>7, <3>9, <3>10
    <3>12. [[f EXCEPT ![j] = w1] EXCEPT ![j] = w2] = [f EXCEPT ![j] = w2]
      BY <1>7, <1>8, <3>2, <3>4
    <3>13. watches' = [old EXCEPT ![d] = [f EXCEPT ![j] = w2]]
      <4>1. PICK a, b : a = [f EXCEPT ![j] = w1] /\ b = [f EXCEPT ![j] = w2]
        OBVIOUS
      <4>2. one = [old EXCEPT ![d] = a] /\ watches' = [one EXCEPT ![d] = b]
        BY <3>5, <3>10, <3>11, <3>12, <4>1
      <4> QED
        BY <3>1, <3>2, <4>1, <4>2
    <3>14. w2 = [w EXCEPT !.sum = x.sum, !.count = x.count]
      BY <3>10
    <3> QED
      BY <3>2, <3>4, <3>13, <3>14
  <2> QED
    BY <2>2, <2>3
<1>18. RemoveAt(calls[d], i) \in Seq(CallsFor(Len(ws), Allowed(accepted', assigned')))
  BY <1>6, <1>8, <1>16, RemovedKnown
<1> QED
  BY <1>4, <1>5, <1>8, <1>12, <1>16, <1>17, <1>18, EmitStep

LEMMA RunCallbackKeeps ==
  ASSUME AppInv, NEW d \in Device, RunCallback(d)
  PROVE  AppInv' /\ SyncStep
BY RunWriteKeeps, RunFindKeeps, RunRateKeeps, RunDismissKeeps DEF RunCallback

-----------------------------------------------------------------------------
(* The network, and the app started again.                                 *)

\* What a device shows of the requests depends on the requests alone.
LEMMA FetchedSame ==
  ASSUME NEW v, NEW w, \A k \in Key, f \in RequestField : v[<<k, f>>] = w[<<k, f>>], NEW d
  PROVE  Fetched(d, v) = Fetched(d, w)
<1>1. \A k \in Key : /\ Request(v, k) = Request(w, k) /\ StatusOf(v, k) = StatusOf(w, k)
                     /\ VolunteerOf(v, k) = VolunteerOf(w, k)
  BY DEF Request, StatusOf, VolunteerOf, RequestField
<1>2. \A k \in Key : /\ Exists(v, k) <=> Exists(w, k)
                     /\ Mine(d, v, k) <=> Mine(d, w, k)
                     /\ RowFor(v, k, k) = RowFor(w, k, k)
  BY <1>1 DEF Exists, Record, Mine, RowFor
<1> QED
  BY <1>2 DEF Fetched

LEMMA CommitKeeps ==
  ASSUME AppInv, NEW d \in Device, Commit(d)
  PROVE  AppInv' /\ SyncStep
<1>1. /\ Sync!Commit(d) /\ UNCHANGED <<found, watches, taps, history, rows, screen, calls>>
  BY DEF Commit, local
<1>2. HistoryGrows /\ Histories' /\ SyncStep
  BY <1>1, UnchangedHistory DEF SyncStep
<1>3. view' = view
  BY <1>1 DEF Sync!Commit
<1>4. /\ rows' = [rows EXCEPT ![d] = rows[d]] /\ rows[d] \in SUBSET RowsFor(d, assigned')
      /\ d \notin Organisers => KeyedIn(rows[d], view'[d])
      /\ found' = [found EXCEPT ![d] = found[d]]
      /\ found[d] \in [active : BOOLEAN, rows : SUBSET RowsFor(d, assigned')]
      /\ screen' = [screen EXCEPT ![d] = screen[d]] /\ screen[d] \in ScreensFor(d, assigned')
      /\ watches' = [watches EXCEPT ![d] = watches[d]] /\ watches[d] \in Seq(WatchesFor)
      /\ calls' = [calls EXCEPT ![d] = calls[d]]
      /\ calls[d] \in Seq(CallsFor(Len(watches[d]), Allowed(accepted', assigned')))
  BY <1>1, <1>2, <1>3, Stays
<1> QED
  BY <1>2, <1>3, <1>4, StepKeeps

\* A message, or a new connection, changes what d shows.
LEMMA HeardKeeps ==
  ASSUME AppInv, NEW d \in Device, Sync!Deliver(d) \/ Sync!Reconnect(d),
         Observe(d, calls[d], screen[d]), UNCHANGED local
  PROVE  AppInv' /\ SyncStep
<1>1. HistoryGrows /\ Histories' /\ SyncStep /\ UNCHANGED <<found, watches>>
  BY UnchangedHistory DEF SyncStep, local
<1>2. \A c \in Device \ {d} : view'[c] = view[c]
  <2>1. view \in [Device -> [Leaf -> Value]]
    BY DEF AppInv, MirrorInv, M!IInv, M!TypeOK
  <2>2. \E x : view' = [view EXCEPT ![d] = x]
    BY DEF Sync!Deliver, Sync!Reconnect
  <2> QED
    BY <2>1, <2>2
<1>3. /\ screen[d] \in ScreensFor(d, assigned')
      /\ watches' = [watches EXCEPT ![d] = watches[d]] /\ watches[d] \in Seq(WatchesFor)
      /\ calls[d] \in Seq(CallsFor(Len(watches[d]), Allowed(accepted', assigned')))
  BY <1>1, Stays
<1> QED
  BY <1>1, <1>2, <1>3, ObserveStep

LEMMA RestartKeeps ==
  ASSUME AppInv, NEW d \in Device, Restart(d)
  PROVE  AppInv' /\ SyncStep
<1>1. /\ Sync!Restart(d) /\ UNCHANGED history
      /\ rows' = [rows EXCEPT ![d] = Fetched(d, server)]
      /\ found' = [found EXCEPT ![d] = NotSearching]
      /\ screen' = [screen EXCEPT ![d] = NoScreen]
      /\ calls' = [calls EXCEPT ![d] = <<>>]
      /\ watches' = [watches EXCEPT ![d] = <<>>]
  BY DEF Restart
<1>2. HistoryGrows /\ Histories' /\ SyncStep
  BY <1>1, UnchangedHistory DEF SyncStep
<1>3. view \in [Device -> [Leaf -> Value]] /\ view' = [view EXCEPT ![d] = Sync!Mirror(d, server)]
  BY <1>1 DEF AppInv, MirrorInv, M!IInv, M!TypeOK, Sync!Restart
<1>4. /\ \A c \in Device \ {d} : view'[c] = view[c]
      /\ view'[d] = Sync!Mirror(d, server)
  BY <1>3
<1>5. PICK acc, asg : acc = accepted' /\ asg = assigned'
  OBVIOUS
<1>6. \A l \in Leaf : view'[d][l] \in Allowed(acc, asg)[l]
  BY <1>2, <1>5, MirrorStep DEF MirrorInv, M!HoldsOnly
<1>7. Fetched(d, server) = Fetched(d, view'[d])
  <2>1. \A k \in Key, f \in RequestField : <<k, f>> \in Leaf /\ <<k, f>> \in Listens[d]
    BY Leaves DEF Listens
  <2>2. \A k \in Key, f \in RequestField : server[<<k, f>>] = view'[d][<<k, f>>]
    BY <1>4, <2>1 DEF Sync!Mirror
  <2> QED
    BY <2>2, FetchedSame
<1>8. PICK R : R = Fetched(d, server)
  OBVIOUS
<1>9. R \in SUBSET RowsFor(d, asg) /\ KeyedIn(R, view'[d])
  BY <1>6, <1>7, <1>8, FetchedKnown
<1>10. NotSearching \in [active : BOOLEAN, rows : SUBSET RowsFor(d, assigned')]
  BY DEF NotSearching
<1>11. NoScreen \in ScreensFor(d, assigned')
  BY EmptyScreens
<1>12. PICK e : e = <<>>
  OBVIOUS
<1>13. e \in Seq(WatchesFor) /\ e \in Seq(CallsFor(Len(e), Allowed(accepted', assigned')))
  BY <1>12, EmptySeq
<1> QED
  BY <1>1, <1>2, <1>4, <1>5, <1>8, <1>9, <1>10, <1>11, <1>12, <1>13, StepKeeps

-----------------------------------------------------------------------------
(* The invariant holds at the start and is kept by every step.             *)

LEMMA InitAppInv == Init => AppInv
<1> SUFFICES ASSUME Init
             PROVE  AppInv
  OBVIOUS
<1>1. M!Init /\ server = Blank /\ view = [d \in Device |-> Blank]
  BY SyncActions DEF Init, Sync!Init
<1>2. chosen = TakenAtStart /\ assigned = TakenAtStart /\ accepted = TakenAtStart
  BY DEF Init, TakenAtStart
<1>3. PICK asg : asg = TakenAtStart
  OBVIOUS
<1>4. MirrorInv
  <2>1. \A l \in Leaf : Blank[l] \in Allowed(asg, asg)[l]
    BY <1>3, BlankKnown
  <2>2. M!HoldsOnly(Allowed(asg, asg))
    BY <1>1, <2>1, MirrorAssumptions, M!InitHoldsOnly
  <2>3. M!IInv
    BY <1>1, MirrorAssumptions, M!InitHolds
  <2> QED
    BY <1>2, <1>3, <2>2, <2>3 DEF MirrorInv
<1>5. Histories
  <2>1. issued = [i \in 1 .. Len(Filed) |-> [elder |-> Filed[i].elder, name |-> Filed[i].name]]
    BY FiledKeys DEF Init
  <2>2. \A i \in 1 .. Len(Filed) : [elder |-> Filed[i].elder, name |-> Filed[i].name] \in Heading
    BY FiledKeys, FiledTypes DEF Heading
  <2>3. issued \in [1 .. Len(Filed) -> Heading]
    BY <2>1, <2>2
  <2>4. issued \in Seq(Heading)
    BY <2>3, FiledKeys
  <2> QED
    BY <1>2, <2>4, TakenTypes DEF Histories
<1>6. PerDevice
  BY DEF Init, PerDevice
<1>7. ASSUME NEW d \in Device
      PROVE  LocalAt(d)
  <2>1. /\ rows[d] = Fetched(d, Blank) /\ view[d] = Blank /\ found[d] = NotSearching
        /\ screen[d] = NoScreen /\ calls[d] = <<>> /\ watches[d] = <<>>
    BY <1>1 DEF Init
  <2>2. Fetched(d, Blank) \subseteq RowsFor(d, asg) /\ KeyedIn(Fetched(d, Blank), Blank)
    BY <1>3, BlankKnown, FetchedKnown
  <2>3. NotSearching \in [active : BOOLEAN, rows : SUBSET RowsFor(d, assigned)]
    BY DEF NotSearching
  <2>4. NoScreen \in ScreensFor(d, assigned)
    BY EmptyScreens
  <2>5. /\ watches[d] \in Seq(WatchesFor)
        /\ calls[d] \in Seq(CallsFor(Len(watches[d]), Allowed(accepted, assigned)))
    BY <2>1, EmptySeq
  <2> QED
    BY <1>2, <1>3, <2>1, <2>2, <2>3, <2>4, <2>5 DEF LocalAt
<1> QED
  BY <1>4, <1>5, <1>6, <1>7 DEF AppInv

LEMMA StutterKeeps ==
  ASSUME AppInv, UNCHANGED vars
  PROVE  AppInv' /\ SyncStep
<1>1. /\ UNCHANGED <<syncVars, rows, found, screen, calls, watches, history>>
      /\ view' = view
  BY DEF vars, syncVars
<1>2. HistoryGrows /\ Histories' /\ SyncStep
      /\ UNCHANGED <<issued, chosen, assigned, accepted, saved>>
  BY <1>1, UnchangedHistory DEF SyncStep
<1>3. MirrorInv'
  BY <1>2, MirrorStep
<1>4. PerDevice'
  BY <1>1 DEF AppInv, PerDevice
<1>5. ASSUME NEW d \in Device
      PROVE  LocalAt(d)'
  BY <1>1, <1>2 DEF AppInv, LocalAt
<1> QED
  BY <1>2, <1>3, <1>4, <1>5 DEF AppInv

LEMMA NextKeeps == AppInv /\ [Next]_vars => AppInv' /\ SyncStep
<1> SUFFICES ASSUME AppInv, [Next]_vars
             PROVE  AppInv' /\ SyncStep
  OBVIOUS
<1>1. CASE UNCHANGED vars
  BY <1>1, StutterKeeps
<1>2. ASSUME NEW d \in Device, UserActs(d)
      PROVE  AppInv' /\ SyncStep
  BY <1>2, ElderNextKeeps, VolunteerNextKeeps, OrganiserNextKeeps, TableNextKeeps DEF UserActs
<1>3. ASSUME NEW d \in Device, RunCallback(d)
      PROVE  AppInv' /\ SyncStep
  BY <1>3, RunCallbackKeeps
<1>4. ASSUME NEW d \in Device, Commit(d)
      PROVE  AppInv' /\ SyncStep
  BY <1>4, CommitKeeps
<1>5. ASSUME NEW d \in Device, Deliver(d) \/ Reconnect(d)
      PROVE  AppInv' /\ SyncStep
  BY <1>5, HeardKeeps DEF Deliver, Reconnect
<1>6. ASSUME NEW d \in Device, Restart(d)
      PROVE  AppInv' /\ SyncStep
  BY <1>6, RestartKeeps
<1> QED
  BY <1>1, <1>2, <1>3, <1>4, <1>5, <1>6 DEF Next

LEMMA Invariant == Spec => []AppInv
BY InitAppInv, NextKeeps, PTL DEF Spec

-----------------------------------------------------------------------------
(* The theorems.                                                           *)

\* What devices keep, show and send is what the screens can handle, whatever their
\* users do and the network loses (DatabaseManager, the table view controllers).
THEOREM TypesHold == Spec => []TypeOK
<1>1. AppInv => TypeOK
  <2> SUFFICES ASSUME AppInv
               PROVE  TypeOK
    OBVIOUS
  <2>1. PICK K : K = Allowed(accepted, assigned)
    OBVIOUS
  <2>2. M!HoldsOnly(K) /\ \A l \in Leaf : K[l] \subseteq ValueOf(l)
    BY <2>1, KnownTypes DEF AppInv, MirrorInv
  <2>3. /\ \A l \in Leaf : server[l] \in ValueOf(l)
        /\ \A d \in Device, l \in Leaf : view[d][l] \in ValueOf(l)
    BY <2>2 DEF M!HoldsOnly
  <2>4. ASSUME NEW d \in Device, NEW i \in DOMAIN pending[d], NEW l \in DOMAIN pending[d][i]
        PROVE  pending[d][i][l] \in ValueOf(l)
    <3>1. pending[d] \in Seq(M!WritesOf(K))
      BY <2>2 DEF M!HoldsOnly
    <3>2. pending[d][i] \in M!WritesOf(K)
      BY <2>4, <3>1
    <3>3. pending[d][i][l] \in K[l] /\ l \in Leaf
      BY <2>4, <3>2 DEF M!WritesOf, M!Write
    <3> QED
      BY <2>2, <3>3
  <2>5. \A d \in Device : /\ rows[d] \in SUBSET Row /\ found[d].rows \subseteq Row
                          /\ screen[d] \in ScreenType
    BY DEF AppInv, LocalAt, RowsFor, ScreensFor
  <2>6. rows \in [Device -> SUBSET Row] /\ screen \in [Device -> ScreenType]
    BY <2>5 DEF AppInv, PerDevice
  <2> QED
    BY <2>3, <2>4, <2>5, <2>6 DEF TypeOK, AppInv, Histories
<1> QED
  BY <1>1, Invariant, PTL

\* A task is scheduled only by a volunteer who was assigned to it, although the
\* status is written by key from a screen that may be long out of date.
THEOREM ScheduledOnlyByAcceptance == Spec => []ScheduledWasAccepted
<1>1. AppInv => ScheduledWasAccepted
  <2> SUFFICES ASSUME AppInv, NEW k \in Key, StatusOf(server, k) = Scheduled
               PROVE  \E v \in Volunteers : <<k, v>> \in accepted \cap assigned
    BY DEF ScheduledWasAccepted
  <2>1. PICK l : l = <<k, "status">>
    OBVIOUS
  <2>2. l \in Leaf /\ l[1] = k /\ l[2] = "status" /\ server[l] = Scheduled
    BY <2>1, Leaves DEF RequestField, StatusOf
  <2>3. server[l] \in Known(l, accepted, assigned)
    BY <2>2, KnownTypes DEF AppInv, MirrorInv, M!HoldsOnly
  <2> QED
    BY <2>2, <2>3 DEF Known
<1> QED
  BY <1>1, Invariant, PTL

\* A rating stays within the scale of the grades, whichever observers of
\* insertRating add which lists to what they summed before.
THEOREM RatingsStayInScale == Spec => []RatingsInScale
<1>1. AppInv => RatingsInScale
  <2> SUFFICES ASSUME AppInv, NEW u \in Account, NEW x, x = server[<<SafeEmail[u], "rating">>],
                      x # Absent, x # NoRating
               PROVE  x.count * Min(Grades) =< x.sum /\ x.sum =< x.count * Max(Grades)
    BY DEF RatingsInScale
  <2>1. PICK l : l = <<SafeEmail[u], "rating">>
    OBVIOUS
  <2>2. l \in Leaf /\ l[2] = "rating"
    BY <2>1, Leaves
  <2>3. x \in Known(l, accepted, assigned)
    BY <2>1, <2>2, KnownTypes DEF AppInv, MirrorInv, M!HoldsOnly
  <2>4. x \in Rating /\ InScale(x)
    BY <2>1, <2>2, <2>3, Values DEF Known
  <2>5. x.sum # 0 \/ x.count # 0
    <3>1. x = [sum |-> x.sum, count |-> x.count]
      BY <2>4 DEF Rating
    <3> QED
      BY <3>1 DEF NoRating
  <2> QED
    BY <2>4, <2>5 DEF InScale
<1> QED
  BY <1>1, Invariant, PTL

\* A row an elder or a volunteer can act on shows the request as the device knows it:
\* no change passes the observers of the table by.
THEOREM KeyedRowsStayCurrent == Spec => []KeyedRowsCurrent
<1>1. AppInv => KeyedRowsCurrent
  BY DEF AppInv, LocalAt, KeyedIn, KeyedRowsCurrent
<1> QED
  BY <1>1, Invariant, PTL

\* The system of devices drives its mirrors as FirebaseSync allows: every handler
\* writes at most one value at once, and only values the schema has.
THEOREM MirrorsAreUsedAsSpecified == Spec => Sync!Spec
<1>1. Init => Sync!Init
  BY DEF Init
<1>2. AppInv /\ [Next]_vars => [Sync!Next]_Sync!syncVars
  <2> SUFFICES ASSUME AppInv, [Next]_vars
               PROVE  [Sync!Next]_Sync!syncVars
    OBVIOUS
  <2>1. SyncStep
    BY NextKeeps
  <2>2. ASSUME NEW d \in Device, NEW w \in M!WritesOf(Allowed(accepted', assigned')),
               Sync!LocalWrite(d, w)
        PROVE  Sync!Next
    <3>1. w \in Sync!Write
      BY <2>2 DEF M!WritesOf, M!Write, Sync!Write
    <3> QED
      BY <2>2, <3>1 DEF Sync!Next
  <2> QED
    BY <2>1, <2>2 DEF SyncStep, Sync!Next, syncVars, Sync!syncVars
<1> QED
  BY <1>1, <1>2, Invariant, PTL DEF Spec, Sync!Spec

\* So what is proved of one mirror holds of every device of the app: with nothing
\* under way in either direction it shows the database.
THEOREM DevicesConverge == Spec => []Sync!Converged
<1>1. AppInv => Sync!Converged
  <2>1. AppInv => M!IInv
    BY DEF AppInv, MirrorInv
  <2>2. M!IInv => M!Converged
    BY MirrorAssumptions, M!IInvConverges
  <2>3. M!Converged => Sync!Converged
    BY DEF M!Converged, Sync!Converged, M!Mirror, Sync!Mirror
  <2> QED
    BY <2>1, <2>2, <2>3
<1> QED
  BY <1>1, Invariant, PTL
=============================================================================
