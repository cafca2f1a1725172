-------------------------- MODULE DirectoryProofs ---------------------------
(***************************************************************************)
(* Proofs about the screens that show people.                              *)
(***************************************************************************)
EXTENDS Directory, ListsProofs

M == INSTANCE FirebaseSyncProofs WITH Client <- Device, Listens <- [d \in Device |-> Leaf]

-----------------------------------------------------------------------------
(* What a leaf may hold, and who may write it, once the members mem picked *)
(* the roles pick and pressed the places press.                            *)

Known(l, mem, pick, press) ==
  IF l[2] = "role" THEN {Blank[l]} \cup {pick[u] : u \in {l[1]} \cap mem}
  ELSE IF l[2] \in Coordinate THEN {Absent, 0} \cup press[l[1]]
  ELSE ValueOf(l)

Allowed(mem, pick, press) == [l \in Leaf |-> Known(l, mem, pick, press)]

Issued(mem, pick) ==
  [c \in Device |->
     {w \in M!Write : \A l \in DOMAIN w :
                        /\ l[2] = "comments" \/ l[1] = c
                        /\ l[2] = "role" => c \in mem /\ w[l] = pick[c]}]

MirrorInv == /\ M!IInv
             /\ M!HoldsOnly(Allowed(members, picked, pressed))
             /\ M!SentOnly(Issued(members, picked))

-----------------------------------------------------------------------------
(* What holds of each device.                                              *)

Hour(d) == <<d, "freeHours">>

\* Its user's account, and the screens it opens.
AccountAt(d) ==
  /\ picked[d] \in AnyRole
  /\ names[d] \in {NoRole, picked[d]}
  /\ \A r \in AnyRole : <<d, r>> \in requests => d \in members /\ r = picked[d]
  /\ d \notin Newcomers => d \in members /\ picked[d] = Role[d]
  /\ page[d] \in {"login", "volunteer", "elder", "organiser", "list", "comments", "activity"}
  /\ page[d] = "volunteer" => picked[d] = Volunteer
  /\ page[d] = "elder" => picked[d] = Elder
  /\ d \notin members => page[d] = "login" /\ names[d] = NoRole
  /\ d \in members => names[d] = picked[d] \/ <<d, picked[d]>> \in requests

\* What it shows of the user's own record.
RecordAt(d) ==
  /\ d \notin members =>
       \A f \in Field \ {"comments"} : view[d][<<d, f>>] = Blank[<<d, f>>]
  /\ (restarts = 0 /\ d \in members) => RoleOf(view[d], d) = picked[d]

\* The writes it has still to issue.
Planned(d, press) ==
  {PutLeaf(u, "comments", s) : u \in User, s \in Seq(User)}
    \cup {PutLeaf(d, "freeHours", s) : s \in Seq(Hours)}
    \cup {PutLeaf(d, f, p) : f \in Coordinate, p \in press}
CallsAt(d) ==
  /\ pressed[d] \subseteq Place
  /\ geocoding[d] \in Seq(pressed[d])
  /\ calls[d] \in Seq(Planned(d, pressed[d]))
  /\ page[d] = "login" => calls[d] = <<>>

\* The free hours s once the callbacks ws have run.
Ahead(ws, l, s) == IF ws # <<>> /\ l \in DOMAIN ws[1] THEN ws[1][l] ELSE s

\* At most one hour added or removed.
OneTap(s, t) == \/ t = s
                \/ \E h \in Hours : t = Append(s, h)
                \/ \E j \in DOMAIN s : t = RemoveAt(s, j)

\* Only the next callback writes free hours, and the rows are on record before it
\* and after it.
HoursFit(d, R, ws, s) ==
  /\ R \in Seq(Hours \cup {BlankRow})
  /\ \A i \in 2 .. Len(ws) : Hour(d) \notin DOMAIN ws[i]
  /\ OneTap(s, Ahead(ws, Hour(d), s))
  /\ \A h \in Hours : /\ Copies(h, R) =< Copies(h, s)
                      /\ Copies(h, R) =< Copies(h, Ahead(ws, Hour(d), s))
HoursAt(d) ==
  /\ HoursFit(d, hours[d], calls[d], view[d][Hour(d)])
  /\ restarts = 0 =>
       \A h \in Hours : Copies(h, Ahead(calls[d], Hour(d), view[d][Hour(d)])) = wanted[d][h]

\* Both coordinates will be those of one place.
PlaceAt(d) ==
  restarts = 0 => M!Replay(calls[d], view[d])[<<d, "latitude">>]
                = M!Replay(calls[d], view[d])[<<d, "longitude">>]

\* The rows of a list of users of role r are current in v.
RowsFit(r, R, v) ==
  /\ Len(R) = Cardinality(Members(v, r))
  /\ DOMAIN R = 1 .. Len(R) /\ R = [i \in DOMAIN R |-> R[i]]
  /\ \A i \in DOMAIN R : \E u \in Members(v, r) : R[i] = RecordOf(v, u)
ListAt(d) ==
  /\ list[d] = [role |-> list[d].role, rows |-> list[d].rows]
  /\ list[d].role \in {NoRole, Elder, Volunteer}
  /\ list[d].role = NoRole => list[d].rows = <<>>
  /\ list[d].role # NoRole => RowsFit(list[d].role, list[d].rows, view[d])
  /\ page[d] \notin {"list", "comments"} => list[d] = NoList
  /\ offers[d] \subseteq User \X Hours

CommentsAt(d) ==
  /\ shown[d] = [on |-> shown[d].on, rows |-> shown[d].rows]
  /\ page[d] # "comments" => shown[d] = NoComments
  /\ page[d] = "comments" => \E u \in User : shown[d].on = {u}
  /\ shown[d].rows \in Seq(User)
  /\ \A u \in shown[d].on : IsSuffix(view[d][<<u, "comments">>], shown[d].rows)

LocalAt(d) == /\ AccountAt(d) /\ RecordAt(d) /\ CallsAt(d) /\ HoursAt(d)
              /\ PlaceAt(d) /\ ListAt(d) /\ CommentsAt(d)

PerDevice == /\ page = [d \in Device |-> page[d]] /\ hours = [d \in Device |-> hours[d]]
             /\ list = [d \in Device |-> list[d]] /\ shown = [d \in Device |-> shown[d]]
             /\ offers = [d \in Device |-> offers[d]] /\ calls = [d \in Device |-> calls[d]]
             /\ geocoding = [d \in Device |-> geocoding[d]]
             /\ names = [d \in Device |-> names[d]] /\ picked = [d \in Device |-> picked[d]]
             /\ pressed = [d \in Device |-> pressed[d]]
             /\ members \subseteq User /\ requests \subseteq User \X AnyRole
             /\ wanted \in [Device -> [Hours -> Nat]]

DirInv == MirrorInv /\ PerDevice /\ \A d \in Device : LocalAt(d)
-----------------------------------------------------------------------------
(* Leaves and values.                                                      *)

LEMMA Values ==
  /\ \A u : /\ ValueOf(<<u, "role">>) = {Absent} \cup AnyRole
            /\ \A f \in Coordinate : ValueOf(<<u, f>>) = {Absent, 0} \cup Place
            /\ ValueOf(<<u, "freeHours">>) = Seq(Hours)
            /\ ValueOf(<<u, "comments">>) = Seq(User)
  /\ \A l \in Leaf : ValueOf(l) \subseteq Value
BY DEF ValueOf, Value, Coordinate

LEMMA Leaves ==
  /\ \A u \in User, f \in Field : <<u, f>> \in Leaf
  /\ \A l \in Leaf : l[1] \in User /\ l[2] \in Field /\ l = <<l[1], l[2]>>
  /\ Field = {"role", "latitude", "longitude", "freeHours", "comments"}
BY DEF Leaf, Field, Coordinate, ListField

LEMMA KnownTypes ==
  ASSUME NEW mem, NEW pick, NEW press,
         \A u \in User : pick[u] \in AnyRole /\ press[u] \subseteq Place,
         NEW l \in Leaf
  PROVE  /\ Known(l, mem, pick, press) \subseteq ValueOf(l)
         /\ Allowed(mem, pick, press)[l] = Known(l, mem, pick, press)
<1> SUFFICES Known(l, mem, pick, press) \subseteq ValueOf(l)
  BY DEF Allowed
<1>1. PICK u \in User, f \in Field : l = <<u, f>>
  BY Leaves
<1>2. Blank[<<u, "role">>] \in {Absent} \cup AnyRole
  <2>1. <<u, "role">> \in Leaf
    BY Leaves
  <2>2. u \notin Newcomers => AccountOf(u, Role[u])[<<u, "role">>] = Role[u] /\ Role[u] \in AnyRole
    BY PeopleAssumption, Leaves DEF AccountOf
  <2> QED
    BY <2>1, <2>2 DEF Blank, ListField
<1>3. l[1] = u /\ l[2] = f
  BY <1>1
<1>4. CASE f = "role"
  <2>1. Known(l, mem, pick, press) = {Blank[l]} \cup {pick[x] : x \in {u} \cap mem}
    BY <1>3, <1>4 DEF Known
  <2>2. ValueOf(l) = {Absent} \cup AnyRole
    BY <1>1, <1>4, Values
  <2> QED
    BY <1>1, <1>2, <1>4, <2>1, <2>2
<1>5. CASE f # "role"
  <2>1. CASE f \in Coordinate
    <3>1. Known(l, mem, pick, press) = {Absent, 0} \cup press[u]
      BY <1>3, <1>5, <2>1 DEF Known
    <3> QED
      BY <1>1, <2>1, <3>1, Values
  <2>2. CASE f \notin Coordinate
    BY <1>3, <1>5, <2>2 DEF Known
  <2> QED
    BY <2>1, <2>2
<1> QED
  BY <1>4, <1>5

LEMMA BlankKnown ==
  ASSUME NEW mem, NEW pick, NEW press, NEW l \in Leaf
  PROVE  /\ Blank[l] \in Allowed(mem, pick, press)[l]
         /\ Blank[l] \in ValueOf(l)
<1>1. PICK u \in User, f \in Field : l = <<u, f>>
  BY Leaves
<1>2. PICK e : e = <<>>
  OBVIOUS
<1>3. e \in Seq(Hours) /\ e \in Seq(User)
  BY <1>2, EmptySeq
<1>4. Blank[l] = IF u \in Newcomers THEN IF f \in ListField THEN e ELSE Absent
                 ELSE IF f = "freeHours" THEN OnRecord[u] ELSE AccountOf(u, Role[u])[l]
  BY <1>1, <1>2 DEF Blank
<1>5. AccountOf(u, Role[u])[l] = IF f = "role" THEN Role[u]
                                 ELSE IF f \in ListField THEN e
                                 ELSE IF Role[u] = Volunteer THEN 0 ELSE Absent
  BY <1>1, <1>2 DEF AccountOf
<1>6. u \notin Newcomers => Role[u] \in AnyRole /\ OnRecord[u] \in Seq(Hours)
  BY PeopleAssumption
<1>7. Blank[l] \in ValueOf(l) /\ (f \in Coordinate => Blank[l] \in {Absent, 0})
  BY <1>1, <1>3, <1>4, <1>5, <1>6, Values, Leaves DEF ListField, Coordinate
<1>8. Allowed(mem, pick, press)[l] = Known(l, mem, pick, press)
  BY DEF Allowed
<1>9. Blank[l] \in Known(l, mem, pick, press)
  BY <1>1, <1>7 DEF Known
<1> QED
  BY <1>7, <1>8, <1>9

\* The tree has values in it, and the limits are limits.
LEMMA MirrorAssumptions ==
  /\ Blank \in [Leaf -> Value] /\ [d \in Device |-> Leaf] \in [Device -> SUBSET Leaf]
  /\ MaxPending \in Nat /\ MaxInbox \in Nat /\ MaxReconnects \in Nat /\ MaxRestarts \in Nat
<1>1. \A l \in Leaf : Blank[l] \in Value
  BY BlankKnown, Values
<1>2. Blank \in [Leaf -> Value]
  BY <1>1 DEF Blank
<1> QED
  BY <1>2, LimitAssumption

\* Nothing is withdrawn from what may be known, or from who may write it.
LEMMA KnownGrows ==
  ASSUME NEW mem, NEW pick, NEW press, NEW mem2, NEW pick2, NEW press2,
         mem \subseteq mem2, \A u \in mem : pick2[u] = pick[u],
         \A u \in User : press[u] \subseteq press2[u]
  PROVE  /\ \A l \in Leaf : Allowed(mem, pick, press)[l] \subseteq Allowed(mem2, pick2, press2)[l]
         /\ \A c \in Device : Issued(mem, pick)[c] \subseteq Issued(mem2, pick2)[c]
<1>1. ASSUME NEW l \in Leaf
      PROVE  Allowed(mem, pick, press)[l] \subseteq Allowed(mem2, pick2, press2)[l]
  <2>1. l[1] \in User
    BY Leaves
  <2>2. Known(l, mem, pick, press) \subseteq Known(l, mem2, pick2, press2)
    BY <2>1 DEF Known
  <2> QED
    BY <2>2 DEF Allowed
<1>2. \A c \in Device : Issued(mem, pick)[c] \subseteq Issued(mem2, pick2)[c]
  BY DEF Issued
<1> QED
  BY <1>1, <1>2

LEMMA SyncActions ==
  /\ Sync!Init <=> M!Init
  /\ \A d, w : Sync!LocalWrite(d, w) <=> M!LocalWrite(d, w)
  /\ \A d : Sync!Commit(d) <=> M!Commit(d)
  /\ \A d : Sync!Deliver(d) <=> M!Deliver(d)
  /\ \A d : Sync!Restart(d) <=> M!Restart(d)
<1>1. Sync!Init <=> M!Init
  BY DEF Sync!Init, M!Init
<1>2. \A d, w : Sync!LocalWrite(d, w) <=> M!LocalWrite(d, w)
  BY DEF Sync!LocalWrite, M!LocalWrite, Sync!Mirror, M!Mirror, Sync!Overlay, M!Overlay
<1>3. \A d : Sync!Commit(d) <=> M!Commit(d)
  BY DEF Sync!Commit, M!Commit, Sync!Overlay, M!Overlay, Sync!Seen, M!Seen
<1>4. \A d : Sync!Deliver(d) <=> M!Deliver(d)
  BY DEF Sync!Deliver, M!Deliver, Sync!Seen, M!Seen, Sync!Shadowed, M!Shadowed,
     Sync!Unsent, M!Unsent, Sync!Touching, M!Touching, Sync!Echo, M!Echo, Sync!Coming, M!Coming
<1>5. \A d : Sync!Restart(d) <=> M!Restart(d)
  BY DEF Sync!Restart, M!Restart, Sync!Mirror, M!Mirror
<1> QED
  BY <1>1, <1>2, <1>3, <1>4, <1>5

\* A device shows all it knows.
LEMMA MirrorAll ==
  ASSUME NEW d \in Device, NEW data \in [Leaf -> Value]
  PROVE  M!Mirror(d, data) = data
BY DEF M!Mirror

-----------------------------------------------------------------------------
(* A step of device d leaves the others alone, and nothing is taken back of *)
(* what was picked and pressed.                                            *)

StepOf(d) ==
  /\ \A c \in Device \ {d} :
       /\ page'[c] = page[c] /\ hours'[c] = hours[c] /\ list'[c] = list[c]
       /\ shown'[c] = shown[c] /\ offers'[c] = offers[c] /\ calls'[c] = calls[c]
       /\ geocoding'[c] = geocoding[c] /\ names'[c] = names[c] /\ picked'[c] = picked[c]
       /\ pressed'[c] = pressed[c] /\ wanted'[c] = wanted[c] /\ view'[c] = view[c]
       /\ c \in members' <=> c \in members
       /\ \A r : <<c, r>> \in requests' <=> <<c, r>> \in requests
  /\ restarts' = 0 => restarts = 0

HistoryGrows == /\ members \subseteq members'
                /\ \A u \in members : picked'[u] = picked[u]
                /\ \A u \in User : pressed[u] \subseteq pressed'[u]

\* What the mirrors do in a step.
SyncStep ==
  \/ \E d \in Device, w \in M!WritesOf(Allowed(members', picked', pressed')) :
       w \in Issued(members', picked')[d] /\ Sync!LocalWrite(d, w)
  \/ \E d \in Device : Sync!Commit(d) \/ Sync!Deliver(d) \/ Sync!Restart(d)
  \/ UNCHANGED syncVars

LEMMA OthersKeep ==
  ASSUME NEW d \in Device, StepOf(d), NEW c \in Device \ {d}, LocalAt(c)
  PROVE  LocalAt(c)'
<1>1. /\ page'[c] = page[c] /\ hours'[c] = hours[c] /\ list'[c] = list[c]
      /\ shown'[c] = shown[c] /\ offers'[c] = offers[c] /\ calls'[c] = calls[c]
      /\ geocoding'[c] = geocoding[c] /\ names'[c] = names[c] /\ picked'[c] = picked[c]
      /\ pressed'[c] = pressed[c] /\ wanted'[c] = wanted[c] /\ view'[c] = view[c]
      /\ c \in members' <=> c \in members
      /\ \A r : <<c, r>> \in requests' <=> <<c, r>> \in requests
      /\ restarts' = 0 => restarts = 0
  BY DEF StepOf
<1>2. AccountAt(c)'
  BY <1>1 DEF LocalAt, AccountAt
<1>3. RecordAt(c)'
  BY <1>1 DEF LocalAt, RecordAt, RoleOf
<1>4. CallsAt(c)'
  BY <1>1 DEF LocalAt, CallsAt
<1>5. HoursAt(c)'
  BY <1>1 DEF LocalAt, HoursAt
<1>6. PlaceAt(c)'
  BY <1>1 DEF LocalAt, PlaceAt
<1>7. ListAt(c)'
  BY <1>1 DEF LocalAt, ListAt
<1>8. CommentsAt(c)'
  BY <1>1 DEF LocalAt, CommentsAt
<1> QED
  BY <1>2, <1>3, <1>4, <1>5, <1>6, <1>7, <1>8 DEF LocalAt

LEMMA MirrorStep ==
  ASSUME MirrorInv, HistoryGrows, SyncStep
  PROVE  MirrorInv'
<1>1. PICK mem, pick, press : mem = members' /\ pick = picked' /\ press = pressed'
  OBVIOUS
<1>2. PICK K, P : K = Allowed(mem, pick, press) /\ P = Issued(mem, pick)
  OBVIOUS
<1>3. PICK K0, P0 : K0 = Allowed(members, picked, pressed) /\ P0 = Issued(members, picked)
  OBVIOUS
<1>4. /\ \A l \in Leaf : K0[l] \subseteq K[l]
      /\ \A c \in Device : P0[c] \subseteq P[c]
      /\ \A l \in Leaf : Blank[l] \in K[l]
  BY <1>1, <1>2, <1>3, KnownGrows, BlankKnown DEF HistoryGrows
<1>5. M!IInv /\ M!TypeOK
  BY DEF MirrorInv, M!IInv
<1>6. M!HoldsOnly(K) /\ M!SentOnly(P)
  <2>1. M!HoldsOnly(K0) /\ M!SentOnly(P0)
    BY <1>3 DEF MirrorInv
  <2>2. M!HoldsOnly(K)
    BY <1>4, <2>1, MirrorAssumptions, M!HoldsOnlyGrows
  <2>3. M!SentOnly(P)
    BY <1>4, <2>1, MirrorAssumptions, M!SentOnlyGrows
  <2> QED
    BY <2>2, <2>3
<1>7. M!IInv' /\ M!HoldsOnly(K)' /\ M!SentOnly(P)'
  <2>1. ASSUME NEW d \in Device, NEW w \in M!WritesOf(K), w \in P[d], Sync!LocalWrite(d, w)
        PROVE  M!IInv' /\ M!HoldsOnly(K)' /\ M!SentOnly(P)'
    <3>1. M!LocalWrite(d, w) /\ w \in M!Write
      BY <2>1, SyncActions DEF M!WritesOf
    <3>2. M!HoldsOnly(K)'
      BY <1>4, <1>5, <1>6, <3>1, MirrorAssumptions, M!LocalWriteHoldsOnly
    <3>3. M!IInv'
      BY <1>5, <3>1, MirrorAssumptions, M!LocalWriteKeeps
    <3>4. M!SentOnly(P)'
      BY <1>5, <1>6, <2>1, <3>1, MirrorAssumptions, M!StepSentOnly
    <3> QED
      BY <3>2, <3>3, <3>4
  <2>2. ASSUME NEW d \in Device, Sync!Commit(d)
        PROVE  M!IInv' /\ M!HoldsOnly(K)' /\ M!SentOnly(P)'
    <3>1. M!Commit(d)
      BY <2>2, SyncActions
    <3>2. M!SentOnly(P)'
      BY <1>5, <1>6, <3>1, MirrorAssumptions, M!StepSentOnly
    <3> QED
      BY <1>5, <1>6, <3>1, <3>2, MirrorAssumptions, M!CommitHoldsOnly, M!CommitKeeps
  <2>3. ASSUME NEW d \in Device, Sync!Deliver(d)
        PROVE  M!IInv' /\ M!HoldsOnly(K)' /\ M!SentOnly(P)'
    <3>1. M!Deliver(d)
      BY <2>3, SyncActions
    <3>2. M!SentOnly(P)'
      BY <1>5, <1>6, <3>1, MirrorAssumptions, M!StepSentOnly
    <3> QED
      BY <1>5, <1>6, <3>1, <3>2, MirrorAssumptions, M!DeliverHoldsOnly, M!DeliverKeeps
  <2>4. ASSUME NEW d \in Device, Sync!Restart(d)
        PROVE  M!IInv' /\ M!HoldsOnly(K)' /\ M!SentOnly(P)'
    <3>1. M!Restart(d)
      BY <2>4, SyncActions
    <3>2. M!SentOnly(P)'
      BY <1>5, <1>6, <3>1, MirrorAssumptions, M!StepSentOnly
    <3> QED
      BY <1>4, <1>5, <1>6, <3>1, <3>2, MirrorAssumptions, M!RestartHoldsOnly, M!RestartKeeps
  <2>5. CASE UNCHANGED syncVars
    <3>1. M!HoldsOnly(K)' /\ M!SentOnly(P)'
      BY <1>6, <2>5 DEF syncVars, M!HoldsOnly, M!SentOnly
    <3>2. UNCHANGED M!syncVars
      BY <2>5 DEF syncVars, M!syncVars
    <3>3. M!IInv'
      BY <1>5, <3>2, MirrorAssumptions, M!NextKeeps
    <3> QED
      BY <3>1, <3>3
  <2> QED
    BY <1>1, <1>2, <2>1, <2>2, <2>3, <2>4, <2>5 DEF SyncStep
<1>8. M!HoldsOnly(Allowed(members, picked, pressed))' /\ M!SentOnly(Issued(members, picked))'
  <2>1. K = Allowed(members, picked, pressed)' /\ P = Issued(members, picked)'
    BY <1>1, <1>2
  <2>2. /\ \A l \in Leaf : server'[l] \in K[l]
        /\ \A c \in Device, l \in Leaf : view'[c][l] \in K[l]
    BY <1>7 DEF M!HoldsOnly
  <2>3. M!HoldsOnly(Allowed(members, picked, pressed))'
    BY <1>7, <2>1 DEF M!HoldsOnly
  <2>4. M!SentOnly(Issued(members, picked))'
    BY <1>7, <2>1 DEF M!SentOnly
  <2> QED
    BY <2>3, <2>4
<1> QED
  BY <1>7, <1>8 DEF MirrorInv

LEMMA StepKeeps ==
  ASSUME DirInv, NEW d \in Device, HistoryGrows, SyncStep, StepOf(d), PerDevice', LocalAt(d)'
  PROVE  DirInv'
<1>1. \A c \in Device : LocalAt(c)'
  <2>1. ASSUME NEW c \in Device \ {d}
        PROVE  LocalAt(c)'
    BY OthersKeep DEF DirInv
  <2> QED
    BY <2>1
<1>2. MirrorInv'
  BY MirrorStep DEF DirInv
<1> QED
  BY <1>1, <1>2 DEF DirInv

-----------------------------------------------------------------------------
(* What the observers make of a change.                                    *)

\* What devices show is known, and of the type of its leaf.
LEMMA ShownTypes ==
  ASSUME DirInv
  PROVE  /\ view \in [Device -> [Leaf -> Value]] /\ server \in [Leaf -> Value]
         /\ \A l \in Leaf : /\ server[l] \in ValueOf(l)
                            /\ server[l] \in Known(l, members, picked, pressed)
         /\ \A d \in Device, l \in Leaf : /\ view[d][l] \in ValueOf(l)
                                          /\ view[d][l] \in Known(l, members, picked, pressed)
<1>1. \A u \in User : picked[u] \in AnyRole /\ pressed[u] \subseteq Place
  BY DEF DirInv, LocalAt, AccountAt, CallsAt, Device
<1>2. PICK mem, pick, press : mem = members /\ pick = picked /\ press = pressed
  OBVIOUS
<1>3. \A l \in Leaf : /\ Known(l, mem, pick, press) \subseteq ValueOf(l)
                      /\ Allowed(mem, pick, press)[l] = Known(l, mem, pick, press)
  BY <1>1, <1>2, KnownTypes
<1>4. /\ \A l \in Leaf : server[l] \in Allowed(mem, pick, press)[l]
      /\ \A d \in Device, l \in Leaf : view[d][l] \in Allowed(mem, pick, press)[l]
  BY <1>2 DEF DirInv, MirrorInv, M!HoldsOnly
<1>5. view \in [Device -> [Leaf -> Value]] /\ server \in [Leaf -> Value]
  BY DEF DirInv, MirrorInv, M!IInv, M!TypeOK
<1> QED
  BY <1>2, <1>3, <1>4, <1>5

\* A user's role, once there is one, stays.
RolesStay(old, new) ==
  \A u \in User : Exists(old, u) => RoleOf(new, u) = RoleOf(old, u)

LEMMA RowsAfterFit ==
  ASSUME NEW r \in {Elder, Volunteer}, NEW R, NEW old, NEW new,
         RowsFit(r, R, old), RolesStay(old, new)
  PROVE  RowsFit(r, RowsAfter(r, R, old, new), new)
<1>1. PICK changed, added, last, first, more :
        /\ changed = {u \in Members(new, r) :
                        Exists(old, u) /\ RecordOf(old, u) # RecordOf(new, u)}
        /\ added = {u \in Members(new, r) : ~Exists(old, u)}
        /\ last = (CHOOSE u \in changed : TRUE)
        /\ first = (IF changed = {} THEN R ELSE [i \in DOMAIN R |-> RecordOf(new, last)])
        /\ more = [i \in DOMAIN SetToSeq(added) |-> RecordOf(new, SetToSeq(added)[i])]
  OBVIOUS
<1>2. RowsAfter(r, R, old, new) = first \o more
  BY <1>1 DEF RowsAfter
<1>3. PICK S, T, C : S = Members(old, r) /\ T = Members(new, r)
                     /\ C = {RecordOf(new, u) : u \in T}
  OBVIOUS
<1>4. r # Absent
  BY PeopleAssumption DEF AnyRole
<1>5. S \subseteq User /\ T \subseteq User /\ T = S \cup added /\ S \cap added = {}
      /\ (\A u \in S : Exists(old, u))
  BY <1>1, <1>3, <1>4 DEF Members, RolesStay, Exists
<1>6. IsFiniteSet(S) /\ IsFiniteSet(T) /\ IsFiniteSet(added)
  BY <1>5, PeopleAssumption, FS_Subset
<1>7. Cardinality(T) = Cardinality(S) + Cardinality(added)
      /\ Cardinality(S) \in Nat /\ Cardinality(added) \in Nat
  <2>1. Cardinality(S) \in Nat /\ Cardinality(added) \in Nat
    BY <1>6, FS_CardinalityType
  <2>2. Cardinality(T) = Cardinality(S) + Cardinality(added) - Cardinality({})
    BY <1>5, <1>6, FS_Union
  <2> QED
    BY <2>1, <2>2, FS_EmptySet
<1>8. PICK n : n = Cardinality(S)
  OBVIOUS
<1>9. /\ Len(R) = n /\ DOMAIN R = 1 .. n
      /\ \A i \in 1 .. n : \E u \in S : R[i] = RecordOf(old, u)
  BY <1>3, <1>8 DEF RowsFit
<1>10. DOMAIN first = 1 .. n /\ \A i \in 1 .. n : first[i] \in C
  <2>1. CASE changed = {}
    <3>1. \A u \in S : RecordOf(old, u) = RecordOf(new, u)
      BY <1>1, <1>3, <1>5, <2>1
    <3>2. first = R
      BY <1>1, <2>1
    <3> QED
      BY <1>3, <1>5, <1>9, <3>1, <3>2
  <2>2. CASE changed # {}
    <3>1. last \in T
      BY <1>1, <1>3, <2>2
    <3>2. first = [i \in 1 .. n |-> RecordOf(new, last)]
      BY <1>1, <1>9, <2>2
    <3> QED
      BY <1>3, <3>1, <3>2
  <2> QED
    BY <2>1, <2>2
<1>11. first \in Seq(C) /\ Len(first) = n
  <2>1. first = [i \in 1 .. n |-> first[i]]
    <3>1. first = [i \in DOMAIN first |-> first[i]]
      <4>1. CASE changed = {}
        <5>1. R = [i \in DOMAIN R |-> R[i]]
          BY DEF RowsFit
        <5> QED
          BY <1>1, <4>1, <5>1
      <4>2. CASE changed # {}
        BY <1>1, <4>2
      <4> QED
        BY <4>1, <4>2
    <3> QED
      BY <1>10, <3>1
  <2>2. first \in [1 .. n -> C]
    BY <1>10, <2>1
  <2> QED
    BY <1>7, <1>8, <2>2
<1>12. more \in Seq(C) /\ Len(more) = Cardinality(added)
  <2>1. PICK s, m : s = SetToSeq(added) /\ m = Cardinality(added)
    OBVIOUS
  <2>2. s \in [1 .. m -> added] /\ m \in Nat
    BY <1>6, <2>1, SetToSeqType
  <2>3. more = [i \in 1 .. m |-> RecordOf(new, s[i])]
    BY <1>1, <2>1, <2>2
  <2>4. \A i \in 1 .. m : RecordOf(new, s[i]) \in C
    BY <1>3, <1>5, <2>2
  <2>5. more \in [1 .. m -> C]
    BY <2>3, <2>4
  <2> QED
    BY <2>1, <2>2, <2>5
<1>13. PICK Q : Q = first \o more
  OBVIOUS
<1>14. Q \in Seq(C) /\ Len(Q) = Cardinality(T)
  BY <1>7, <1>8, <1>11, <1>12, <1>13, ConcatProperties
<1>15. Len(Q) \in Nat /\ DOMAIN Q = 1 .. Len(Q) /\ Q = [i \in DOMAIN Q |-> Q[i]]
       /\ \A i \in DOMAIN Q : Q[i] \in C
  BY <1>14
<1>16. \A i \in DOMAIN Q : \E u \in T : Q[i] = RecordOf(new, u)
  BY <1>3, <1>15
<1> QED
  BY <1>2, <1>3, <1>13, <1>14, <1>15, <1>16 DEF RowsFit

\* The lists of users and of comments stay current, whatever is heard.
LEMMA ListsHear ==
  ASSUME DirInv, NEW d \in Device, Observe(d), UNCHANGED <<page, offers>>,
         RolesStay(view[d], view'[d]),
         \A l \in Leaf : view'[d][l] \in ValueOf(l)
  PROVE  /\ ListAt(d)' /\ CommentsAt(d)'
         /\ \A c \in Device \ {d} : list'[c] = list[c] /\ shown'[c] = shown[c]
         /\ list' = [c \in Device |-> list'[c]] /\ shown' = [c \in Device |-> shown'[c]]
<1>1. PICK old, new : old = view[d] /\ new = view'[d]
  OBVIOUS
<1>2. /\ list = [c \in Device |-> list[c]] /\ shown = [c \in Device |-> shown[c]]
      /\ ListAt(d) /\ CommentsAt(d)
  BY DEF DirInv, PerDevice, LocalAt
<1>3. PICK L, R, r : L = list[d] /\ R = L.rows /\ r = L.role
  OBVIOUS
<1>4. PICK Q : Q = IF r = NoRole THEN R ELSE RowsAfter(r, R, old, new)
  OBVIOUS
<1>5. list' = [list EXCEPT ![d].rows = Q]
  BY <1>1, <1>3, <1>4 DEF Observe
<1>6. L = [role |-> r, rows |-> R] /\ r \in {NoRole, Elder, Volunteer}
      /\ (r # NoRole => RowsFit(r, R, old)) /\ (r = NoRole => R = <<>>)
      /\ (page[d] \notin {"list", "comments"} => L = NoList)
  BY <1>1, <1>2, <1>3 DEF ListAt
<1>7. list'[d] = [role |-> r, rows |-> Q]
  <2>1. list'[d] = [L EXCEPT !.rows = Q]
    BY <1>2, <1>3, <1>5
  <2> QED
    BY <1>6, <2>1
<1>8. ListAt(d)'
  <2>1. r # NoRole => RowsFit(r, Q, new)
    <3>1. SUFFICES ASSUME r # NoRole PROVE RowsFit(r, Q, new)
      OBVIOUS
    <3>2. r \in {Elder, Volunteer} /\ RowsFit(r, R, old) /\ RolesStay(old, new)
      BY <1>1, <1>6, <3>1
    <3>3. RowsFit(r, RowsAfter(r, R, old, new), new)
      BY <3>2, RowsAfterFit
    <3> QED
      BY <1>4, <3>1, <3>3
  <2>2. list'[d].role = r /\ list'[d].rows = Q
        /\ list'[d] = [role |-> list'[d].role, rows |-> list'[d].rows]
    BY <1>7
  <2>3. page'[d] \notin {"list", "comments"} => list'[d] = NoList
    <3>1. page'[d] \notin {"list", "comments"} => r = NoRole /\ R = <<>>
      BY <1>6 DEF NoList
    <3> QED
      BY <1>4, <1>7, <3>1 DEF NoList
  <2>4. offers'[d] \subseteq User \X Hours
    BY <1>2 DEF ListAt
  <2>5. r # NoRole => RowsFit(list'[d].role, list'[d].rows, view'[d])
    BY <1>1, <2>1, <2>2
  <2>6. r = NoRole => Q = <<>>
    BY <1>4, <1>6
  <2> QED
    BY <1>6, <2>2, <2>3, <2>4, <2>5, <2>6 DEF ListAt
<1>9. PICK W, T, o : W = shown[d] /\ T = W.rows /\ o = W.on
  OBVIOUS
<1>10. PICK u : u = CHOOSE x \in o : TRUE
  OBVIOUS
<1>11. PICK V : V = IF o = {} THEN T ELSE CommentsAfter(u, T, old, new)
  OBVIOUS
<1>12. shown' = [shown EXCEPT ![d].rows = V]
  BY <1>1, <1>9, <1>10, <1>11 DEF Observe
<1>13. /\ W = [on |-> o, rows |-> T] /\ T \in Seq(User)
       /\ (page[d] # "comments" => W = NoComments)
       /\ (page[d] = "comments" => \E x \in User : o = {x})
       /\ \A x \in o : IsSuffix(old[<<x, "comments">>], T)
  BY <1>1, <1>2, <1>9 DEF CommentsAt
<1>14. shown'[d] = [on |-> o, rows |-> V]
  <2>1. shown'[d] = [W EXCEPT !.rows = V]
    BY <1>2, <1>9, <1>12
  <2> QED
    BY <1>13, <2>1
<1>15. V \in Seq(User) /\ \A x \in o : IsSuffix(new[<<x, "comments">>], V)
  <2>1. CASE o = {}
    BY <1>11, <1>13, <2>1
  <2>2. CASE o # {}
    <3>1. o = {u} /\ u \in User
      <4>1. page[d] = "comments"
        BY <1>13, <2>2 DEF NoComments
      <4> QED
        BY <1>10, <1>13, <4>1
    <3>2. PICK l, s : l = <<u, "comments">> /\ s = new[l]
      OBVIOUS
    <3>3. l \in Leaf /\ s \in Seq(User)
      <4>1. l \in Leaf
        BY <3>1, <3>2, Leaves
      <4>2. ValueOf(l) = Seq(User)
        BY <3>2, Values
      <4> QED
        BY <1>1, <3>2, <4>1, <4>2
    <3>4. V = IF old[l] = s THEN T ELSE T \o s
      BY <1>11, <2>2, <3>2 DEF CommentsAfter
    <3>5. T \o s \in Seq(User) /\ IsSuffix(s, T \o s)
      BY <1>13, <3>3, ConcatProperties, SuffixOfConcat
    <3>6. V \in Seq(User)
      BY <1>13, <3>4, <3>5
    <3>7. IsSuffix(s, V)
      BY <1>13, <3>1, <3>2, <3>4, <3>5
    <3> QED
      BY <3>1, <3>2, <3>6, <3>7
  <2> QED
    BY <2>1, <2>2
<1>16. CommentsAt(d)'
  <2>1. shown'[d].on = o /\ shown'[d].rows = V
        /\ shown'[d] = [on |-> shown'[d].on, rows |-> shown'[d].rows]
    BY <1>14
  <2>2. page'[d] # "comments" => shown'[d] = NoComments
    <3>1. page'[d] # "comments" => o = {} /\ T = <<>>
      BY <1>13 DEF NoComments
    <3> QED
      BY <1>11, <1>14, <3>1 DEF NoComments
  <2> QED
    BY <1>1, <1>13, <1>15, <2>1, <2>2 DEF CommentsAt
<1> QED
  BY <1>2, <1>5, <1>8, <1>12, <1>16

\* The profile table, when its list changes by what one tap changes.
LEMMA RowsFollow ==
  ASSUME NEW d, NEW old, NEW new, NEW s \in Seq(Hours), NEW t \in Seq(Hours),
         old[Hour(d)] = s, new[Hour(d)] = t, OneTap(s, t),
         NEW R \in Seq(Hours \cup {BlankRow}),
         \A h \in Hours : Copies(h, R) =< Copies(h, s) /\ Copies(h, R) =< Copies(h, t)
  PROVE  /\ HoursAfter(d, R, old, new) \in Seq(Hours \cup {BlankRow})
         /\ \A h \in Hours : Copies(h, HoursAfter(d, R, old, new)) =< Copies(h, t)
         /\ s = t => HoursAfter(d, R, old, new) = R
<1>1. PICK A, Q, was, now, k, front, more :
        /\ A = Hours \cup {BlankRow}
        /\ Q = HoursAfter(d, R, old, new)
        /\ was = Len(s) /\ now = Len(t)
        /\ k = 1 + (IF was > now THEN was - now ELSE 0)
        /\ front = SubSeq(R, k, Len(R))
        /\ more = SubSeq(t, was + 1, now)
  OBVIOUS
<1>2. Q = front \o more
  BY <1>1 DEF HoursAfter, Hour
<1>3. R \in Seq(A) /\ Hours \subseteq A /\ was \in Nat /\ now \in Nat
  BY <1>1
<1>4. s \in Seq(A) /\ t \in Seq(A)
  BY <1>3, SeqMonotonic
<1>5. CASE t = s
  <2>1. was = now /\ k = 1
    BY <1>1, <1>3, <1>5
  <2>2. front = R /\ more = <<>>
    <3>1. front = R
      BY <1>1, <1>3, <2>1, SubSeqAll
    <3>2. SubSeq(t, now + 1, now) = <<>>
      BY <1>3, SubSeqBeyond
    <3> QED
      BY <1>1, <2>1, <3>1, <3>2
  <2>3. Q = R
    BY <1>2, <1>3, <2>2, ConcatEmptySeq
  <2> QED
    BY <1>1, <2>3
<1>6. CASE \E h \in Hours : t = Append(s, h)
  <2>1. PICK x \in Hours : t = Append(s, x)
    BY <1>6
  <2>2. now = was + 1 /\ t[now] = x /\ t # <<>> /\ k = 1
    BY <1>1, <1>3, <2>1
  <2>3. front = R
    BY <1>1, <1>3, <2>2, SubSeqAll
  <2>4. more = <<x>>
    <3>1. SubSeq(t, Len(t), Len(t)) = <<t[Len(t)]>>
      BY <2>2, SubSeqLast
    <3> QED
      BY <1>1, <2>2, <3>1
  <2>5. Q = Append(R, x)
    <3>1. Append(R, x) = R \o <<x>>
      BY <1>3, AppendIsConcat
    <3> QED
      BY <1>2, <2>3, <2>4, <3>1
  <2>6. Q \in Seq(A)
    BY <1>3, <2>5, AppendProperties
  <2>7. ASSUME NEW h \in Hours
        PROVE  Copies(h, Q) =< Copies(h, t)
    <3>1. Copies(h, Q) = IF h = x THEN Copies(h, R) + 1 ELSE Copies(h, R)
      BY <1>3, <2>5, CopiesAppend
    <3>2. Copies(h, t) = IF h = x THEN Copies(h, s) + 1 ELSE Copies(h, s)
      BY <2>1, CopiesAppend
    <3>3. Copies(h, R) \in Nat /\ Copies(h, s) \in Nat
      BY <1>3, <1>4, CopiesType
    <3> QED
      BY <3>1, <3>2, <3>3
  <2>8. s # t
    <3>1. was # now
      BY <1>3, <2>2
    <3> QED
      BY <1>1, <3>1
  <2> QED
    BY <1>1, <2>6, <2>7, <2>8
<1>7. CASE \E j \in DOMAIN s : t = RemoveAt(s, j)
  <2>1. PICK j \in DOMAIN s : t = RemoveAt(s, j)
    BY <1>7
  <2>2. was = now + 1
    <3>1. Len(t) = Len(s) - 1
      BY <2>1, CopiesRemoveAt
    <3> QED
      BY <1>1, <1>3, <3>1
  <2>3. k = 2
    BY <1>1, <1>3, <2>2
  <2>4. more = <<>>
    <3>1. PICK a, b : a = was + 1 /\ b = now
      OBVIOUS
    <3>2. a \in Int /\ b \in Int /\ b < a
      BY <1>3, <2>2, <3>1
    <3>3. SubSeq(t, a, b) = <<>>
      BY <3>2, SubSeqEmpty
    <3> QED
      BY <1>1, <3>1, <3>3
  <2>5. front \in Seq(A) /\ \A h \in Hours : Copies(h, front) =< Copies(h, R)
    BY <1>1, <1>3, <2>3, CopiesRest
  <2>6. Q = front
    BY <1>2, <2>4, <2>5, ConcatEmptySeq
  <2>7. ASSUME NEW h \in Hours
        PROVE  Copies(h, Q) =< Copies(h, t)
    <3>1. Copies(h, Q) \in Nat /\ Copies(h, R) \in Nat /\ Copies(h, t) \in Nat
      BY <1>3, <1>4, <2>5, <2>6, CopiesType
    <3>2. Copies(h, Q) =< Copies(h, R) /\ Copies(h, R) =< Copies(h, t)
      BY <2>5, <2>6
    <3> QED
      BY <3>1, <3>2
  <2>8. s # t
    <3>1. was # now
      BY <1>3, <2>2
    <3> QED
      BY <1>1, <3>1
  <2> QED
    BY <1>1, <2>5, <2>6, <2>7, <2>8
<1> QED
  BY <1>5, <1>6, <1>7 DEF OneTap

\* The rows of d after a change of what is on record that leaves no call before.
LEMMA HoursHear ==
  ASSUME DirInv, NEW d \in Device, Observe(d)
  PROVE  /\ hours' = [hours EXCEPT ![d] = HoursAfter(d, hours[d], view[d], view'[d])]
         /\ hours' = [c \in Device |-> hours'[c]]
         /\ \A c \in Device \ {d} : hours'[c] = hours[c]
         /\ view'[d][Hour(d)] = view[d][Hour(d)] => hours'[d] = hours[d]
<1>1. hours = [c \in Device |-> hours[c]]
  BY DEF DirInv, PerDevice
<1>2. hours' = [hours EXCEPT ![d] = HoursAfter(d, hours[d], view[d], view'[d])]
  BY DEF Observe
<1>3. ASSUME view'[d][Hour(d)] = view[d][Hour(d)]
      PROVE  hours'[d] = hours[d]
  <2>1. PICK s, R, old, new : s = view[d][Hour(d)] /\ R = hours[d] /\ old = view[d] /\ new = view'[d]
    OBVIOUS
  <2>2. Hour(d) \in Leaf /\ ValueOf(Hour(d)) = Seq(Hours)
    BY Leaves, Values DEF Hour, Device
  <2>3. s \in Seq(Hours)
    BY <2>1, <2>2, ShownTypes
  <2>4. R \in Seq(Hours \cup {BlankRow})
    BY <2>1 DEF DirInv, LocalAt, HoursAt, HoursFit
  <2>5. SubSeq(R, 1, Len(R)) = R
    BY <2>4, SubSeqAll
  <2>6. Len(s) \in Nat /\ SubSeq(s, Len(s) + 1, Len(s)) = <<>>
    BY <2>3, SubSeqBeyond
  <2>7. HoursAfter(d, R, old, new) = SubSeq(R, 1, Len(R)) \o SubSeq(s, Len(s) + 1, Len(s))
    <3>1. ~(Len(s) > Len(s)) /\ 1 + 0 = 1
      BY <2>6
    <3>2. old[Hour(d)] = s /\ new[Hour(d)] = s
      BY <1>3, <2>1
    <3> QED
      BY <3>1, <3>2 DEF HoursAfter, Hour
  <2>8. HoursAfter(d, R, old, new) = R
    BY <2>4, <2>5, <2>6, <2>7, ConcatEmptySeq
  <2> QED
    BY <1>1, <1>2, <2>1, <2>8
<1> QED
  BY <1>1, <1>2, <1>3

-----------------------------------------------------------------------------
(* The shape of a step of device d.                                        *)

Moves(f, g, d) == g = [c \in Device |-> g[c]] /\ \A c \in Device \ {d} : g[c] = f[c]

LEMMA Still ==
  ASSUME DirInv, NEW d \in Device
  PROVE  /\ page' = page => Moves(page, page', d)
         /\ hours' = hours => Moves(hours, hours', d)
         /\ list' = list => Moves(list, list', d)
         /\ shown' = shown => Moves(shown, shown', d)
         /\ offers' = offers => Moves(offers, offers', d)
         /\ calls' = calls => Moves(calls, calls', d)
         /\ geocoding' = geocoding => Moves(geocoding, geocoding', d)
         /\ names' = names => Moves(names, names', d)
         /\ picked' = picked => Moves(picked, picked', d)
         /\ pressed' = pressed => Moves(pressed, pressed', d)
         /\ wanted' = wanted => Moves(wanted, wanted', d) /\ wanted' \in [Device -> [Hours -> Nat]]
<1>1. wanted = [c \in Device |-> wanted[c]]
  BY DEF DirInv, PerDevice
<1> QED
  BY <1>1 DEF DirInv, PerDevice, Moves

LEMMA Changed ==
  ASSUME DirInv, NEW d \in Device, NEW e
  PROVE  /\ page' = [page EXCEPT ![d] = e] => Moves(page, page', d) /\ page'[d] = e
         /\ hours' = [hours EXCEPT ![d] = e] => Moves(hours, hours', d) /\ hours'[d] = e
         /\ list' = [list EXCEPT ![d] = e] => Moves(list, list', d) /\ list'[d] = e
         /\ shown' = [shown EXCEPT ![d] = e] => Moves(shown, shown', d) /\ shown'[d] = e
         /\ offers' = [offers EXCEPT ![d] = e] => Moves(offers, offers', d) /\ offers'[d] = e
         /\ calls' = [calls EXCEPT ![d] = e] => Moves(calls, calls', d) /\ calls'[d] = e
         /\ geocoding' = [geocoding EXCEPT ![d] = e] =>
              Moves(geocoding, geocoding', d) /\ geocoding'[d] = e
         /\ names' = [names EXCEPT ![d] = e] => Moves(names, names', d) /\ names'[d] = e
         /\ picked' = [picked EXCEPT ![d] = e] => Moves(picked, picked', d) /\ picked'[d] = e
         /\ pressed' = [pressed EXCEPT ![d] = e] => Moves(pressed, pressed', d) /\ pressed'[d] = e
         /\ wanted' = [wanted EXCEPT ![d] = e] => Moves(wanted, wanted', d) /\ wanted'[d] = e
<1>1. ASSUME NEW f, NEW g, f = [c \in Device |-> f[c]], g = [f EXCEPT ![d] = e]
      PROVE  Moves(f, g, d) /\ g[d] = e
  BY <1>1 DEF Moves
<1>2. wanted = [c \in Device |-> wanted[c]]
  BY DEF DirInv, PerDevice
<1> QED
  BY <1>1, <1>2 DEF DirInv, PerDevice

LEMMA Assembled ==
  ASSUME DirInv, NEW d \in Device, HistoryGrows, SyncStep, restarts' = 0 => restarts = 0,
         Moves(page, page', d), Moves(hours, hours', d), Moves(list, list', d),
         Moves(shown, shown', d), Moves(offers, offers', d), Moves(calls, calls', d),
         Moves(geocoding, geocoding', d), Moves(names, names', d), Moves(picked, picked', d),
         Moves(pressed, pressed', d), Moves(wanted, wanted', d),
         wanted' \in [Device -> [Hours -> Nat]],
         \A c \in Device \ {d} : view'[c] = view[c],
         members' \in {members, members \cup {d}},
         requests' \subseteq User \X AnyRole,
         \A c \in Device \ {d} : \A r : <<c, r>> \in requests' <=> <<c, r>> \in requests,
         AccountAt(d)', RecordAt(d)', CallsAt(d)', HoursAt(d)', PlaceAt(d)', ListAt(d)',
         CommentsAt(d)'
  PROVE  DirInv'
<1>1. StepOf(d)
  BY DEF StepOf, Moves
<1>2. PerDevice'
  <2>1. members' \subseteq User
    BY DEF DirInv, PerDevice, Device
  <2> QED
    BY <2>1 DEF PerDevice, Moves
<1>3. LocalAt(d)'
  BY DEF LocalAt
<1> QED
  BY <1>1, <1>2, <1>3, StepKeeps

LEMMA SameHistory ==
  ASSUME UNCHANGED <<members, picked, pressed>>
  PROVE  HistoryGrows
BY DEF HistoryGrows

-----------------------------------------------------------------------------
(* Going from screen to screen.                                            *)

LEMMA ScreenKeeps ==
  ASSUME DirInv, NEW d \in Device,
         UNCHANGED <<syncVars, hours, calls, geocoding, taps, auth, history>>,
         Moves(page, page', d), Moves(list, list', d), Moves(shown, shown', d),
         Moves(offers, offers', d),
         page[d] # "login", page'[d] \in {"organiser", "list", "comments", "activity"},
         ListAt(d)', CommentsAt(d)'
  PROVE  DirInv' /\ SyncStep
<1>1. /\ UNCHANGED <<members, names, requests, picked, wanted, pressed, view, restarts>>
      /\ UNCHANGED <<hours, calls, geocoding, syncVars>>
  BY DEF auth, history, syncVars
<1>2. HistoryGrows /\ SyncStep
  BY <1>1, SameHistory DEF SyncStep
<1>3. LocalAt(d) /\ PerDevice
  BY DEF DirInv
<1>4. AccountAt(d)'
  BY <1>1, <1>3 DEF LocalAt, AccountAt
<1>5. RecordAt(d)'
  BY <1>1, <1>3 DEF LocalAt, RecordAt
<1>6. CallsAt(d)'
  BY <1>1, <1>3 DEF LocalAt, CallsAt
<1>7. HoursAt(d)'
  BY <1>1, <1>3 DEF LocalAt, HoursAt
<1>8. PlaceAt(d)'
  BY <1>1, <1>3 DEF LocalAt, PlaceAt
<1>9. requests' \subseteq User \X AnyRole /\ members' \in {members, members \cup {d}}
  BY <1>1, <1>3 DEF PerDevice
<1> QED
  BY <1>1, <1>2, <1>4, <1>5, <1>6, <1>7, <1>8, <1>9, Still, Assembled

LEMMA OpenListKeeps ==
  ASSUME DirInv, NEW o \in Device, NEW r \in {Elder, Volunteer}, OpenList(o, r)
  PROVE  DirInv' /\ SyncStep
<1>1. /\ page[o] = "organiser" /\ page' = [page EXCEPT ![o] = "list"]
      /\ UNCHANGED <<syncVars, hours, calls, geocoding, taps, auth, history>>
      /\ UNCHANGED <<shown, offers>> /\ view' = view
  BY DEF OpenList, syncVars
<1>2. PICK v, s : v = view[o] /\ s = SetToSeq(Members(v, r))
  OBVIOUS
<1>3. PICK R : R = [i \in DOMAIN s |-> RecordOf(v, s[i])]
  OBVIOUS
<1>4. list' = [list EXCEPT ![o] = [role |-> r, rows |-> R]]
  BY <1>2, <1>3 DEF OpenList
<1>5. RowsFit(r, R, v)
  <2>1. PICK T, n : T = Members(v, r) /\ n = Cardinality(T)
    OBVIOUS
  <2>2. IsFiniteSet(T)
    <3>1. T \in SUBSET User
      BY <2>1 DEF Members
    <3> QED
      BY <3>1, PeopleAssumption, FS_Subset
  <2>3. s \in [1 .. n -> T] /\ n \in Nat
    BY <1>2, <2>1, <2>2, SetToSeqType
  <2>4. R = [i \in 1 .. n |-> RecordOf(v, s[i])]
    BY <1>3, <2>3
  <2>5. DOMAIN R = 1 .. n /\ R = [i \in DOMAIN R |-> R[i]] /\ Len(R) = n
    BY <2>3, <2>4
  <2>6. \A i \in DOMAIN R : s[i] \in T /\ R[i] = RecordOf(v, s[i])
    BY <2>3, <2>4, <2>5
  <2> QED
    BY <2>1, <2>5, <2>6 DEF RowsFit
<1>6. /\ Moves(page, page', o) /\ page'[o] = "list"
      /\ Moves(list, list', o) /\ list'[o] = [role |-> r, rows |-> R]
      /\ Moves(shown, shown', o) /\ Moves(offers, offers', o)
  BY <1>1, <1>4, Changed, Still
<1>7. ListAt(o) /\ CommentsAt(o)
  BY DEF DirInv, LocalAt
<1>8. ListAt(o)'
  <2>1. list'[o].role = r /\ list'[o].rows = R
    BY <1>6
  <2> QED
    BY <1>1, <1>2, <1>5, <1>6, <1>7, <2>1 DEF ListAt, Elder, Volunteer, NoRole
<1>9. CommentsAt(o)'
  BY <1>1, <1>6, <1>7 DEF CommentsAt, NoComments
<1> QED
  BY <1>1, <1>6, <1>8, <1>9, ScreenKeeps

LEMMA OpenCommentsKeeps ==
  ASSUME DirInv, NEW o \in Device, NEW u \in User, OpenComments(o, u)
  PROVE  DirInv' /\ SyncStep
<1>1. /\ page[o] = "list" /\ page' = [page EXCEPT ![o] = "comments"]
      /\ UNCHANGED <<syncVars, hours, calls, geocoding, taps, auth, history>>
      /\ UNCHANGED <<list, offers>> /\ view' = view
  BY DEF OpenComments, syncVars
<1>2. PICK s : s = view[o][<<u, "comments">>]
  OBVIOUS
<1>3. s \in Seq(User)
  <2>1. <<u, "comments">> \in Leaf /\ ValueOf(<<u, "comments">>) = Seq(User)
    BY Leaves, Values
  <2> QED
    BY <1>2, <2>1, ShownTypes
<1>4. shown' = [shown EXCEPT ![o] = [on |-> {u}, rows |-> s]]
  BY <1>2 DEF OpenComments
<1>5. /\ Moves(page, page', o) /\ page'[o] = "comments"
      /\ Moves(shown, shown', o) /\ shown'[o] = [on |-> {u}, rows |-> s]
      /\ Moves(list, list', o) /\ Moves(offers, offers', o)
  BY <1>1, <1>4, Changed, Still
<1>6. ListAt(o)'
  BY <1>1, <1>5 DEF DirInv, LocalAt, ListAt
<1>7. IsSuffix(s, s)
  <2>1. PICK e : e = <<>>
    OBVIOUS
  <2>2. e \in Seq(User) /\ e \o s = s
    BY <1>3, <2>1, EmptySeq, ConcatEmptySeq
  <2> QED
    BY <1>3, <2>2, SuffixOfConcat
<1>8. CommentsAt(o)'
  <2>1. shown'[o].on = {u} /\ shown'[o].rows = s
    BY <1>5
  <2> QED
    BY <1>1, <1>2, <1>3, <1>5, <1>7, <2>1 DEF CommentsAt
<1> QED
  BY <1>1, <1>5, <1>6, <1>8, ScreenKeeps

LEMMA OpenActivityKeeps ==
  ASSUME DirInv, NEW o \in Device, NEW h \in Hours, OpenActivity(o, h)
  PROVE  DirInv' /\ SyncStep
<1>1. /\ page[o] = "organiser" /\ page' = [page EXCEPT ![o] = "activity"]
      /\ UNCHANGED <<syncVars, hours, calls, geocoding, taps, auth, history>>
      /\ UNCHANGED <<list, shown>> /\ view' = view
  BY DEF OpenActivity, syncVars
<1>2. PICK S : S = {<<u, h>> : u \in {u \in User : h \in ToSet(view[o][<<u, "freeHours">>])}}
  OBVIOUS
<1>3. offers' = [offers EXCEPT ![o] = S] /\ S \subseteq User \X Hours
  <2>1. offers' = [offers EXCEPT ![o] = S]
    BY <1>2 DEF OpenActivity
  <2>2. PICK U : U = {u \in User : h \in ToSet(view[o][<<u, "freeHours">>])}
    OBVIOUS
  <2>3. U \subseteq User /\ S = {<<u, h>> : u \in U}
    BY <1>2, <2>2
  <2>4. S \subseteq User \X Hours
    BY <2>3
  <2> QED
    BY <2>1, <2>4
<1>4. /\ Moves(page, page', o) /\ page'[o] = "activity"
      /\ Moves(offers, offers', o) /\ offers'[o] = S
      /\ Moves(list, list', o) /\ Moves(shown, shown', o)
  BY <1>1, <1>3, Changed, Still
<1>5. ListAt(o)'
  BY <1>1, <1>3, <1>4 DEF DirInv, LocalAt, ListAt
<1>6. CommentsAt(o)'
  BY <1>1, <1>4 DEF DirInv, LocalAt, CommentsAt
<1> QED
  BY <1>1, <1>4, <1>5, <1>6, ScreenKeeps

LEMMA BackKeeps ==
  ASSUME DirInv, NEW o \in Device, Back(o)
  PROVE  DirInv' /\ SyncStep
<1>1. PICK p : p = IF page[o] = "comments" THEN "list" ELSE "organiser"
  OBVIOUS
<1>2. PICK L : L = IF page[o] = "list" THEN NoList ELSE list[o]
  OBVIOUS
<1>3. /\ page[o] \in {"list", "comments", "activity"}
      /\ page' = [page EXCEPT ![o] = p] /\ list' = [list EXCEPT ![o] = L]
      /\ shown' = [shown EXCEPT ![o] = NoComments] /\ offers' = [offers EXCEPT ![o] = {}]
      /\ UNCHANGED <<syncVars, hours, calls, geocoding, taps, auth, history>>
      /\ view' = view
  BY <1>1, <1>2 DEF Back, syncVars
<1>4. /\ Moves(page, page', o) /\ page'[o] = p
      /\ Moves(list, list', o) /\ list'[o] = L
      /\ Moves(shown, shown', o) /\ shown'[o] = NoComments
      /\ Moves(offers, offers', o) /\ offers'[o] = {}
  BY <1>3, Changed
<1>5. ListAt(o)
  BY DEF DirInv, LocalAt
<1>6. ListAt(o)'
  <2>1. CASE page[o] = "list"
    BY <1>1, <1>2, <1>4, <2>1 DEF ListAt, NoList
  <2>2. CASE page[o] # "list"
    <3>1. L = list[o]
      BY <1>2, <2>2
    <3>2. p \notin {"list", "comments"} => L = NoList
      BY <1>1, <1>3, <1>5, <2>2, <3>1 DEF ListAt
    <3> QED
      BY <1>3, <1>4, <1>5, <3>1, <3>2 DEF ListAt
  <2> QED
    BY <2>1, <2>2
<1>7. CommentsAt(o)'
  BY <1>1, <1>4, EmptySeq DEF CommentsAt, NoComments
<1> QED
  BY <1>1, <1>3, <1>4, <1>6, <1>7, ScreenKeeps

-----------------------------------------------------------------------------
(* Taps on the profile and on the screens of elders and volunteers.        *)

LEMMA Put ==
  ASSUME NEW u, NEW f, NEW x
  PROVE  DOMAIN PutLeaf(u, f, x) = {<<u, f>>} /\ PutLeaf(u, f, x)[<<u, f>>] = x
BY DEF PutLeaf

LEMMA PlannedTypes ==
  ASSUME NEW d \in Device, NEW press, press \subseteq Place, NEW w \in Planned(d, press)
  PROVE  /\ w \in M!Write
         /\ \E u \in User, f \in Field \ {"role"} :
              /\ w = PutLeaf(u, f, w[<<u, f>>])
              /\ DOMAIN w = {<<u, f>>} /\ w[<<u, f>>] \in ValueOf(<<u, f>>)
              /\ f = "comments" \/ u = d
              /\ f \in Coordinate => w[<<u, f>>] \in press
<1>1. PICK u \in User, f \in Field \ {"role"}, x \in Value :
        /\ w = PutLeaf(u, f, x) /\ x \in ValueOf(<<u, f>>)
        /\ f = "comments" \/ u = d
        /\ f \in Coordinate => x \in press
  <2>1. ASSUME NEW u \in User, NEW s \in Seq(User), w = PutLeaf(u, "comments", s)
        PROVE  s \in ValueOf(<<u, "comments">>) /\ s \in Value
    BY Values, Leaves
  <2>2. ASSUME NEW s \in Seq(Hours), w = PutLeaf(d, "freeHours", s)
        PROVE  s \in ValueOf(<<d, "freeHours">>) /\ s \in Value
    BY Values, Leaves DEF Device
  <2>3. ASSUME NEW f \in Coordinate, NEW x \in press, w = PutLeaf(d, f, x)
        PROVE  x \in ValueOf(<<d, f>>) /\ x \in Value
    <3>1. x \in ValueOf(<<d, f>>)
      BY <2>3, Values
    <3>2. <<d, f>> \in Leaf
      BY Leaves DEF Device, Coordinate
    <3> QED
      BY <3>1, <3>2, Values
  <2>4. /\ "comments" \in Field \ {"role"} /\ "comments" \notin Coordinate
        /\ "freeHours" \in Field \ {"role"} /\ "freeHours" \notin Coordinate
        /\ Coordinate \subseteq Field \ {"role"} /\ d \in User
    BY DEF Field, Coordinate, ListField, Device
  <2>5. CASE \E u \in User, s \in Seq(User) : w = PutLeaf(u, "comments", s)
    BY <2>1, <2>4, <2>5
  <2>6. CASE \E s \in Seq(Hours) : w = PutLeaf(d, "freeHours", s)
    BY <2>2, <2>4, <2>6
  <2>7. CASE \E f \in Coordinate, x \in press : w = PutLeaf(d, f, x)
    BY <2>3, <2>4, <2>7
  <2>8. \/ \E u \in User, s \in Seq(User) : w = PutLeaf(u, "comments", s)
        \/ \E s \in Seq(Hours) : w = PutLeaf(d, "freeHours", s)
        \/ \E f \in Coordinate, x \in press : w = PutLeaf(d, f, x)
    BY DEF Planned
  <2> QED
    BY <2>5, <2>6, <2>7, <2>8
<1>2. DOMAIN w = {<<u, f>>} /\ w[<<u, f>>] = x
  BY <1>1, Put
<1>3. w \in M!Write
  <2>1. <<u, f>> \in Leaf /\ x \in Value
    BY <1>1, Leaves, Values
  <2>2. PICK S : S = {<<u, f>>}
    OBVIOUS
  <2>3. w = [l \in S |-> x]
    BY <1>1, <2>2 DEF PutLeaf
  <2>4. w \in [S -> Value]
    BY <2>1, <2>3
  <2>5. S \in (SUBSET Leaf) \ {{}}
    BY <2>1, <2>2
  <2> QED
    BY <2>4, <2>5 DEF M!Write
<1> QED
  BY <1>1, <1>2, <1>3

\* One write more, or none where nothing was.
LEMMA PlaceAppend ==
  ASSUME DirInv, NEW d \in Device, NEW ws \in Seq(M!Write), NEW w \in M!Write, NEW f \in Coordinate
  PROVE  M!Replay(Append(ws, w), view[d])[<<d, f>>] =
           IF <<d, f>> \in DOMAIN w THEN w[<<d, f>>] ELSE M!Replay(ws, view[d])[<<d, f>>]
<1>1. PICK l, data : l = <<d, f>> /\ data = view[d]
  OBVIOUS
<1>2. l \in Leaf /\ data \in [Leaf -> Value]
  BY <1>1, Leaves, ShownTypes DEF Device, Coordinate
<1>3. M!Replay(Append(ws, w), data)[l] = IF l \in DOMAIN w THEN w[l] ELSE M!Replay(ws, data)[l]
  BY <1>2, MirrorAssumptions, M!ReplayAppend
<1> QED
  BY <1>1, <1>3

LEMMA OneCallPlace ==
  ASSUME DirInv, NEW d \in Device, calls[d] = <<>>, NEW u, NEW g, NEW x,
         g \notin Coordinate, PutLeaf(u, g, x) \in M!Write,
         calls'[d] = <<PutLeaf(u, g, x)>> \/ calls'[d] = <<>>,
         UNCHANGED <<view, restarts>>
  PROVE  PlaceAt(d)'
<1>1. PICK w, e : w = PutLeaf(u, g, x) /\ e = <<>>
  OBVIOUS
<1>2. e \in Seq(M!Write) /\ w \in M!Write /\ <<w>> = Append(e, w) /\ calls[d] = e
  BY <1>1, EmptySeq
<1>3. ASSUME NEW f \in Coordinate
      PROVE  M!Replay(calls'[d], view[d])[<<d, f>>] = M!Replay(e, view[d])[<<d, f>>]
  <2>1. <<d, f>> \notin DOMAIN w
    <3>1. DOMAIN w = {<<u, g>>}
      BY <1>1, Put
    <3> QED
      BY <3>1
  <2>2. M!Replay(Append(e, w), view[d])[<<d, f>>] = M!Replay(e, view[d])[<<d, f>>]
    BY <1>2, <2>1, PlaceAppend
  <2> QED
    BY <1>1, <1>2, <2>2
<1>4. PlaceAt(d)
  BY DEF DirInv, LocalAt
<1>5. "latitude" \in Coordinate /\ "longitude" \in Coordinate
  BY DEF Coordinate
<1> QED
  BY <1>2, <1>3, <1>4, <1>5 DEF PlaceAt

LEMMA TapKeeps ==
  ASSUME DirInv, NEW d \in Device,
         UNCHANGED <<syncVars, page, list, shown, offers, auth, picked>>,
         Moves(hours, hours', d), Moves(calls, calls', d), Moves(geocoding, geocoding', d),
         Moves(wanted, wanted', d), wanted' \in [Device -> [Hours -> Nat]],
         Moves(pressed, pressed', d), pressed[d] \subseteq pressed'[d],
         CallsAt(d)', HoursAt(d)', PlaceAt(d)'
  PROVE  DirInv' /\ SyncStep
<1>1. /\ UNCHANGED <<members, names, requests, picked, view, restarts>>
      /\ UNCHANGED <<page, list, shown, offers, syncVars>>
  BY DEF auth, syncVars
<1>2. HistoryGrows /\ SyncStep
  <2>1. \A u \in User : pressed[u] \subseteq pressed'[u]
    BY DEF Moves, Device
  <2> QED
    BY <1>1, <2>1 DEF HistoryGrows, SyncStep
<1>3. LocalAt(d) /\ PerDevice
  BY DEF DirInv
<1>4. AccountAt(d)'
  BY <1>1, <1>3 DEF LocalAt, AccountAt
<1>5. RecordAt(d)'
  BY <1>1, <1>3 DEF LocalAt, RecordAt
<1>6. ListAt(d)'
  BY <1>1, <1>3 DEF LocalAt, ListAt
<1>7. CommentsAt(d)'
  BY <1>1, <1>3 DEF LocalAt, CommentsAt
<1>8. requests' \subseteq User \X AnyRole /\ members' \in {members, members \cup {d}}
  BY <1>1, <1>3 DEF PerDevice
<1> QED
  BY <1>1, <1>2, <1>4, <1>5, <1>6, <1>7, <1>8, Still, Assembled

LEMMA IdleHours ==
  ASSUME DirInv, NEW d \in Device, calls[d] = <<>>
  PROVE  /\ view[d][Hour(d)] \in Seq(Hours) /\ hours[d] \in Seq(Hours \cup {BlankRow})
         /\ \A h \in Hours : Copies(h, hours[d]) =< Copies(h, view[d][Hour(d)])
         /\ restarts = 0 => \A h \in Hours : Copies(h, view[d][Hour(d)]) = wanted[d][h]
<1>1. Hour(d) \in Leaf /\ ValueOf(Hour(d)) = Seq(Hours)
  BY Leaves, Values DEF Hour, Device
<1>2. view[d][Hour(d)] \in Seq(Hours)
  BY <1>1, ShownTypes
<1>3. HoursAt(d)
  BY DEF DirInv, LocalAt
<1>4. Ahead(calls[d], Hour(d), view[d][Hour(d)]) = view[d][Hour(d)]
  BY DEF Ahead
<1> QED
  BY <1>2, <1>3, <1>4 DEF HoursAt, HoursFit

LEMMA OneCallHours ==
  ASSUME NEW d, NEW s, NEW t, NEW R \in Seq(Hours \cup {BlankRow}), NEW w,
         w = PutLeaf(d, "freeHours", t), OneTap(s, t),
         \A h \in Hours : Copies(h, R) =< Copies(h, s) /\ Copies(h, R) =< Copies(h, t),
         restarts' = 0 => \A h \in Hours : Copies(h, t) = wanted'[d][h],
         calls'[d] = <<w>>, hours'[d] = R, view'[d][Hour(d)] = s
  PROVE  HoursAt(d)'
<1>1. Hour(d) \in DOMAIN w /\ w[Hour(d)] = t
  <2>1. DOMAIN w = {Hour(d)} /\ w[Hour(d)] = t
    BY DEF Hour, PutLeaf
  <2> QED
    BY <2>1
<1>2. PICK ws, l : ws = <<w>> /\ l = Hour(d)
  OBVIOUS
<1>3. Ahead(ws, l, s) = t
  BY <1>1, <1>2 DEF Ahead
<1>4. \A i \in 2 .. Len(ws) : l \notin DOMAIN ws[i]
  BY <1>2
<1>5. HoursFit(d, R, ws, s)
  BY <1>2, <1>3, <1>4 DEF HoursFit
<1> QED
  BY <1>2, <1>3, <1>5 DEF HoursAt

LEMMA AddHourKeeps ==
  ASSUME DirInv, NEW v \in Device, NEW h \in Hours, AddHour(v, h)
  PROVE  DirInv' /\ SyncStep
<1>1. /\ page[v] = "volunteer" /\ calls[v] = <<>>
      /\ UNCHANGED <<syncVars, page, list, shown, offers, auth, picked>>
      /\ UNCHANGED <<hours, geocoding, pressed, view, restarts>>
  BY DEF AddHour, OnProfile, Idle, syncVars
<1>2. PICK s, t, w : /\ s = view[v][Hour(v)] /\ t = Append(s, h)
                     /\ w = PutLeaf(v, "freeHours", t)
  OBVIOUS
<1>3. /\ s \in Seq(Hours) /\ t \in Seq(Hours) /\ hours[v] \in Seq(Hours \cup {BlankRow})
      /\ \A k \in Hours : Copies(k, hours[v]) =< Copies(k, s)
      /\ restarts = 0 => \A k \in Hours : Copies(k, s) = wanted[v][k]
  <2>1. s \in Seq(Hours)
    BY <1>1, <1>2, IdleHours
  <2>2. t \in Seq(Hours)
    BY <1>2, <2>1, AppendProperties
  <2> QED
    BY <1>1, <1>2, <2>1, <2>2, IdleHours
<1>4. w \in Planned(v, pressed[v]) /\ w \in M!Write /\ pressed[v] \subseteq Place
  <2>1. pressed[v] \subseteq Place
    BY DEF DirInv, LocalAt, CallsAt
  <2>2. w \in {PutLeaf(v, "freeHours", x) : x \in Seq(Hours)}
    BY <1>2, <1>3
  <2>3. w \in Planned(v, pressed[v])
    BY <2>2 DEF Planned
  <2> QED
    BY <2>1, <2>3, PlannedTypes
<1>5. calls' = [calls EXCEPT ![v] = <<w>>]
  <2>1. calls' = [calls EXCEPT ![v] = calls[v] \o <<w>>]
    BY <1>2 DEF AddHour, Insert, Hour
  <2>2. <<w>> \in Seq(M!Write)
    BY <1>4
  <2>3. calls[v] \o <<w>> = <<w>>
    BY <1>1, <2>2, ConcatEmptySeq
  <2> QED
    BY <2>1, <2>3
<1>6. /\ Moves(calls, calls', v) /\ calls'[v] = <<w>>
      /\ Moves(hours, hours', v) /\ Moves(geocoding, geocoding', v) /\ Moves(pressed, pressed', v)
  BY <1>1, <1>5, Changed, Still
<1>7. /\ wanted' \in [Device -> [Hours -> Nat]] /\ Moves(wanted, wanted', v)
      /\ \A k \in Hours : wanted'[v][k] = IF k = h THEN wanted[v][k] + 1 ELSE wanted[v][k]
  <2>1. wanted \in [Device -> [Hours -> Nat]]
    BY DEF DirInv, PerDevice
  <2>2. PICK f : f = [wanted[v] EXCEPT ![h] = @ + 1]
    OBVIOUS
  <2>3. wanted' = [wanted EXCEPT ![v] = f]
    BY <2>1, <2>2 DEF AddHour
  <2>4. f \in [Hours -> Nat] /\ \A k \in Hours : f[k] = IF k = h THEN wanted[v][k] + 1 ELSE wanted[v][k]
    BY <2>1, <2>2
  <2>5. wanted' \in [Device -> [Hours -> Nat]] /\ wanted'[v] = f
    BY <2>1, <2>3, <2>4
  <2> QED
    BY <2>3, <2>4, <2>5, Changed
<1>8. CallsAt(v)'
  <2>1. <<w>> \in Seq(Planned(v, pressed[v]))
    BY <1>4
  <2> QED
    BY <1>1, <1>6, <2>1 DEF DirInv, LocalAt, CallsAt
<1>9. \A k \in Hours : Copies(k, t) = IF k = h THEN Copies(k, s) + 1 ELSE Copies(k, s)
  BY <1>2, <1>3, CopiesAppend
<1>10. HoursAt(v)'
  <2>1. OneTap(s, t)
    BY <1>2 DEF OneTap
  <2>2. ASSUME NEW k \in Hours
        PROVE  Copies(k, hours[v]) =< Copies(k, s) /\ Copies(k, hours[v]) =< Copies(k, t)
    <3>1. Copies(k, hours[v]) \in Nat /\ Copies(k, s) \in Nat
      BY <1>3, CopiesType
    <3> QED
      BY <1>3, <1>9, <3>1
  <2>3. restarts' = 0 => \A k \in Hours : Copies(k, t) = wanted'[v][k]
    BY <1>1, <1>3, <1>7, <1>9
  <2> QED
    BY <1>1, <1>2, <1>3, <1>6, <2>1, <2>2, <2>3, OneCallHours
<1>11. PlaceAt(v)'
  <2>1. "freeHours" \notin Coordinate
    BY DEF Coordinate
  <2> QED
    BY <1>1, <1>2, <1>4, <1>6, <2>1, OneCallPlace
<1> QED
  BY <1>1, <1>6, <1>7, <1>8, <1>10, <1>11, TapKeeps

\* The first of its kind is taken out.
LEMMA WithoutTakes ==
  ASSUME NEW A, NEW s \in Seq(A), NEW x, \E i \in DOMAIN s : s[i] = x
  PROVE  \E j \in DOMAIN s : s[j] = x /\ Without(s, x) = RemoveAt(s, j)
<1>1. PICK S : S = {i \in DOMAIN s : s[i] = x}
  OBVIOUS
<1>2. S \in SUBSET Nat /\ S # {}
  BY <1>1
<1>3. PICK i \in S : \A j \in S : i =< j
  BY <1>2, LeastNat
<1>4. i \in DOMAIN s /\ s[i] = x /\ \A j \in 1 .. i - 1 : s[j] # x
  <2>1. i \in DOMAIN s /\ s[i] = x
    BY <1>1
  <2>2. ASSUME NEW j \in 1 .. i - 1, s[j] = x
        PROVE  FALSE
    <3>1. j \in S /\ ~(i =< j)
      BY <1>1, <2>1, <2>2
    <3> QED
      BY <1>3, <3>1
  <2> QED
    BY <2>1, <2>2
<1>5. PICK k : k = CHOOSE n \in DOMAIN s : s[n] = x /\ \A j \in 1 .. n - 1 : s[j] # x
  OBVIOUS
<1>6. k \in DOMAIN s /\ s[k] = x
  BY <1>4, <1>5
<1>7. Without(s, x) = RemoveAt(s, k)
  BY <1>5 DEF Without
<1> QED
  BY <1>6, <1>7

LEMMA DeleteRowKeeps ==
  ASSUME DirInv, NEW v \in Device, NEW i \in DOMAIN hours[v], DeleteRow(v, i)
  PROVE  DirInv' /\ SyncStep
<1>1. /\ page[v] = "volunteer" /\ calls[v] = <<>> /\ hours[v][i] # BlankRow
      /\ UNCHANGED <<syncVars, page, list, shown, offers, auth, picked>>
      /\ UNCHANGED <<geocoding, pressed, view, restarts>>
  BY DEF DeleteRow, OnProfile, Idle, syncVars
<1>2. PICK s, R, h, Q : /\ s = view[v][Hour(v)] /\ R = hours[v] /\ h = R[i]
                        /\ Q = RemoveAt(R, i)
  OBVIOUS
<1>3. /\ s \in Seq(Hours) /\ R \in Seq(Hours \cup {BlankRow}) /\ i \in DOMAIN R
      /\ \A k \in Hours : Copies(k, R) =< Copies(k, s)
      /\ restarts = 0 => \A k \in Hours : Copies(k, s) = wanted[v][k]
  BY <1>1, <1>2, IdleHours
<1>4. h \in Hours
  <2>1. R[i] \in Hours \cup {BlankRow}
    BY <1>3
  <2> QED
    BY <1>1, <1>2, <2>1
<1>5. \A k \in Hours : Copies(k, R) \in Nat /\ Copies(k, s) \in Nat
  BY <1>3, CopiesType
<1>6. Copies(h, s) # 0 /\ \E j \in DOMAIN s : s[j] = h
  <2>1. Copies(h, R) # 0
    BY <1>2, <1>3, CopiesPositive
  <2>2. Copies(h, s) # 0
    BY <1>3, <1>4, <1>5, <2>1
  <2> QED
    BY <1>3, <2>2, CopiesPositive
<1>7. PICK j \in DOMAIN s : s[j] = h /\ Without(s, h) = RemoveAt(s, j)
  BY <1>3, <1>6, WithoutTakes
<1>8. PICK t, w : t = RemoveAt(s, j) /\ w = PutLeaf(v, "freeHours", t)
  OBVIOUS
<1>9. /\ t \in Seq(Hours) /\ Q \in Seq(Hours \cup {BlankRow})
      /\ \A k \in Hours : Copies(k, t) = IF k = h THEN Copies(k, s) - 1 ELSE Copies(k, s)
      /\ \A k \in Hours : Copies(k, Q) = IF k = h THEN Copies(k, R) - 1 ELSE Copies(k, R)
  <2>1. /\ t \in Seq(Hours)
        /\ \A k \in Hours : Copies(k, t) = IF k = h THEN Copies(k, s) - 1 ELSE Copies(k, s)
    BY <1>3, <1>7, <1>8, CopiesRemoveAt
  <2>2. /\ Q \in Seq(Hours \cup {BlankRow})
        /\ \A k \in Hours : Copies(k, Q) = IF k = h THEN Copies(k, R) - 1 ELSE Copies(k, R)
    BY <1>2, <1>3, CopiesRemoveAt
  <2> QED
    BY <2>1, <2>2
<1>10. w \in Planned(v, pressed[v]) /\ w \in M!Write /\ pressed[v] \subseteq Place
  <2>1. pressed[v] \subseteq Place
    BY DEF DirInv, LocalAt, CallsAt
  <2>2. w \in {PutLeaf(v, "freeHours", x) : x \in Seq(Hours)}
    BY <1>8, <1>9
  <2>3. w \in Planned(v, pressed[v])
    BY <2>2 DEF Planned
  <2> QED
    BY <2>1, <2>3, PlannedTypes
<1>11. calls' = [calls EXCEPT ![v] = <<w>>]
  <2>1. h \in ToSet(s)
    BY <1>7 DEF ToSet
  <2>2. Delete(v, h) = <<w>>
    BY <1>2, <1>7, <1>8, <2>1 DEF Delete, Hour
  <2>3. calls' = [calls EXCEPT ![v] = calls[v] \o <<w>>]
    BY <1>2, <2>2 DEF DeleteRow
  <2>4. <<w>> \in Seq(M!Write)
    BY <1>10
  <2>5. calls[v] \o <<w>> = <<w>>
    BY <1>1, <2>4, ConcatEmptySeq
  <2> QED
    BY <2>3, <2>5
<1>12. hours' = [hours EXCEPT ![v] = Q]
  BY <1>2 DEF DeleteRow
<1>13. /\ Moves(calls, calls', v) /\ calls'[v] = <<w>>
       /\ Moves(hours, hours', v) /\ hours'[v] = Q
       /\ Moves(geocoding, geocoding', v) /\ Moves(pressed, pressed', v)
  BY <1>1, <1>11, <1>12, Changed, Still
<1>14. /\ wanted' \in [Device -> [Hours -> Nat]] /\ Moves(wanted, wanted', v)
       /\ \A k \in Hours : wanted'[v][k] =
            IF k = h THEN IF wanted[v][k] = 0 THEN 0 ELSE wanted[v][k] - 1 ELSE wanted[v][k]
  <2>1. wanted \in [Device -> [Hours -> Nat]]
    BY DEF DirInv, PerDevice
  <2>2. PICK f : f = [wanted[v] EXCEPT ![h] = IF @ = 0 THEN 0 ELSE @ - 1]
    OBVIOUS
  <2>3. wanted' = [wanted EXCEPT ![v] = f]
    BY <1>2, <2>1, <2>2 DEF DeleteRow
  <2>4. /\ f \in [Hours -> Nat]
        /\ \A k \in Hours : f[k] =
             IF k = h THEN IF wanted[v][k] = 0 THEN 0 ELSE wanted[v][k] - 1 ELSE wanted[v][k]
    <3>1. PICK W, x : W = wanted[v] /\ x = IF W[h] = 0 THEN 0 ELSE W[h] - 1
      OBVIOUS
    <3>2. W \in [Hours -> Nat] /\ W[h] \in Nat /\ x \in Nat
      BY <1>4, <2>1, <3>1
    <3>3. f = [W EXCEPT ![h] = x]
      BY <2>2, <3>1
    <3>4. f \in [Hours -> Nat] /\ \A k \in Hours : f[k] = IF k = h THEN x ELSE W[k]
      BY <1>4, <3>2, <3>3
    <3> QED
      BY <3>1, <3>4
  <2>5. wanted' \in [Device -> [Hours -> Nat]] /\ wanted'[v] = f
    BY <2>1, <2>3, <2>4
  <2> QED
    BY <2>3, <2>4, <2>5, Changed
<1>15. CallsAt(v)'
  <2>1. <<w>> \in Seq(Planned(v, pressed[v]))
    BY <1>10
  <2> QED
    BY <1>1, <1>13, <2>1 DEF DirInv, LocalAt, CallsAt
<1>16. HoursAt(v)'
  <2>1. OneTap(s, t)
    BY <1>8 DEF OneTap
  <2>2. ASSUME NEW k \in Hours
        PROVE  Copies(k, Q) =< Copies(k, s) /\ Copies(k, Q) =< Copies(k, t)
    <3>1. Copies(k, R) \in Nat /\ Copies(k, s) \in Nat /\ Copies(k, R) =< Copies(k, s)
      BY <1>3, <1>5
    <3>2. CASE k = h
      BY <1>9, <3>1, <3>2
    <3>3. CASE k # h
      BY <1>9, <3>1, <3>3
    <3> QED
      BY <3>2, <3>3
  <2>3. restarts' = 0 => \A k \in Hours : Copies(k, t) = wanted'[v][k]
    BY <1>1, <1>3, <1>6, <1>9, <1>14
  <2> QED
    BY <1>1, <1>2, <1>8, <1>9, <1>13, <2>1, <2>2, <2>3, OneCallHours
<1>17. PlaceAt(v)'
  <2>1. "freeHours" \notin Coordinate
    BY DEF Coordinate
  <2> QED
    BY <1>1, <1>8, <1>10, <1>13, <2>1, OneCallPlace
<1> QED
  BY <1>1, <1>13, <1>14, <1>15, <1>16, <1>17, TapKeeps

LEMMA LongPressKeeps ==
  ASSUME DirInv, NEW v \in Device, NEW p \in Place, LongPress(v, p)
  PROVE  DirInv' /\ SyncStep
<1>1. /\ page[v] = "volunteer" /\ calls[v] = <<>>
      /\ geocoding' = [geocoding EXCEPT ![v] = Append(geocoding[v], p)]
      /\ pressed' = [pressed EXCEPT ![v] = pressed[v] \cup {p}]
      /\ UNCHANGED <<syncVars, page, list, shown, offers, auth, picked>>
      /\ UNCHANGED <<hours, calls, wanted, view, restarts>>
  BY DEF LongPress, OnProfile, Idle, syncVars
<1>2. PICK press : press = pressed[v] \cup {p}
  OBVIOUS
<1>3. /\ Moves(hours, hours', v) /\ Moves(calls, calls', v) /\ calls'[v] = calls[v]
      /\ Moves(geocoding, geocoding', v) /\ geocoding'[v] = Append(geocoding[v], p)
      /\ Moves(pressed, pressed', v) /\ pressed'[v] = press
      /\ Moves(wanted, wanted', v) /\ wanted' \in [Device -> [Hours -> Nat]]
  <2>1. /\ Moves(geocoding, geocoding', v) /\ geocoding'[v] = Append(geocoding[v], p)
        /\ Moves(pressed, pressed', v) /\ pressed'[v] = press
    BY <1>1, <1>2, Changed
  <2>2. /\ Moves(hours, hours', v) /\ Moves(calls, calls', v) /\ calls'[v] = calls[v]
        /\ Moves(wanted, wanted', v) /\ wanted' \in [Device -> [Hours -> Nat]]
    BY <1>1, Still
  <2> QED
    BY <2>1, <2>2
<1>4. CallsAt(v) /\ HoursAt(v) /\ PlaceAt(v)
  BY DEF DirInv, LocalAt
<1>5. CallsAt(v)'
  <2>1. press \subseteq Place /\ pressed[v] \subseteq press
    BY <1>2, <1>4 DEF CallsAt
  <2>2. Append(geocoding[v], p) \in Seq(press)
    <3>1. geocoding[v] \in Seq(pressed[v]) /\ p \in press
      BY <1>2, <1>4 DEF CallsAt
    <3>2. geocoding[v] \in Seq(press)
      BY <2>1, <3>1, SeqMonotonic
    <3> QED
      BY <3>1, <3>2, AppendProperties
  <2>3. calls[v] \in Seq(Planned(v, press))
    BY <1>1, EmptySeq
  <2> QED
    BY <1>1, <1>3, <2>1, <2>2, <2>3 DEF CallsAt
<1>6. HoursAt(v)'
  BY <1>1, <1>4 DEF HoursAt
<1>7. PlaceAt(v)'
  BY <1>1, <1>4 DEF PlaceAt
<1>8. pressed[v] \subseteq pressed'[v]
  BY <1>2, <1>3
<1> QED
  BY <1>1, <1>3, <1>5, <1>6, <1>7, <1>8, TapKeeps

\* Calls that leave the free hours alone follow those that are there.
LEMMA HoursAppend ==
  ASSUME NEW d, NEW R, NEW s, NEW A, NEW ws \in Seq(A), NEW w \in A,
         Hour(d) \notin DOMAIN w, HoursFit(d, R, ws, s)
  PROVE  /\ HoursFit(d, R, Append(ws, w), s)
         /\ Ahead(Append(ws, w), Hour(d), s) = Ahead(ws, Hour(d), s)
<1>1. PICK q, l : q = Append(ws, w) /\ l = Hour(d)
  OBVIOUS
<1>2. /\ q \in Seq(A) /\ q # <<>> /\ Len(q) = Len(ws) + 1 /\ q[Len(ws) + 1] = w
      /\ \A i \in 1 .. Len(ws) : q[i] = ws[i]
      /\ Len(ws) \in Nat /\ (ws = <<>> <=> Len(ws) = 0)
  BY <1>1, AppendProperties
<1>3. Ahead(q, l, s) = Ahead(ws, l, s)
  <2>1. CASE ws = <<>>
    <3>1. q[1] = w
      BY <1>2, <2>1
    <3> QED
      BY <1>1, <1>2, <2>1, <3>1 DEF Ahead
  <2>2. CASE ws # <<>>
    <3>1. q[1] = ws[1]
      BY <1>2, <2>2
    <3> QED
      BY <1>2, <2>2, <3>1 DEF Ahead
  <2> QED
    BY <2>1, <2>2
<1>4. \A i \in 2 .. Len(q) : l \notin DOMAIN q[i]
  <2> TAKE i \in 2 .. Len(q)
  <2>1. CASE i = Len(ws) + 1
    BY <1>1, <1>2, <2>1
  <2>2. CASE i # Len(ws) + 1
    <3>1. i \in 2 .. Len(ws) /\ i \in 1 .. Len(ws)
      BY <1>2, <2>2
    <3> QED
      BY <1>1, <1>2, <3>1 DEF HoursFit
  <2> QED
    BY <2>1, <2>2
<1> QED
  BY <1>1, <1>3, <1>4 DEF HoursFit

LEMMA GeocodedKeeps ==
  ASSUME DirInv, NEW v \in Device, NEW i \in DOMAIN geocoding[v], Geocoded(v, i)
  PROVE  DirInv' /\ SyncStep
<1>1. PICK G, p, w1, w2, q :
        /\ G = geocoding[v] /\ p = G[i]
        /\ w1 = PutLeaf(v, "latitude", p) /\ w2 = PutLeaf(v, "longitude", p)
        /\ q = IF page[v] = "login" THEN calls[v] ELSE Append(Append(calls[v], w1), w2)
  OBVIOUS
<1>2. CallsAt(v) /\ HoursAt(v) /\ PlaceAt(v)
  BY DEF DirInv, LocalAt
<1>3. /\ G \in Seq(pressed[v]) /\ p \in pressed[v] /\ pressed[v] \subseteq Place
      /\ calls[v] \in Seq(Planned(v, pressed[v]))
  BY <1>1, <1>2 DEF CallsAt
<1>4. /\ w1 \in Planned(v, pressed[v]) /\ w2 \in Planned(v, pressed[v])
      /\ w1 \in M!Write /\ w2 \in M!Write /\ calls[v] \in Seq(M!Write)
  <2>1. /\ w1 \in {PutLeaf(v, f, x) : f \in Coordinate, x \in pressed[v]}
        /\ w2 \in {PutLeaf(v, f, x) : f \in Coordinate, x \in pressed[v]}
    BY <1>1, <1>3 DEF Coordinate
  <2>2. w1 \in Planned(v, pressed[v]) /\ w2 \in Planned(v, pressed[v])
    BY <2>1 DEF Planned
  <2>3. Planned(v, pressed[v]) \subseteq M!Write
    BY <1>3, PlannedTypes
  <2> QED
    BY <1>3, <2>2, <2>3, SeqMonotonic
<1>5. /\ UNCHANGED <<syncVars, page, list, shown, offers, auth, picked>>
      /\ UNCHANGED <<hours, wanted, pressed, view, restarts>>
      /\ geocoding' = [geocoding EXCEPT ![v] = RemoveAt(G, i)]
  BY <1>1 DEF Geocoded, history, syncVars
<1>6. calls' = [calls EXCEPT ![v] = q]
  <2>1. CASE page[v] = "login"
    <3>1. calls' = [calls EXCEPT ![v] = calls[v] \o <<>>]
      BY <2>1 DEF Geocoded
    <3>2. calls[v] \o <<>> = calls[v]
      BY <1>3, ConcatEmptySeq
    <3> QED
      BY <1>1, <2>1, <3>1, <3>2
  <2>2. CASE page[v] # "login"
    <3>1. calls' = [calls EXCEPT ![v] = calls[v] \o <<w1, w2>>]
      BY <1>1, <2>2 DEF Geocoded
    <3>2. PICK c, e : c = calls[v] /\ e = <<w1>>
      OBVIOUS
    <3>3. c \in Seq(M!Write) /\ e \in Seq(M!Write) /\ <<w1, w2>> = Append(e, w2)
      BY <1>4, <3>2
    <3>4. c \o Append(e, w2) = Append(c \o e, w2)
      <4>1. <<w2>> \in Seq(M!Write) /\ c \o e \in Seq(M!Write)
        BY <1>4, <3>3, ConcatProperties
      <4>2. Append(e, w2) = e \o <<w2>> /\ Append(c \o e, w2) = (c \o e) \o <<w2>>
        BY <1>4, <3>3, <4>1, AppendIsConcat
      <4>3. (c \o e) \o <<w2>> = c \o (e \o <<w2>>)
        BY <3>3, <4>1, ConcatAssociative
      <4> QED
        BY <4>2, <4>3
    <3>5. c \o e = Append(c, w1)
      BY <1>4, <3>2, <3>3, AppendIsConcat
    <3> QED
      BY <1>1, <2>2, <3>1, <3>2, <3>3, <3>4, <3>5
  <2> QED
    BY <2>1, <2>2
<1>7. /\ Moves(hours, hours', v) /\ Moves(pressed, pressed', v)
      /\ Moves(wanted, wanted', v) /\ wanted' \in [Device -> [Hours -> Nat]]
  BY <1>5, Still
<1>8. /\ Moves(calls, calls', v) /\ calls'[v] = q
      /\ Moves(geocoding, geocoding', v) /\ geocoding'[v] = RemoveAt(G, i)
  BY <1>5, <1>6, Changed
<1>9. CallsAt(v)'
  <2>1. RemoveAt(G, i) \in Seq(pressed[v])
    BY <1>1, <1>3, CopiesRemoveAt
  <2>2. q \in Seq(Planned(v, pressed[v]))
    <3>1. Append(calls[v], w1) \in Seq(Planned(v, pressed[v]))
      BY <1>3, <1>4, AppendProperties
    <3>2. Append(Append(calls[v], w1), w2) \in Seq(Planned(v, pressed[v]))
      BY <1>4, <3>1, AppendProperties
    <3> QED
      BY <1>1, <1>3, <3>2
  <2>3. page'[v] = "login" => q = <<>>
    BY <1>1, <1>2, <1>5 DEF CallsAt
  <2> QED
    BY <1>3, <1>5, <1>8, <2>1, <2>2, <2>3 DEF CallsAt
<1>10. Append(calls[v], w1) \in Seq(M!Write)
  BY <1>4, AppendProperties
<1>11. HoursAt(v)'
  <2>1. PICK s, R, ws : s = view[v][Hour(v)] /\ R = hours[v] /\ ws = calls[v]
    OBVIOUS
  <2>2. HoursFit(v, R, ws, s)
    BY <1>2, <2>1 DEF HoursAt
  <2>3. Hour(v) \notin DOMAIN w1 /\ Hour(v) \notin DOMAIN w2
    BY <1>1 DEF PutLeaf, Hour
  <2>4. /\ HoursFit(v, R, Append(ws, w1), s)
        /\ Ahead(Append(ws, w1), Hour(v), s) = Ahead(ws, Hour(v), s)
    BY <1>4, <2>1, <2>2, <2>3, HoursAppend
  <2>5. /\ HoursFit(v, R, Append(Append(ws, w1), w2), s)
        /\ Ahead(Append(Append(ws, w1), w2), Hour(v), s) = Ahead(Append(ws, w1), Hour(v), s)
    <3>1. PICK ws1 : ws1 = Append(ws, w1)
      OBVIOUS
    <3>2. ws1 \in Seq(M!Write) /\ HoursFit(v, R, ws1, s)
      BY <1>10, <2>1, <2>4, <3>1
    <3>3. /\ HoursFit(v, R, Append(ws1, w2), s)
          /\ Ahead(Append(ws1, w2), Hour(v), s) = Ahead(ws1, Hour(v), s)
      BY <1>4, <2>3, <3>2, HoursAppend
    <3> QED
      BY <3>1, <3>3
  <2>6. HoursFit(v, R, q, s) /\ Ahead(q, Hour(v), s) = Ahead(ws, Hour(v), s)
    BY <1>1, <2>1, <2>2, <2>4, <2>5
  <2> QED
    BY <1>2, <1>5, <1>8, <2>1, <2>6 DEF HoursAt
<1>12. PlaceAt(v)'
  <2>1. "latitude" \in Coordinate /\ "longitude" \in Coordinate
    BY DEF Coordinate
  <2>2. CASE page[v] = "login"
    <3>1. calls'[v] = calls[v]
      BY <1>1, <1>8, <2>2
    <3> QED
      BY <1>2, <1>5, <3>1 DEF PlaceAt
  <2>3. CASE page[v] # "login"
    <3>1. PICK ws : ws = Append(calls[v], w1)
      OBVIOUS
    <3>2. /\ DOMAIN w1 = {<<v, "latitude">>} /\ w1[<<v, "latitude">>] = p
          /\ DOMAIN w2 = {<<v, "longitude">>} /\ w2[<<v, "longitude">>] = p
      BY <1>1 DEF PutLeaf
    <3>3. M!Replay(Append(ws, w2), view[v])[<<v, "longitude">>] = p
      BY <1>4, <1>10, <2>1, <3>1, <3>2, PlaceAppend
    <3>4. M!Replay(Append(ws, w2), view[v])[<<v, "latitude">>]
            = M!Replay(ws, view[v])[<<v, "latitude">>]
      <4>1. <<v, "latitude">> \notin DOMAIN w2
        BY <3>2
      <4> QED
        BY <1>4, <1>10, <2>1, <3>1, <4>1, PlaceAppend
    <3>5. M!Replay(ws, view[v])[<<v, "latitude">>] = p
      BY <1>4, <2>1, <3>1, <3>2, PlaceAppend
    <3>6. calls'[v] = Append(ws, w2)
      BY <1>1, <1>8, <2>3, <3>1
    <3> QED
      BY <1>5, <3>3, <3>4, <3>5, <3>6 DEF PlaceAt
  <2> QED
    BY <2>2, <2>3
<1> QED
  BY <1>5, <1>7, <1>8, <1>9, <1>11, <1>12, TapKeeps

LEMMA CommentKeeps ==
  ASSUME DirInv, NEW d \in Device, NEW u \in User, Comment(d, u)
  PROVE  DirInv' /\ SyncStep
<1>1. /\ calls[d] = <<>> /\ page[d] # "login"
      /\ UNCHANGED <<syncVars, page, list, shown, offers, auth, picked>>
      /\ UNCHANGED <<hours, geocoding, wanted, pressed, view, restarts>>
  BY DEF Comment, Idle, history, syncVars
<1>2. PICK l, t, w : /\ l = <<u, "comments">> /\ t = Append(view[d][l], d)
                     /\ w = PutLeaf(u, "comments", t)
  OBVIOUS
<1>3. t \in Seq(User)
  <2>1. l \in Leaf /\ ValueOf(l) = Seq(User) /\ d \in User
    BY <1>2, Leaves, Values DEF Device
  <2>2. view[d][l] \in Seq(User)
    BY <2>1, ShownTypes
  <2> QED
    BY <1>2, <2>1, <2>2, AppendProperties
<1>4. w \in Planned(d, pressed[d]) /\ w \in M!Write /\ pressed[d] \subseteq Place
  <2>1. pressed[d] \subseteq Place
    BY DEF DirInv, LocalAt, CallsAt
  <2>2. \E x \in User, s \in Seq(User) : w = PutLeaf(x, "comments", s)
    BY <1>2, <1>3
  <2>3. w \in Planned(d, pressed[d])
    BY <2>2 DEF Planned
  <2> QED
    BY <2>1, <2>3, PlannedTypes
<1>5. calls' = [calls EXCEPT ![d] = <<w>>]
  <2>1. calls' = [calls EXCEPT ![d] = calls[d] \o <<w>>]
    BY <1>2 DEF Comment, Insert
  <2>2. <<w>> \in Seq(M!Write)
    BY <1>4
  <2>3. calls[d] \o <<w>> = <<w>>
    BY <1>1, <2>2, ConcatEmptySeq
  <2> QED
    BY <2>1, <2>3
<1>6. /\ Moves(calls, calls', d) /\ calls'[d] = <<w>>
      /\ Moves(hours, hours', d) /\ Moves(geocoding, geocoding', d) /\ Moves(pressed, pressed', d)
      /\ Moves(wanted, wanted', d) /\ wanted' \in [Device -> [Hours -> Nat]]
  BY <1>1, <1>5, Changed, Still
<1>7. CallsAt(d)'
  <2>1. <<w>> \in Seq(Planned(d, pressed[d]))
    BY <1>4
  <2> QED
    BY <1>1, <1>6, <2>1 DEF DirInv, LocalAt, CallsAt
<1>8. HoursAt(d)'
  <2>1. PICK s, R, e : s = view[d][Hour(d)] /\ R = hours[d] /\ e = <<>>
    OBVIOUS
  <2>2. HoursFit(d, R, e, s) /\ calls[d] = e /\ e \in Seq(M!Write)
    BY <1>1, <2>1, EmptySeq DEF DirInv, LocalAt, HoursAt
  <2>3. Hour(d) \notin DOMAIN w
    BY <1>2 DEF PutLeaf, Hour
  <2>4. HoursFit(d, R, Append(e, w), s) /\ Ahead(Append(e, w), Hour(d), s) = Ahead(e, Hour(d), s)
    BY <1>4, <2>2, <2>3, HoursAppend
  <2>5. <<w>> = Append(e, w) /\ HoursAt(d)
    BY <2>1 DEF DirInv, LocalAt
  <2> QED
    BY <1>1, <1>6, <2>1, <2>2, <2>4, <2>5 DEF HoursAt
<1>9. PlaceAt(d)'
  <2>1. "comments" \notin Coordinate
    BY DEF Coordinate
  <2> QED
    BY <1>1, <1>2, <1>4, <1>6, <2>1, OneCallPlace
<1> QED
  BY <1>1, <1>6, <1>7, <1>8, <1>9, TapKeeps

-----------------------------------------------------------------------------
(* Accounts: the display name arrives, login, logout.                      *)

LEMMA AccountKeeps ==
  ASSUME DirInv, NEW d \in Device,
         UNCHANGED <<syncVars, shown, offers, calls, geocoding, members, history>>,
         Moves(page, page', d), Moves(hours, hours', d), Moves(list, list', d),
         Moves(names, names', d), requests' \subseteq requests,
         \A c \in Device \ {d} : \A r : <<c, r>> \in requests' <=> <<c, r>> \in requests,
         page'[d] = "login" => calls[d] = <<>>,
         AccountAt(d)', HoursAt(d)', ListAt(d)', CommentsAt(d)'
  PROVE  DirInv' /\ SyncStep
<1>1. /\ UNCHANGED <<members, picked, wanted, pressed, view, restarts>>
      /\ UNCHANGED <<shown, offers, calls, geocoding, syncVars>>
  BY DEF history, syncVars
<1>2. HistoryGrows /\ SyncStep
  BY <1>1, SameHistory DEF SyncStep
<1>3. LocalAt(d) /\ PerDevice
  BY DEF DirInv
<1>4. RecordAt(d)'
  BY <1>1, <1>3 DEF LocalAt, RecordAt
<1>5. CallsAt(d)'
  BY <1>1, <1>3 DEF LocalAt, CallsAt
<1>6. PlaceAt(d)'
  BY <1>1, <1>3 DEF LocalAt, PlaceAt
<1>7. requests' \subseteq User \X AnyRole /\ members' \in {members, members \cup {d}}
  BY <1>1, <1>3 DEF PerDevice
<1> QED
  BY <1>1, <1>2, <1>4, <1>5, <1>6, <1>7, Still, Assembled

LEMMA NameChangedKeeps ==
  ASSUME DirInv, NEW d \in Device, NameChanged(d)
  PROVE  DirInv' /\ SyncStep
<1>1. PICK r \in AnyRole : /\ <<d, r>> \in requests
                           /\ requests' = requests \ {<<d, r>>}
                           /\ names' = [names EXCEPT ![d] = r]
  BY DEF NameChanged
<1>2. /\ UNCHANGED <<syncVars, shown, offers, calls, geocoding, members, history>>
      /\ UNCHANGED <<page, hours, list, picked, wanted, view, restarts>>
  BY DEF NameChanged, history, syncVars
<1>3. LocalAt(d)
  BY DEF DirInv
<1>4. Moves(names, names', d) /\ names'[d] = r
  BY <1>1, Changed
<1>5. d \in members /\ r = picked[d]
  BY <1>1, <1>3 DEF LocalAt, AccountAt
<1>6. AccountAt(d)'
  BY <1>1, <1>2, <1>3, <1>4, <1>5 DEF LocalAt, AccountAt
<1>7. HoursAt(d)'
  BY <1>2, <1>3 DEF LocalAt, HoursAt
<1>8. ListAt(d)'
  BY <1>2, <1>3 DEF LocalAt, ListAt
<1>9. CommentsAt(d)'
  BY <1>2, <1>3 DEF LocalAt, CommentsAt
<1>10. /\ requests' \subseteq requests
       /\ \A c \in Device \ {d} : \A x : <<c, x>> \in requests' <=> <<c, x>> \in requests
  BY <1>1
<1>11. page'[d] = "login" => calls[d] = <<>>
  BY <1>2, <1>3 DEF LocalAt, CallsAt
<1> QED
  BY <1>2, <1>4, <1>6, <1>7, <1>8, <1>9, <1>10, <1>11, Still, AccountKeeps

\* The table shows the blank row and every hour on record.
LEMMA HoursAtLoginFit ==
  ASSUME NEW d, NEW screens, NEW v, v[Hour(d)] \in Seq(Hours)
  PROVE  /\ HoursAtLogin(d, screens, v) \in Seq(Hours \cup {BlankRow})
         /\ \A h \in Hours : Copies(h, HoursAtLogin(d, screens, v)) =< Copies(h, v[Hour(d)])
<1>1. PICK A, s, b, e : /\ A = Hours \cup {BlankRow} /\ s = v[Hour(d)]
                        /\ e = <<>> /\ b = <<BlankRow>>
  OBVIOUS
<1>2. s \in Seq(A) /\ e \in Seq(A) /\ b \in Seq(A) /\ BlankRow \in A
  BY <1>1, SeqMonotonic, EmptySeq
<1>3. CASE screens = "volunteer"
  <2>1. HoursAtLogin(d, screens, v) = b \o s
    BY <1>1, <1>3 DEF HoursAtLogin, Hour
  <2>2. b \o s \in Seq(A)
    BY <1>2, ConcatProperties
  <2>3. ASSUME NEW h \in Hours
        PROVE  Copies(h, b \o s) =< Copies(h, s)
    <3>1. Copies(h, b) = 0
      <4>1. h # BlankRow
        BY PeopleAssumption
      <4> QED
        BY <1>1, <4>1, CopiesOne
    <3>2. Copies(h, b \o s) = Copies(h, b) + Copies(h, s) /\ Copies(h, s) \in Nat
      BY <1>2, CopiesConcat, CopiesType
    <3> QED
      BY <3>1, <3>2
  <2> QED
    BY <1>1, <2>1, <2>2, <2>3
<1>4. CASE screens # "volunteer"
  <2>1. HoursAtLogin(d, screens, v) = e
    BY <1>1, <1>4 DEF HoursAtLogin
  <2>2. \A h \in Hours : Copies(h, e) = 0 /\ Copies(h, s) \in Nat
    BY <1>1, <1>2, CopiesNone, CopiesType
  <2> QED
    BY <1>1, <1>2, <2>1, <2>2
<1> QED
  BY <1>3, <1>4

\* A table made anew while no callback is to run.
LEMMA IdleHoursFit ==
  ASSUME DirInv, NEW d \in Device, calls[d] = <<>>, calls'[d] = <<>>,
         UNCHANGED <<view, restarts, wanted>>,
         hours'[d] \in Seq(Hours \cup {BlankRow}),
         \A h \in Hours : Copies(h, hours'[d]) =< Copies(h, view[d][Hour(d)])
  PROVE  HoursAt(d)'
<1>1. PICK s, R, ws, l : s = view[d][Hour(d)] /\ R = hours'[d] /\ ws = <<>> /\ l = Hour(d)
  OBVIOUS
<1>2. Ahead(ws, l, s) = s
  BY <1>1 DEF Ahead
<1>3. HoursFit(d, R, ws, s)
  BY <1>1, <1>2 DEF HoursFit, OneTap
<1>4. restarts = 0 => \A h \in Hours : Copies(h, s) = wanted[d][h]
  BY <1>1, IdleHours
<1> QED
  BY <1>1, <1>2, <1>3, <1>4 DEF HoursAt

LEMMA LogInKeeps ==
  ASSUME DirInv, NEW d \in Device, LogIn(d)
  PROVE  DirInv' /\ SyncStep
<1>1. PICK p, R : p = ScreensFor(names[d]) /\ R = HoursAtLogin(d, p, view[d])
  OBVIOUS
<1>2. /\ page[d] = "login" /\ d \in members
      /\ page' = [page EXCEPT ![d] = p] /\ hours' = [hours EXCEPT ![d] = R]
      /\ UNCHANGED <<syncVars, shown, offers, calls, geocoding, members, history>>
      /\ UNCHANGED <<list, names, requests, picked, wanted, view, restarts>>
  BY <1>1 DEF LogIn, auth, history, syncVars
<1>3. LocalAt(d)
  BY DEF DirInv
<1>4. calls[d] = <<>>
  BY <1>2, <1>3 DEF LocalAt, CallsAt
<1>5. /\ Moves(page, page', d) /\ page'[d] = p /\ Moves(hours, hours', d) /\ hours'[d] = R
      /\ Moves(list, list', d) /\ Moves(names, names', d)
  BY <1>2, Changed, Still
<1>6. /\ p \in {"volunteer", "elder", "organiser"}
      /\ p = "volunteer" => names[d] = Volunteer
      /\ p = "elder" => names[d] = Elder
  BY <1>1 DEF ScreensFor
<1>7. AccountAt(d)'
  <2>1. names[d] # NoRole => names[d] = picked[d]
    BY <1>3 DEF LocalAt, AccountAt
  <2>2. Volunteer # NoRole /\ Elder # NoRole
    BY DEF Volunteer, Elder, NoRole
  <2> QED
    BY <1>2, <1>3, <1>5, <1>6, <2>1, <2>2 DEF LocalAt, AccountAt
<1>8. HoursAt(d)'
  <2>1. view[d][Hour(d)] \in Seq(Hours)
    BY <1>4, IdleHours
  <2>2. /\ R \in Seq(Hours \cup {BlankRow})
        /\ \A h \in Hours : Copies(h, R) =< Copies(h, view[d][Hour(d)])
    BY <1>1, <2>1, HoursAtLoginFit
  <2> QED
    BY <1>2, <1>4, <1>5, <2>2, IdleHoursFit
<1>9. ListAt(d)'
  BY <1>2, <1>3, <1>5, <1>6 DEF LocalAt, ListAt
<1>10. CommentsAt(d)'
  BY <1>2, <1>3, <1>5, <1>6 DEF LocalAt, CommentsAt
<1> QED
  BY <1>2, <1>4, <1>5, <1>7, <1>8, <1>9, <1>10, AccountKeeps

LEMMA LogOutKeeps ==
  ASSUME DirInv, NEW d \in Device, LogOut(d)
  PROVE  DirInv' /\ SyncStep
<1>1. PICK e : e = <<>>
  OBVIOUS
<1>2. /\ page[d] \in {"volunteer", "elder", "organiser", "list"} /\ calls[d] = e
      /\ page' = [page EXCEPT ![d] = "login"] /\ hours' = [hours EXCEPT ![d] = e]
      /\ list' = [list EXCEPT ![d] = NoList]
      /\ UNCHANGED <<syncVars, shown, offers, calls, geocoding, members, history>>
      /\ UNCHANGED <<names, requests, picked, wanted, view, restarts>>
  BY <1>1 DEF LogOut, Idle, auth, history, syncVars
<1>3. LocalAt(d)
  BY DEF DirInv
<1>4. /\ Moves(page, page', d) /\ page'[d] = "login" /\ Moves(hours, hours', d) /\ hours'[d] = e
      /\ Moves(list, list', d) /\ list'[d] = NoList /\ Moves(names, names', d)
  BY <1>2, Changed, Still
<1>5. AccountAt(d)'
  BY <1>2, <1>3, <1>4 DEF LocalAt, AccountAt
<1>6. HoursAt(d)'
  <2>1. e \in Seq(Hours \cup {BlankRow})
    BY <1>1, EmptySeq
  <2>2. view[d][Hour(d)] \in Seq(Hours)
    BY <1>1, <1>2, IdleHours
  <2>3. \A h \in Hours : Copies(h, e) =< Copies(h, view[d][Hour(d)])
    <3>1. PICK S : S = view[d][Hour(d)]
      OBVIOUS
    <3>2. \A h : Copies(h, e) = 0
      BY <1>1, CopiesNone
    <3>3. \A h : Copies(h, S) \in Nat
      BY <2>2, <3>1, CopiesType
    <3>4. \A h : Copies(h, e) =< Copies(h, S)
      BY <3>2, <3>3
    <3> QED
      BY <3>1, <3>4
  <2> QED
    BY <1>1, <1>2, <1>4, <2>1, <2>3, IdleHoursFit
<1>7. ListAt(d)'
  BY <1>2, <1>3, <1>4 DEF LocalAt, ListAt, NoList
<1>8. CommentsAt(d)'
  BY <1>2, <1>3, <1>4 DEF LocalAt, CommentsAt
<1> QED
  BY <1>1, <1>2, <1>4, <1>5, <1>6, <1>7, <1>8, AccountKeeps

-----------------------------------------------------------------------------
(* Steps that change what the device shows.                                *)

LEMMA Heard ==
  ASSUME DirInv, NEW d \in Device, MirrorInv',
         Moves(picked, picked', d), Moves(pressed, pressed', d),
         picked'[d] \in AnyRole, pressed'[d] \subseteq Place
  PROVE  \A l \in Leaf : view'[d][l] \in ValueOf(l)
<1>1. PICK mem, pick, press : mem = members' /\ pick = picked' /\ press = pressed'
  OBVIOUS
<1>2. \A u \in User : pick[u] \in AnyRole /\ press[u] \subseteq Place
  <2>1. \A u \in User : picked[u] \in AnyRole /\ pressed[u] \subseteq Place
    BY DEF DirInv, LocalAt, AccountAt, CallsAt, Device
  <2> QED
    BY <1>1, <2>1 DEF Moves, Device
<1>3. \A l \in Leaf : Allowed(mem, pick, press)[l] \subseteq ValueOf(l)
  BY <1>2, KnownTypes
<1>4. \A l \in Leaf : view'[d][l] \in Allowed(mem, pick, press)[l]
  <2>1. PICK K : K = Allowed(mem, pick, press)
    OBVIOUS
  <2>2. K = Allowed(members, picked, pressed)'
    BY <1>1, <2>1
  <2>3. \A l \in Leaf : view'[d][l] \in K[l]
    BY <2>2 DEF MirrorInv, M!HoldsOnly
  <2> QED
    BY <2>1, <2>3
<1> QED
  BY <1>3, <1>4

LEMMA ViewKeeps ==
  ASSUME DirInv, NEW d \in Device, Observe(d), HistoryGrows, SyncStep,
         UNCHANGED <<page, offers, geocoding, names, wanted, pressed, restarts>>,
         \A c \in Device \ {d} : view'[c] = view[c],
         RolesStay(view[d], view'[d]),
         Moves(calls, calls', d), Moves(picked, picked', d),
         members' \in {members, members \cup {d}},
         requests' \subseteq User \X AnyRole,
         \A c \in Device \ {d} : \A r : <<c, r>> \in requests' <=> <<c, r>> \in requests,
         AccountAt(d)', RecordAt(d)', CallsAt(d)', HoursAt(d)', PlaceAt(d)'
  PROVE  DirInv'
<1>1. MirrorInv'
  BY MirrorStep DEF DirInv
<1>2. Moves(pressed, pressed', d) /\ picked'[d] \in AnyRole /\ pressed'[d] \subseteq Place
  BY Still DEF AccountAt, CallsAt
<1>3. \A l \in Leaf : view'[d][l] \in ValueOf(l)
  BY <1>1, <1>2, Heard
<1>4. /\ ListAt(d)' /\ CommentsAt(d)'
      /\ Moves(list, list', d) /\ Moves(shown, shown', d)
  BY <1>3, ListsHear DEF Moves
<1>5. Moves(hours, hours', d)
  BY HoursHear DEF Moves
<1>6. /\ Moves(page, page', d) /\ Moves(offers, offers', d) /\ Moves(geocoding, geocoding', d)
      /\ Moves(names, names', d) /\ Moves(wanted, wanted', d) /\ wanted' \in [Device -> [Hours -> Nat]]
  BY Still
<1>7. restarts' = 0 => restarts = 0
  OBVIOUS
<1> QED
  BY <1>2, <1>4, <1>5, <1>6, <1>7, Assembled

\* The roles at the start.
LEMMA BlankRole ==
  ASSUME NEW u \in User
  PROVE  Blank[<<u, "role">>] = IF u \in Newcomers THEN Absent ELSE Role[u]
<1>1. <<u, "role">> \in Leaf
  BY Leaves
<1>2. AccountOf(u, Role[u])[<<u, "role">>] = Role[u]
  BY Leaves DEF AccountOf
<1> QED
  BY <1>1, <1>2 DEF Blank, ListField

\* A role on record is the one that was picked.
LEMMA RoleShown ==
  ASSUME DirInv, NEW d \in Device, NEW u \in User, Exists(view[d], u)
  PROVE  RoleOf(view[d], u) = picked[u]
<1>1. PICK l : l = <<u, "role">>
  OBVIOUS
<1>2. l \in Leaf /\ l[1] = u /\ l[2] = "role"
  BY <1>1, Leaves
<1>3. view[d][l] \in Known(l, members, picked, pressed)
  BY <1>2, ShownTypes
<1>4. view[d][l] \in {Blank[l], picked[u]}
  BY <1>2, <1>3 DEF Known
<1>5. u \notin Newcomers => picked[u] = Role[u]
  BY DEF DirInv, LocalAt, AccountAt, Device
<1> QED
  BY <1>1, <1>4, <1>5, BlankRole DEF Exists, RoleOf

\* A message from another device: it says nothing of the user's own record but
\* comments, and of a role what was picked.
LEMMA DeliverKeepsAll ==
  ASSUME DirInv, NEW d \in Device, Deliver(d)
  PROVE  DirInv' /\ SyncStep
<1>1. /\ Sync!Deliver(d) /\ Observe(d)
      /\ UNCHANGED <<page, offers, calls, geocoding, taps, auth, history>>
      /\ UNCHANGED <<members, names, requests, picked, wanted, pressed>>
  BY DEF Deliver, local, auth, history
<1>2. M!Deliver(d)
  BY <1>1, SyncActions
<1>3. restarts' = restarts
  BY <1>2 DEF M!Deliver
<1>4. PICK P : P = Issued(members, picked)
  OBVIOUS
<1>5. M!TypeOK /\ M!SentOnly(P)
  BY <1>4 DEF DirInv, MirrorInv, M!IInv
<1>6. /\ \A c \in Device \ {d} : view'[c] = view[c]
      /\ \E c \in Device : \E w \in P[c] :
           \A l \in Leaf : view'[d][l] # view[d][l] =>
                             c # d /\ l \in DOMAIN w /\ view'[d][l] = w[l]
  BY <1>2, <1>5, MirrorAssumptions, M!DeliverShows
<1>7. PICK c, w : /\ c \in Device /\ w \in P[c]
                  /\ \A l \in Leaf : view'[d][l] # view[d][l] =>
                                    c # d /\ l \in DOMAIN w /\ view'[d][l] = w[l]
  BY <1>6
<1>8. \A l \in DOMAIN w : /\ l[2] = "comments" \/ l[1] = c
                          /\ l[2] = "role" => c \in members /\ w[l] = picked[c]
  BY <1>4, <1>7 DEF Issued
<1>9. ASSUME NEW f \in Field \ {"comments"}
      PROVE  view'[d][<<d, f>>] = view[d][<<d, f>>]
  <2>1. PICK l : l = <<d, f>>
    OBVIOUS
  <2>2. l \in Leaf /\ l[1] = d /\ l[2] # "comments"
    BY <2>1, Leaves DEF Device
  <2> QED
    BY <1>7, <1>8, <2>1, <2>2
<1>10. RolesStay(view[d], view'[d])
  <2>1. SUFFICES ASSUME NEW u \in User, Exists(view[d], u)
                 PROVE  RoleOf(view'[d], u) = RoleOf(view[d], u)
    BY DEF RolesStay
  <2>2. PICK l : l = <<u, "role">>
    OBVIOUS
  <2>3. l \in Leaf /\ l[1] = u /\ l[2] = "role"
    BY <2>2, Leaves
  <2>4. view[d][l] = picked[u]
    BY <2>1, <2>2, RoleShown DEF RoleOf
  <2>5. view'[d][l] = view[d][l] \/ view'[d][l] = picked[u]
    <3>1. CASE view'[d][l] # view[d][l]
      <4>1. l \in DOMAIN w /\ view'[d][l] = w[l]
        BY <1>7, <2>3, <3>1
      <4>2. l[1] = c /\ w[l] = picked[c]
        BY <1>8, <2>3, <4>1
      <4> QED
        BY <2>3, <4>1, <4>2
    <3> QED
      BY <3>1
  <2> QED
    BY <2>2, <2>4, <2>5 DEF RoleOf
<1>11. HistoryGrows /\ SyncStep
  BY <1>1, SameHistory DEF SyncStep
<1>12. LocalAt(d) /\ PerDevice
  BY DEF DirInv
<1>13. AccountAt(d)'
  BY <1>1, <1>12 DEF LocalAt, AccountAt
<1>14. RecordAt(d)'
  <2>1. "role" \in Field \ {"comments"}
    BY Leaves
  <2>2. view'[d][<<d, "role">>] = view[d][<<d, "role">>]
    BY <1>9, <2>1
  <2> QED
    BY <1>1, <1>3, <1>9, <1>12, <2>2 DEF LocalAt, RecordAt, RoleOf
<1>15. CallsAt(d)'
  BY <1>1, <1>12 DEF LocalAt, CallsAt
<1>16. view'[d][Hour(d)] = view[d][Hour(d)]
  <2>1. "freeHours" \in Field \ {"comments"}
    BY Leaves
  <2> QED
    BY <1>9, <2>1 DEF Hour
<1>17. HoursAt(d)'
  <2>1. hours'[d] = hours[d]
    BY <1>1, <1>16, HoursHear
  <2> QED
    BY <1>1, <1>3, <1>12, <1>16, <2>1 DEF LocalAt, HoursAt
<1>18. PlaceAt(d)'
  <2>1. ASSUME NEW f \in Coordinate
        PROVE  M!Replay(calls[d], view'[d])[<<d, f>>] = M!Replay(calls[d], view[d])[<<d, f>>]
    <3>1. PICK l : l = <<d, f>>
      OBVIOUS
    <3>2. l \in Leaf /\ view'[d][l] = view[d][l]
      <4>1. f \in Field \ {"comments"} /\ d \in User
        BY DEF Field, Coordinate, Device
      <4> QED
        BY <1>9, <3>1, <4>1, Leaves
    <3> QED
      BY <3>1, <3>2 DEF M!Replay
  <2>2. "latitude" \in Coordinate /\ "longitude" \in Coordinate
    BY DEF Coordinate
  <2> QED
    BY <1>1, <1>3, <1>12, <2>1, <2>2 DEF LocalAt, PlaceAt
<1>19. Moves(calls, calls', d) /\ Moves(picked, picked', d)
  BY <1>1, Still
<1>20. requests' \subseteq User \X AnyRole /\ members' \in {members, members \cup {d}}
  BY <1>1, <1>12 DEF PerDevice
<1> QED
  BY <1>1, <1>3, <1>6, <1>10, <1>11, <1>13, <1>14, <1>15, <1>17, <1>18, <1>19, <1>20, ViewKeeps

\* A write of the device's own shows at once.
LEMMA OwnWriteShows ==
  ASSUME DirInv, NEW d \in Device, NEW w \in M!Write, Sync!LocalWrite(d, w)
  PROVE  /\ view'[d] = M!Overlay(w, view[d]) /\ view[d] \in [Leaf -> Value]
         /\ \A l \in Leaf : view'[d][l] = IF l \in DOMAIN w THEN w[l] ELSE view[d][l]
         /\ \A c \in Device \ {d} : view'[c] = view[c]
         /\ restarts' = restarts
<1>1. view \in [Device -> [Leaf -> Value]]
  BY ShownTypes
<1>2. /\ view' = [view EXCEPT ![d] = M!Mirror(d, M!Overlay(w, view[d]))]
      /\ restarts' = restarts
  BY SyncActions DEF M!LocalWrite
<1>3. M!Overlay(w, view[d]) \in [Leaf -> Value]
  BY <1>1, MirrorAssumptions, M!OverlayType
<1>4. view'[d] = M!Overlay(w, view[d])
  BY <1>1, <1>2, <1>3, MirrorAll
<1> QED
  BY <1>1, <1>2, <1>4 DEF M!Overlay

LEMMA PlannedAllowed ==
  ASSUME NEW d \in Device, NEW mem, NEW pick, NEW press, press[d] \subseteq Place,
         NEW w \in Planned(d, press[d])
  PROVE  w \in M!WritesOf(Allowed(mem, pick, press)) /\ w \in Issued(mem, pick)[d]
<1>1. PICK u \in User, f \in Field \ {"role"} :
        /\ DOMAIN w = {<<u, f>>} /\ w[<<u, f>>] \in ValueOf(<<u, f>>)
        /\ f = "comments" \/ u = d
        /\ f \in Coordinate => w[<<u, f>>] \in press[d]
  <2>1. PICK P : P = press[d]
    OBVIOUS
  <2>2. P \subseteq Place /\ w \in Planned(d, P)
    BY <2>1
  <2>3. PICK u \in User, f \in Field \ {"role"} :
          /\ w = PutLeaf(u, f, w[<<u, f>>])
          /\ DOMAIN w = {<<u, f>>} /\ w[<<u, f>>] \in ValueOf(<<u, f>>)
          /\ f = "comments" \/ u = d
          /\ f \in Coordinate => w[<<u, f>>] \in P
    BY <2>2, PlannedTypes
  <2> QED
    BY <2>1, <2>3
<1>2. w \in M!Write
  BY PlannedTypes
<1>3. PICK l : l = <<u, f>>
  OBVIOUS
<1>4. l \in Leaf /\ l[1] = u /\ l[2] = f
  BY <1>3, Leaves
<1>5. w[l] \in Known(l, mem, pick, press)
  <2>1. CASE f \in Coordinate
    <3>1. Known(l, mem, pick, press) = {Absent, 0} \cup press[u]
      BY <1>4, <2>1 DEF Known, Coordinate
    <3>2. u = d
      BY <1>1, <2>1 DEF Coordinate
    <3> QED
      BY <1>1, <1>3, <2>1, <3>1, <3>2
  <2>2. CASE f \notin Coordinate
    <3>1. Known(l, mem, pick, press) = ValueOf(l)
      BY <1>4, <2>2 DEF Known
    <3> QED
      BY <1>1, <1>3, <3>1
  <2> QED
    BY <2>1, <2>2
<1>6. w[l] \in Allowed(mem, pick, press)[l]
  BY <1>4, <1>5 DEF Allowed
<1>7. w \in M!WritesOf(Allowed(mem, pick, press))
  BY <1>1, <1>2, <1>3, <1>6 DEF M!WritesOf
<1>8. w \in Issued(mem, pick)[d]
  BY <1>1, <1>2, <1>3, <1>4 DEF Issued
<1> QED
  BY <1>7, <1>8

\* The free hours of a device, before and after its next callback.
LEMMA CallbackHours ==
  ASSUME NEW d, NEW R, NEW A, NEW ws \in Seq(A), ws # <<>>, NEW s, HoursFit(d, R, ws, s)
  PROVE  /\ OneTap(s, Ahead(ws, Hour(d), s))
         /\ Ahead(ws, Hour(d), s) = IF Hour(d) \in DOMAIN Head(ws) THEN Head(ws)[Hour(d)] ELSE s
         /\ \A t : Ahead(Tail(ws), Hour(d), t) = t
         /\ \A i \in 2 .. Len(Tail(ws)) : Hour(d) \notin DOMAIN Tail(ws)[i]
<1>1. PICK q, l : q = Tail(ws) /\ l = Hour(d)
  OBVIOUS
<1>2. /\ q \in Seq(A) /\ Len(q) = Len(ws) - 1 /\ Head(ws) = ws[1]
      /\ Len(ws) \in Nat /\ Len(ws) > 0
      /\ \A i \in 1 .. Len(q) : q[i] = ws[i + 1]
  BY <1>1, HeadTailProperties
<1>3. \A i \in 2 .. Len(ws) : l \notin DOMAIN ws[i]
  BY <1>1 DEF HoursFit
<1>4. \A i \in 1 .. Len(q) : l \notin DOMAIN q[i]
  <2> TAKE i \in 1 .. Len(q)
  <2>1. i + 1 \in 2 .. Len(ws)
    BY <1>2
  <2> QED
    BY <1>2, <1>3, <2>1
<1>5. ASSUME NEW t
      PROVE  Ahead(q, l, t) = t
  <2>1. q # <<>> => 1 \in 1 .. Len(q)
    BY <1>2
  <2> QED
    BY <1>4, <2>1 DEF Ahead
<1>6. \A i \in 2 .. Len(q) : l \notin DOMAIN q[i]
  <2> TAKE i \in 2 .. Len(q)
  <2>1. i \in 1 .. Len(q)
    BY <1>2
  <2> QED
    BY <1>4, <2>1
<1>7. Ahead(ws, l, s) = IF l \in DOMAIN Head(ws) THEN Head(ws)[l] ELSE s
  BY <1>2 DEF Ahead
<1>8. OneTap(s, Ahead(ws, l, s))
  BY <1>1 DEF HoursFit
<1> QED
  BY <1>1, <1>5, <1>6, <1>7, <1>8

LEMMA RunCallbackKeeps ==
  ASSUME DirInv, NEW d \in Device, RunCallback(d)
  PROVE  DirInv' /\ SyncStep
<1>1. PICK ws, w : ws = calls[d] /\ w = Head(ws)
  OBVIOUS
<1>2. /\ ws # <<>> /\ Sync!LocalWrite(d, w) /\ Observe(d)
      /\ calls' = [calls EXCEPT ![d] = Tail(ws)]
      /\ UNCHANGED <<page, offers, geocoding, taps, auth, history>>
      /\ UNCHANGED <<members, names, requests, picked, wanted, pressed>>
  BY <1>1 DEF RunCallback, auth, history
<1>3. LocalAt(d) /\ PerDevice
  BY DEF DirInv
<1>4. /\ pressed[d] \subseteq Place /\ ws \in Seq(Planned(d, pressed[d])) /\ page[d] # "login"
  BY <1>1, <1>2, <1>3 DEF LocalAt, CallsAt
<1>5. w \in Planned(d, pressed[d]) /\ Tail(ws) \in Seq(Planned(d, pressed[d]))
  BY <1>1, <1>2, <1>4, HeadTailProperties
<1>6. w \in M!Write /\ ws \in Seq(M!Write)
  <2>1. Planned(d, pressed[d]) \subseteq M!Write
    BY <1>4, PlannedTypes
  <2> QED
    BY <1>4, <1>5, <2>1, SeqMonotonic
<1>7. /\ view'[d] = M!Overlay(w, view[d]) /\ view[d] \in [Leaf -> Value]
      /\ \A l \in Leaf : view'[d][l] = IF l \in DOMAIN w THEN w[l] ELSE view[d][l]
      /\ \A c \in Device \ {d} : view'[c] = view[c]
      /\ restarts' = restarts
  BY <1>2, <1>6, OwnWriteShows
<1>8. \A u : <<u, "role">> \notin DOMAIN w
  <2>1. PICK u \in User, f \in Field \ {"role"} :
          DOMAIN w = {<<u, f>>} /\ w[<<u, f>>] \in ValueOf(<<u, f>>)
    BY <1>4, <1>5, PlannedTypes
  <2> QED
    BY <2>1
<1>9. \A u \in User : RoleOf(view'[d], u) = RoleOf(view[d], u)
  <2> TAKE u \in User
  <2>1. <<u, "role">> \in Leaf
    BY Leaves
  <2> QED
    BY <1>7, <1>8, <2>1 DEF RoleOf
<1>10. HistoryGrows /\ SyncStep
  <2>1. w \in M!WritesOf(Allowed(members, picked, pressed)) /\ w \in Issued(members, picked)[d]
    BY <1>4, <1>5, PlannedAllowed
  <2>2. w \in M!WritesOf(Allowed(members', picked', pressed')) /\ w \in Issued(members', picked')[d]
    BY <1>2, <2>1
  <2> QED
    BY <1>2, <2>2, SameHistory DEF SyncStep
<1>11. Moves(calls, calls', d) /\ calls'[d] = Tail(ws) /\ Moves(picked, picked', d)
  BY <1>2, Changed, Still
<1>12. AccountAt(d)'
  BY <1>2, <1>3 DEF LocalAt, AccountAt
<1>13. RecordAt(d)'
  <2>1. d \in members
    BY <1>3, <1>4 DEF LocalAt, AccountAt
  <2> QED
    BY <1>2, <1>3, <1>7, <1>9, <2>1 DEF LocalAt, RecordAt, Device
<1>14. CallsAt(d)'
  BY <1>2, <1>3, <1>4, <1>5, <1>11 DEF LocalAt, CallsAt
<1>15. HoursAt(d)'
  <2>1. PICK s, t, R, l, q : /\ s = view[d][l] /\ t = Ahead(ws, l, s) /\ R = hours[d]
                             /\ l = Hour(d) /\ q = Tail(ws)
    OBVIOUS
  <2>2. l \in Leaf /\ ValueOf(l) = Seq(Hours)
    BY <2>1, Leaves, Values DEF Hour, Device
  <2>3. HoursFit(d, R, ws, s)
    BY <1>1, <1>3, <2>1 DEF LocalAt, HoursAt
  <2>4. /\ OneTap(s, t) /\ t = (IF l \in DOMAIN w THEN w[l] ELSE s)
        /\ Ahead(q, l, t) = t /\ \A i \in 2 .. Len(q) : l \notin DOMAIN q[i]
    <3>1. ws \in Seq(M!Write) /\ ws # <<>> /\ HoursFit(d, R, ws, s)
      BY <1>2, <1>6, <2>3
    <3>2. /\ OneTap(s, Ahead(ws, Hour(d), s))
          /\ Ahead(ws, Hour(d), s) = IF Hour(d) \in DOMAIN Head(ws) THEN Head(ws)[Hour(d)] ELSE s
          /\ \A x : Ahead(Tail(ws), Hour(d), x) = x
          /\ \A i \in 2 .. Len(Tail(ws)) : Hour(d) \notin DOMAIN Tail(ws)[i]
      BY <3>1, CallbackHours
    <3> QED
      BY <1>1, <2>1, <3>2
  <2>5. view'[d][l] = t
    BY <1>7, <2>1, <2>2, <2>4
  <2>6. s \in Seq(Hours) /\ t \in Seq(Hours)
    <3>1. s \in Seq(Hours)
      BY <2>1, <2>2, ShownTypes
    <3>2. l \in DOMAIN w => w[l] \in ValueOf(l)
      <4>1. PICK u \in User, f \in Field \ {"role"} :
              DOMAIN w = {<<u, f>>} /\ w[<<u, f>>] \in ValueOf(<<u, f>>)
        BY <1>4, <1>5, PlannedTypes
      <4> QED
        BY <4>1
    <3> QED
      BY <2>2, <2>4, <3>1, <3>2
  <2>7. /\ R \in Seq(Hours \cup {BlankRow})
        /\ \A h \in Hours : Copies(h, R) =< Copies(h, s) /\ Copies(h, R) =< Copies(h, t)
    BY <2>1, <2>3 DEF HoursFit
  <2>8. PICK old, new, Q : old = view[d] /\ new = view'[d] /\ Q = HoursAfter(d, R, old, new)
    OBVIOUS
  <2>9. Q \in Seq(Hours \cup {BlankRow}) /\ \A h \in Hours : Copies(h, Q) =< Copies(h, t)
    BY <2>1, <2>4, <2>5, <2>6, <2>7, <2>8, RowsFollow
  <2>10. hours'[d] = Q
    <3>1. hours' = [hours EXCEPT ![d] = Q]
      BY <1>2, <2>1, <2>8, HoursHear
    <3> QED
      BY <3>1, Changed
  <2>11. HoursFit(d, Q, q, t)
    BY <2>1, <2>4, <2>9 DEF HoursFit, OneTap
  <2>12. restarts = 0 => \A h \in Hours : Copies(h, t) = wanted[d][h]
    BY <1>1, <1>3, <2>1 DEF LocalAt, HoursAt
  <2> QED
    BY <1>2, <1>7, <1>11, <2>1, <2>4, <2>5, <2>10, <2>11, <2>12 DEF HoursAt
<1>16. PlaceAt(d)'
  <2>1. ASSUME NEW f \in Coordinate
        PROVE  M!Replay(Tail(ws), view'[d])[<<d, f>>] = M!Replay(ws, view[d])[<<d, f>>]
    <3>1. PICK l, data : l = <<d, f>> /\ data = view[d]
      OBVIOUS
    <3>2. l \in Leaf
      BY <3>1, Leaves DEF Coordinate, Device
    <3>3. M!Replay(Tail(ws), M!Overlay(Head(ws), data))[l] = M!Replay(ws, data)[l]
      BY <1>2, <1>6, <1>7, <3>1, <3>2, MirrorAssumptions, M!ReplayHead
    <3> QED
      BY <1>1, <1>7, <3>1, <3>3
  <2>2. "latitude" \in Coordinate /\ "longitude" \in Coordinate
    BY DEF Coordinate
  <2> QED
    BY <1>1, <1>3, <1>7, <1>11, <2>1, <2>2 DEF LocalAt, PlaceAt
<1>17. RolesStay(view[d], view'[d])
  BY <1>9 DEF RolesStay
<1>18. requests' \subseteq User \X AnyRole /\ members' \in {members, members \cup {d}}
  BY <1>2, <1>3 DEF PerDevice
<1> QED
  BY <1>2, <1>7, <1>10, <1>11, <1>12, <1>13, <1>14, <1>15, <1>16, <1>17, <1>18, ViewKeeps

\* What sign-up writes.
LEMMA AccountWrite ==
  ASSUME NEW d \in Device, NEW r \in AnyRole, NEW mem, NEW pick, NEW press,
         d \in mem, pick[d] = r
  PROVE  /\ DOMAIN AccountOf(d, r) = {d} \X Field
         /\ AccountOf(d, r)[<<d, "role">>] = r /\ AccountOf(d, r)[<<d, "freeHours">>] = <<>>
         /\ AccountOf(d, r)[<<d, "latitude">>] = AccountOf(d, r)[<<d, "longitude">>]
         /\ AccountOf(d, r) \in M!Write
         /\ AccountOf(d, r) \in M!WritesOf(Allowed(mem, pick, press))
         /\ AccountOf(d, r) \in Issued(mem, pick)[d]
<1>1. PICK w, e : w = AccountOf(d, r) /\ e = <<>>
  OBVIOUS
<1>2. w = [l \in {d} \X Field |-> IF l[2] = "role" THEN r
                                  ELSE IF l[2] \in ListField THEN e
                                  ELSE IF r = Volunteer THEN 0 ELSE Absent]
  BY <1>1 DEF AccountOf
<1>3. e \in Seq(Hours) /\ e \in Seq(User)
  BY <1>1, EmptySeq
<1>4. ASSUME NEW l \in {d} \X Field
      PROVE  l \in Leaf /\ w[l] \in Known(l, mem, pick, press) /\ w[l] \in Value
  <2>1. PICK f \in Field : l = <<d, f>>
    OBVIOUS
  <2>2. l \in Leaf /\ l[1] = d /\ l[2] = f
    BY <2>1, Leaves DEF Device
  <2>3. w[l] = IF f = "role" THEN r
               ELSE IF f \in ListField THEN e
               ELSE IF r = Volunteer THEN 0 ELSE Absent
    BY <1>2, <2>2
  <2>4. w[l] \in ValueOf(l)
    BY <1>3, <2>1, <2>3, Values, Leaves DEF ListField, Coordinate
  <2>5. w[l] \in Known(l, mem, pick, press)
    <3>1. CASE f = "role"
      <4>1. Known(l, mem, pick, press) = {Blank[l]} \cup {pick[u] : u \in {d} \cap mem}
        BY <2>2, <3>1 DEF Known
      <4> QED
        BY <2>3, <3>1, <4>1
    <3>2. CASE f \in Coordinate
      <4>1. Known(l, mem, pick, press) = {Absent, 0} \cup press[d]
        BY <2>2, <3>2 DEF Known, Coordinate
      <4>2. w[l] \in {0, Absent}
        BY <2>3, <3>2 DEF Coordinate, ListField
      <4> QED
        BY <4>1, <4>2
    <3>3. CASE f # "role" /\ f \notin Coordinate
      <4>1. Known(l, mem, pick, press) = ValueOf(l)
        BY <2>2, <3>3 DEF Known
      <4> QED
        BY <2>4, <4>1
    <3> QED
      BY <3>1, <3>2, <3>3
  <2> QED
    BY <2>2, <2>4, <2>5, Values
<1>5. w \in M!Write
  <2>1. PICK S : S = {d} \X Field
    OBVIOUS
  <2>2. <<d, "role">> \in S
    BY <2>1, Leaves
  <2>3. S \in (SUBSET Leaf) \ {{}}
    BY <1>4, <2>1, <2>2
  <2>4. w \in [S -> Value]
    BY <1>2, <1>4, <2>1
  <2> QED
    BY <2>3, <2>4 DEF M!Write
<1>6. DOMAIN w = {d} \X Field
  BY <1>2
<1>7. w \in M!WritesOf(Allowed(mem, pick, press))
  <2>1. \A l \in DOMAIN w : w[l] \in Allowed(mem, pick, press)[l]
    BY <1>4, <1>6 DEF Allowed
  <2> QED
    BY <1>5, <2>1 DEF M!WritesOf
<1>8. w \in Issued(mem, pick)[d]
  <2>1. \A l \in DOMAIN w : l[1] = d /\ (l[2] = "role" => w[l] = r)
    BY <1>2, <1>6
  <2> QED
    BY <1>5, <2>1 DEF Issued
<1>9. /\ w[<<d, "role">>] = r /\ w[<<d, "freeHours">>] = e
      /\ w[<<d, "latitude">>] = w[<<d, "longitude">>]
  <2>1. /\ <<d, "role">> \in {d} \X Field /\ <<d, "freeHours">> \in {d} \X Field
        /\ <<d, "latitude">> \in {d} \X Field /\ <<d, "longitude">> \in {d} \X Field
    BY Leaves
  <2>2. "freeHours" \in ListField /\ "latitude" \notin ListField /\ "longitude" \notin ListField
    BY DEF ListField
  <2> QED
    BY <1>2, <2>1, <2>2
<1> QED
  BY <1>1, <1>5, <1>6, <1>7, <1>8, <1>9

LEMMA SignUpKeeps ==
  ASSUME DirInv, NEW d \in Device, d \in Newcomers, NEW r \in Picks, SignUp(d, r)
  PROVE  DirInv' /\ SyncStep
<1>1. PICK w, e : w = AccountOf(d, r) /\ e = <<>>
  OBVIOUS
<1>2. /\ page[d] = "login" /\ d \notin members
      /\ members' = members \cup {d} /\ requests' = requests \cup {<<d, r>>}
      /\ picked' = [picked EXCEPT ![d] = r]
      /\ Sync!LocalWrite(d, w) /\ Observe(d)
      /\ UNCHANGED <<page, offers, calls, geocoding, taps, names, wanted, pressed>>
  BY <1>1 DEF SignUp
<1>3. LocalAt(d) /\ PerDevice
  BY DEF DirInv
<1>4. r \in AnyRole
  BY PeopleAssumption
<1>5. Moves(picked, picked', d) /\ picked'[d] = r /\ Moves(calls, calls', d)
  BY <1>2, Changed, Still
<1>6. /\ DOMAIN w = {d} \X Field
      /\ w[<<d, "role">>] = r /\ w[<<d, "freeHours">>] = e
      /\ w[<<d, "latitude">>] = w[<<d, "longitude">>]
      /\ w \in M!Write
      /\ w \in M!WritesOf(Allowed(members', picked', pressed'))
      /\ w \in Issued(members', picked')[d]
  <2>1. PICK mem, pick, press : mem = members' /\ pick = picked' /\ press = pressed'
    OBVIOUS
  <2>2. d \in mem /\ pick[d] = r
    BY <1>2, <1>5, <2>1
  <2>3. /\ DOMAIN w = {d} \X Field
        /\ w[<<d, "role">>] = r /\ w[<<d, "freeHours">>] = e
        /\ w[<<d, "latitude">>] = w[<<d, "longitude">>]
        /\ w \in M!Write
        /\ w \in M!WritesOf(Allowed(mem, pick, press))
        /\ w \in Issued(mem, pick)[d]
    BY <1>1, <1>4, <2>2, AccountWrite
  <2> QED
    BY <2>1, <2>3
<1>7. /\ \A l \in Leaf : view'[d][l] = IF l \in DOMAIN w THEN w[l] ELSE view[d][l]
      /\ \A c \in Device \ {d} : view'[c] = view[c]
      /\ restarts' = restarts
  BY <1>2, <1>6, OwnWriteShows
<1>8. \A f \in Field : view'[d][<<d, f>>] = w[<<d, f>>]
  BY <1>6, <1>7, Leaves DEF Device
<1>9. HistoryGrows /\ SyncStep
  <2>1. \A u \in members : picked'[u] = picked[u]
    BY <1>2, <1>3, <1>5 DEF PerDevice, Moves, Device
  <2> QED
    BY <1>2, <1>6, <2>1 DEF HistoryGrows, SyncStep
<1>10. RolesStay(view[d], view'[d])
  <2>1. SUFFICES ASSUME NEW u \in User, Exists(view[d], u)
                 PROVE  RoleOf(view'[d], u) = RoleOf(view[d], u)
    BY DEF RolesStay
  <2>2. u # d
    <3>1. RoleOf(view[d], d) = Blank[<<d, "role">>]
      BY <1>2, <1>3, Leaves DEF LocalAt, RecordAt, RoleOf
    <3>2. ~Exists(view[d], d)
      BY <3>1, BlankRole DEF Exists, Device
    <3> QED
      BY <2>1, <3>2
  <2>3. <<u, "role">> \in Leaf /\ <<u, "role">> \notin DOMAIN w
    BY <1>6, <2>2, Leaves
  <2> QED
    BY <1>7, <2>3 DEF RoleOf
<1>11. AccountAt(d)'
  BY <1>2, <1>3, <1>4, <1>5 DEF LocalAt, AccountAt
<1>12. RecordAt(d)'
  BY <1>2, <1>5, <1>6, <1>8, Leaves DEF RecordAt, RoleOf
<1>13. CallsAt(d)'
  BY <1>2, <1>3 DEF LocalAt, CallsAt
<1>14. calls[d] = e
  BY <1>1, <1>2, <1>3 DEF LocalAt, CallsAt
<1>15. view'[d][Hour(d)] = view[d][Hour(d)]
  <2>1. view[d][<<d, "freeHours">>] = Blank[<<d, "freeHours">>]
    BY <1>2, <1>3, Leaves DEF LocalAt, RecordAt
  <2>2. <<d, "freeHours">> \in Leaf
    BY Leaves DEF Device
  <2>3. Blank[<<d, "freeHours">>] = e
    BY <1>1, <2>2 DEF Blank, ListField
  <2> QED
    BY <1>6, <1>8, <2>1, <2>3, Leaves DEF Hour
<1>16. HoursAt(d)'
  <2>1. hours'[d] = hours[d]
    BY <1>2, <1>15, HoursHear
  <2> QED
    BY <1>2, <1>3, <1>7, <1>15, <2>1 DEF LocalAt, HoursAt
<1>17. PlaceAt(d)'
  <2>1. ASSUME NEW f \in Coordinate
        PROVE  M!Replay(e, view'[d])[<<d, f>>] = w[<<d, f>>]
    <3>1. PICK l : l = <<d, f>>
      OBVIOUS
    <3>2. f \in Field
      BY DEF Coordinate, Field
    <3>3. l \in Leaf /\ view'[d][l] = w[l]
      BY <1>8, <3>1, <3>2, Leaves DEF Device
    <3>4. M!Touching(e, l) = {}
      BY <1>1 DEF M!Touching
    <3> QED
      BY <3>1, <3>3, <3>4 DEF M!Replay
  <2>2. "latitude" \in Coordinate /\ "longitude" \in Coordinate
    BY DEF Coordinate
  <2> QED
    BY <1>2, <1>6, <1>14, <2>1, <2>2 DEF PlaceAt
<1>18. /\ requests' \subseteq User \X AnyRole
       /\ \A c \in Device \ {d} : \A x : <<c, x>> \in requests' <=> <<c, x>> \in requests
  BY <1>2, <1>3, <1>4 DEF PerDevice, Device
<1> QED
  BY <1>2, <1>5, <1>7, <1>9, <1>10, <1>11, <1>12, <1>13, <1>16, <1>17, <1>18, ViewKeeps

-----------------------------------------------------------------------------
(* Steps of the server, and the crash.                                     *)

LEMMA CommitKeepsAll ==
  ASSUME DirInv, NEW d \in Device, Commit(d)
  PROVE  DirInv' /\ SyncStep
<1>1. /\ Sync!Commit(d)
      /\ UNCHANGED <<page, hours, list, shown, offers, calls, geocoding>>
      /\ UNCHANGED <<members, names, requests, picked, wanted, pressed>>
  BY DEF Commit, local, auth, history
<1>2. view' = view /\ restarts' = restarts
  BY <1>1, SyncActions DEF M!Commit
<1>3. HistoryGrows /\ SyncStep
  BY <1>1, SameHistory DEF SyncStep
<1>4. LocalAt(d) /\ PerDevice
  BY DEF DirInv
<1>5. AccountAt(d)'
  BY <1>1, <1>4 DEF LocalAt, AccountAt
<1>6. RecordAt(d)'
  BY <1>1, <1>2, <1>4 DEF LocalAt, RecordAt
<1>7. CallsAt(d)'
  BY <1>1, <1>4 DEF LocalAt, CallsAt
<1>8. HoursAt(d)'
  BY <1>1, <1>2, <1>4 DEF LocalAt, HoursAt
<1>9. PlaceAt(d)'
  BY <1>1, <1>2, <1>4 DEF LocalAt, PlaceAt
<1>10. ListAt(d)'
  BY <1>1, <1>2, <1>4 DEF LocalAt, ListAt
<1>11. CommentsAt(d)'
  BY <1>1, <1>2, <1>4 DEF LocalAt, CommentsAt
<1>12. requests' \subseteq User \X AnyRole /\ members' \in {members, members \cup {d}}
  BY <1>1, <1>4 DEF PerDevice
<1> QED
  BY <1>1, <1>2, <1>3, <1>5, <1>6, <1>7, <1>8, <1>9, <1>10, <1>11, <1>12, Still, Assembled

LEMMA SwipeBlankRowKeeps ==
  ASSUME DirInv, NEW v \in Device, SwipeBlankRow(v)
  PROVE  DirInv' /\ SyncStep
<1>1. PICK e : e = <<>>
  OBVIOUS
<1>2. /\ page[v] = "volunteer" /\ calls[v] = e /\ Sync!Restart(v)
      /\ page' = [page EXCEPT ![v] = "login"] /\ hours' = [hours EXCEPT ![v] = e]
      /\ geocoding' = [geocoding EXCEPT ![v] = e]
      /\ UNCHANGED <<list, shown, offers, calls>>
      /\ UNCHANGED <<members, names, requests, picked, wanted, pressed>>
  BY <1>1 DEF SwipeBlankRow, OnProfile, Idle, auth, history
<1>3. LocalAt(v) /\ PerDevice
  BY DEF DirInv
<1>4. /\ view'[v] = server /\ \A c \in Device \ {v} : view'[c] = view[c]
      /\ restarts' # 0
  <2>1. M!Restart(v) /\ restarts \in Nat
    BY <1>2, SyncActions DEF DirInv, MirrorInv, M!IInv, M!TypeOK
  <2>2. view' = [view EXCEPT ![v] = M!Mirror(v, server)] /\ restarts' = restarts + 1
    BY <2>1 DEF M!Restart
  <2>3. M!Mirror(v, server) = server
    BY ShownTypes, MirrorAll
  <2>4. view \in [Device -> [Leaf -> Value]]
    BY ShownTypes
  <2> QED
    BY <2>1, <2>2, <2>3, <2>4
<1>5. HistoryGrows /\ SyncStep
  BY <1>2, SameHistory DEF SyncStep
<1>6. /\ Moves(page, page', v) /\ page'[v] = "login"
      /\ Moves(hours, hours', v) /\ hours'[v] = e
      /\ Moves(geocoding, geocoding', v) /\ geocoding'[v] = e
  BY <1>2, Changed
<1>7. AccountAt(v)'
  BY <1>2, <1>3, <1>6 DEF LocalAt, AccountAt
<1>8. RecordAt(v)'
  <2>1. v \in members
    BY <1>2, <1>3 DEF LocalAt, AccountAt
  <2> QED
    BY <1>2, <1>4, <2>1 DEF RecordAt
<1>9. CallsAt(v)'
  <2>1. e \in Seq(pressed[v]) /\ calls[v] = e
    BY <1>1, <1>2, EmptySeq
  <2> QED
    BY <1>1, <1>2, <1>3, <1>6, <2>1 DEF LocalAt, CallsAt
<1>10. HoursAt(v)'
  <2>1. PICK s, l : s = server[l] /\ l = Hour(v)
    OBVIOUS
  <2>2. l \in Leaf /\ ValueOf(l) = Seq(Hours)
    BY <2>1, Leaves, Values DEF Hour, Device
  <2>3. s \in Seq(Hours)
    BY <2>1, <2>2, ShownTypes
  <2>4. e \in Seq(Hours \cup {BlankRow}) /\ \A h : Copies(h, e) = 0
    BY <1>1, EmptySeq, CopiesNone
  <2>5. \A h : Copies(h, s) \in Nat
    BY <2>3, CopiesType
  <2>6. \A h \in Hours : Copies(h, e) =< Copies(h, s)
    BY <2>4, <2>5
  <2>7. Ahead(e, l, s) = s /\ Len(e) = 0
    BY <1>1 DEF Ahead
  <2>8. HoursFit(v, e, e, s)
    BY <1>1, <2>1, <2>4, <2>6, <2>7 DEF HoursFit, OneTap
  <2> QED
    BY <1>2, <1>4, <1>6, <2>1, <2>8 DEF HoursAt
<1>11. PlaceAt(v)'
  BY <1>4 DEF PlaceAt
<1>12. ListAt(v)'
  BY <1>2, <1>3, <1>6 DEF LocalAt, ListAt, NoList
<1>13. CommentsAt(v)'
  BY <1>2, <1>3, <1>6 DEF LocalAt, CommentsAt, NoComments
<1>14. requests' \subseteq User \X AnyRole /\ members' \in {members, members \cup {v}}
  BY <1>2, <1>3 DEF PerDevice
<1> QED
  BY <1>2, <1>4, <1>5, <1>6, <1>7, <1>8, <1>9, <1>10, <1>11, <1>12, <1>13, <1>14, Still, Assembled

-----------------------------------------------------------------------------
(* The invariant holds of every behaviour.                                 *)

LEMMA BlankPlace ==
  ASSUME NEW u \in User
  PROVE  Blank[<<u, "latitude">>] = Blank[<<u, "longitude">>]
<1>1. PICK a, b : a = <<u, "latitude">> /\ b = <<u, "longitude">>
  OBVIOUS
<1>2. a \in Leaf /\ b \in Leaf /\ a[1] = u /\ b[1] = u /\ a[2] = "latitude" /\ b[2] = "longitude"
  BY <1>1, Leaves
<1>3. /\ a \in {u} \X Field /\ b \in {u} \X Field
      /\ "latitude" \notin ListField /\ "longitude" \notin ListField
  BY <1>1, Leaves DEF ListField
<1>4. AccountOf(u, Role[u])[a] = AccountOf(u, Role[u])[b]
  BY <1>2, <1>3 DEF AccountOf
<1>5. Blank[a] = Blank[b]
  BY <1>2, <1>3, <1>4 DEF Blank
<1> QED
  BY <1>1, <1>5

LEMMA InitDirInv == Init => DirInv
<1> SUFFICES ASSUME Init
             PROVE  DirInv
  OBVIOUS
<1>1. PICK e : e = <<>>
  OBVIOUS
<1>2. /\ page = [d \in Device |-> IF d \in Newcomers THEN "login" ELSE ScreensFor(Role[d])]
      /\ hours = [d \in Device |-> HoursAtLogin(d, page[d], Blank)]
      /\ list = [d \in Device |-> NoList] /\ shown = [d \in Device |-> NoComments]
      /\ offers = [d \in Device |-> {}]
      /\ calls = [d \in Device |-> e] /\ geocoding = [d \in Device |-> e]
      /\ members = User \ Newcomers /\ requests = {}
      /\ names = [d \in Device |-> IF d \in Newcomers THEN NoRole ELSE Role[d]]
      /\ picked = names /\ pressed = [d \in Device |-> {}]
      /\ wanted = [d \in Device |-> [h \in Hours |-> Copies(h, Blank[<<d, "freeHours">>])]]
  BY <1>1 DEF Init
<1>3. M!Init /\ view = [d \in Device |-> Blank] /\ restarts = 0
  BY SyncActions DEF Init, M!Init
<1>4. MirrorInv
  <2>1. PICK K, P : K = Allowed(members, picked, pressed) /\ P = Issued(members, picked)
    OBVIOUS
  <2>2. \A l \in Leaf : Blank[l] \in K[l]
    BY <2>1, BlankKnown
  <2>3. M!HoldsOnly(K)
    BY <1>3, <2>2, MirrorAssumptions, M!InitHoldsOnly
  <2>4. M!SentOnly(P)
    BY <1>3, MirrorAssumptions, M!InitSentOnly
  <2>5. M!IInv
    BY <1>3, MirrorAssumptions, M!InitHolds
  <2> QED
    BY <2>1, <2>3, <2>4, <2>5 DEF MirrorInv
<1>5. \A d \in Device : Blank[Hour(d)] \in Seq(Hours)
  <2> TAKE d \in Device
  <2>1. Hour(d) \in Leaf /\ ValueOf(Hour(d)) = Seq(Hours)
    BY Leaves, Values DEF Hour, Device
  <2> QED
    BY <2>1, BlankKnown
<1>6. PerDevice
  <2>1. \A d \in Device, h \in Hours : Copies(h, Blank[Hour(d)]) \in Nat
    BY <1>5, CopiesType
  <2>2. wanted \in [Device -> [Hours -> Nat]]
    BY <1>2, <2>1 DEF Hour
  <2> QED
    BY <1>2, <2>2 DEF PerDevice
<1>7. ASSUME NEW d \in Device
      PROVE  LocalAt(d)
  <2>1. /\ calls[d] = e /\ geocoding[d] = e /\ pressed[d] = {} /\ list[d] = NoList
        /\ shown[d] = NoComments /\ offers[d] = {} /\ view[d] = Blank
        /\ hours[d] = HoursAtLogin(d, page[d], Blank)
        /\ page[d] = (IF d \in Newcomers THEN "login" ELSE ScreensFor(Role[d]))
        /\ names[d] = (IF d \in Newcomers THEN NoRole ELSE Role[d]) /\ picked[d] = names[d]
        /\ \A h \in Hours : wanted[d][h] = Copies(h, Blank[Hour(d)])
    BY <1>2, <1>3 DEF Hour
  <2>2. d \notin Newcomers => Role[d] \in AnyRole
    BY PeopleAssumption DEF Device
  <2>3. /\ page[d] \in {"login", "volunteer", "elder", "organiser"}
        /\ page[d] = "volunteer" => picked[d] = Volunteer
        /\ page[d] = "elder" => picked[d] = Elder
    BY <2>1 DEF ScreensFor
  <2>4. AccountAt(d)
    BY <1>2, <2>1, <2>2, <2>3 DEF AccountAt, Device, AnyRole
  <2>5. RecordAt(d)
    BY <1>2, <2>1, BlankRole DEF RecordAt, RoleOf, Device
  <2>6. CallsAt(d)
    BY <1>1, <2>1, EmptySeq DEF CallsAt
  <2>7. HoursAt(d)
    <3>1. PICK s, R, l : s = Blank[l] /\ R = hours[d] /\ l = Hour(d)
      OBVIOUS
    <3>2. R \in Seq(Hours \cup {BlankRow}) /\ \A h \in Hours : Copies(h, R) =< Copies(h, s)
      BY <1>5, <2>1, <3>1, HoursAtLoginFit
    <3>3. Ahead(e, l, s) = s /\ Len(e) = 0
      BY <1>1 DEF Ahead
    <3>4. HoursFit(d, R, e, s)
      BY <3>1, <3>2, <3>3 DEF HoursFit, OneTap
    <3> QED
      BY <2>1, <3>1, <3>3, <3>4 DEF HoursAt
  <2>8. PlaceAt(d)
    <3>1. \A l \in Leaf : M!Replay(e, Blank)[l] = Blank[l]
      <4>1. \A l : M!Touching(e, l) = {}
        BY <1>1 DEF M!Touching
      <4> QED
        BY <4>1 DEF M!Replay
    <3>2. <<d, "latitude">> \in Leaf /\ <<d, "longitude">> \in Leaf
      BY Leaves DEF Device
    <3> QED
      BY <2>1, <3>1, <3>2, BlankPlace DEF PlaceAt, Device
  <2>9. ListAt(d)
    BY <2>1 DEF ListAt, NoList
  <2>10. CommentsAt(d)
    BY <1>1, <2>1, <2>3, EmptySeq DEF CommentsAt, NoComments
  <2> QED
    BY <2>4, <2>5, <2>6, <2>7, <2>8, <2>9, <2>10 DEF LocalAt
<1> QED
  BY <1>4, <1>6, <1>7 DEF DirInv

LEMMA StutterKeeps ==
  ASSUME DirInv, UNCHANGED vars
  PROVE  DirInv' /\ SyncStep
<1>1. /\ UNCHANGED <<page, hours, list, shown, offers, calls, geocoding>>
      /\ UNCHANGED <<members, names, requests, picked, wanted, pressed, view, restarts>>
      /\ UNCHANGED syncVars
  BY DEF vars, auth, history, syncVars
<1>2. HistoryGrows /\ SyncStep
  BY <1>1, SameHistory DEF SyncStep
<1>3. MirrorInv'
  BY <1>2, MirrorStep DEF DirInv
<1>4. PerDevice'
  BY <1>1 DEF DirInv, PerDevice
<1>5. ASSUME NEW d \in Device
      PROVE  LocalAt(d)'
  <2>1. LocalAt(d)
    BY DEF DirInv
  <2>2. AccountAt(d)'
    BY <1>1, <2>1 DEF LocalAt, AccountAt
  <2>3. RecordAt(d)'
    BY <1>1, <2>1 DEF LocalAt, RecordAt
  <2>4. CallsAt(d)'
    BY <1>1, <2>1 DEF LocalAt, CallsAt
  <2>5. HoursAt(d)'
    BY <1>1, <2>1 DEF LocalAt, HoursAt
  <2>6. PlaceAt(d)'
    BY <1>1, <2>1 DEF LocalAt, PlaceAt
  <2>7. ListAt(d)'
    BY <1>1, <2>1 DEF LocalAt, ListAt
  <2>8. CommentsAt(d)'
    BY <1>1, <2>1 DEF LocalAt, CommentsAt
  <2> QED
    BY <2>2, <2>3, <2>4, <2>5, <2>6, <2>7, <2>8 DEF LocalAt
<1> QED
  BY <1>2, <1>3, <1>4, <1>5 DEF DirInv

LEMMA NextKeeps ==
  ASSUME DirInv, [Next]_vars
  PROVE  DirInv' /\ SyncStep
<1>1. ASSUME NEW d \in Device, ProfileNext(d)
      PROVE  DirInv' /\ SyncStep
  BY <1>1, AddHourKeeps, DeleteRowKeeps, LongPressKeeps, GeocodedKeeps DEF ProfileNext
<1>2. ASSUME NEW d \in Device, ListNext(d)
      PROVE  DirInv' /\ SyncStep
  BY <1>2, OpenListKeeps, OpenCommentsKeeps, OpenActivityKeeps, BackKeeps, CommentKeeps
     DEF ListNext
<1>3. ASSUME NEW d \in Device, AccountNext(d)
      PROVE  DirInv' /\ SyncStep
  BY <1>3, SignUpKeeps, NameChangedKeeps, LogInKeeps, LogOutKeeps DEF AccountNext
<1>4. ASSUME NEW d \in Device, RunCallback(d) \/ Commit(d) \/ Deliver(d) \/ SwipeBlankRow(d)
      PROVE  DirInv' /\ SyncStep
  BY <1>4, RunCallbackKeeps, CommitKeepsAll, DeliverKeepsAll, SwipeBlankRowKeeps
<1>5. CASE UNCHANGED vars
  BY <1>5, StutterKeeps
<1> QED
  BY <1>1, <1>2, <1>3, <1>4, <1>5 DEF Next

\* Whatever people tap, and in whatever order callbacks run, writes arrive and
\* look-ups are answered, every device is as DirInv says.
THEOREM Invariant == Spec => []DirInv
<1>1. Init => DirInv
  BY InitDirInv
<1>2. DirInv /\ [Next]_vars => DirInv'
  BY NextKeeps
<1> QED
  BY <1>1, <1>2, PTL DEF Spec
-----------------------------------------------------------------------------
(* What follows.                                                           *)

\* The tree, the views and the screens keep their shape: each leaf holds what its
\* path may hold, each list of users shows users, each offer is of a user and an hour.
THEOREM TypesHold == Spec => []TypeOK
<1>1. DirInv => TypeOK
  <2> SUFFICES ASSUME DirInv
               PROVE  TypeOK
    OBVIOUS
  <2>1. /\ \A l \in Leaf : server[l] \in ValueOf(l)
        /\ \A d \in Device, l \in Leaf : view[d][l] \in ValueOf(l)
    BY ShownTypes
  <2>2. ASSUME NEW d \in Device
        PROVE  /\ ToSet(hours[d]) \subseteq Hours \cup {BlankRow}
               /\ list[d].role \in AnyRole
               /\ \A i \in DOMAIN list[d].rows : list[d].rows[i].email \in User
               /\ shown[d].on \subseteq User
               /\ offers[d] \subseteq User \X Hours
               /\ ToSet(geocoding[d]) \subseteq Place
    <3>1. LocalAt(d)
      BY DEF DirInv
    <3>2. ToSet(hours[d]) \subseteq Hours \cup {BlankRow}
      BY <3>1 DEF LocalAt, HoursAt, HoursFit, ToSet
    <3>3. ToSet(geocoding[d]) \subseteq Place
      BY <3>1 DEF LocalAt, CallsAt, ToSet
    <3>4. list[d].role \in AnyRole /\ offers[d] \subseteq User \X Hours
      BY <3>1 DEF LocalAt, ListAt, AnyRole
    <3>5. ASSUME NEW i \in DOMAIN list[d].rows
          PROVE  list[d].rows[i].email \in User
      <4>1. PICK R, v, r : R = list[d].rows /\ v = view[d] /\ r = list[d].role
        OBVIOUS
      <4>2. r # NoRole /\ RowsFit(r, R, v)
        BY <3>1, <4>1 DEF LocalAt, ListAt
      <4>3. PICK u \in Members(v, r) : R[i] = RecordOf(v, u)
        BY <4>1, <4>2 DEF RowsFit
      <4>4. u \in User /\ RecordOf(v, u).email = u
        BY <4>3 DEF Members, RecordOf
      <4> QED
        BY <4>1, <4>3, <4>4
    <3>6. shown[d].on \subseteq User
      BY <3>1 DEF LocalAt, CommentsAt, NoComments
    <3> QED
      BY <3>2, <3>3, <3>4, <3>5, <3>6
  <2>3. members \subseteq User /\ names \in [User -> AnyRole]
    BY DEF DirInv, PerDevice, LocalAt, AccountAt, Device, AnyRole
  <2> QED
    BY <2>1, <2>2, <2>3 DEF TypeOK
<1> QED
  BY <1>1, Invariant, PTL

\* With nothing under way, every device shows the database.
LEMMA QuietShows ==
  ASSUME DirInv, Quiet, NEW d \in Device
  PROVE  view[d] = server /\ calls[d] = <<>>
<1>1. M!Converged
  BY MirrorAssumptions, M!IInvConverges DEF DirInv, MirrorInv
<1>2. view[d] = M!Mirror(d, server)
  BY <1>1 DEF M!Converged, Quiet
<1>3. M!Mirror(d, server) = server
  BY ShownTypes, MirrorAll
<1> QED
  BY <1>2, <1>3 DEF Quiet

\* The free hours on record are those added and not deleted, each as often: a tap
\* reads the list and another callback writes it back, yet no addition and no
\* deletion is lost or made twice, however many taps and messages come between.
THEOREM HoursStayAsWanted == Spec => []HoursAsWanted
<1>1. DirInv => HoursAsWanted
  <2> SUFFICES ASSUME DirInv, Quiet, restarts = 0, NEW v \in User, NEW h \in Hours
               PROVE  Copies(h, server[<<v, "freeHours">>]) = wanted[v][h]
    BY DEF HoursAsWanted
  <2>1. v \in Device /\ view[v] = server /\ calls[v] = <<>>
    BY QuietShows DEF Device
  <2>2. Copies(h, view[v][Hour(v)]) = wanted[v][h]
    BY <2>1, IdleHours
  <2> QED
    BY <2>1, <2>2 DEF Hour
<1> QED
  BY <1>1, Invariant, PTL

\* Every hour the profile table shows is one the client has on record, as often as it
\* is shown: though a removal drops row 0 whichever hour went, no row is left behind
\* that could be deleted once more.
THEOREM ShownHoursStayOnRecord == Spec => []ShownHoursOnRecord
<1>1. DirInv => ShownHoursOnRecord
  BY IdleHours DEF ShownHoursOnRecord, Hour
<1> QED
  BY <1>1, Invariant, PTL

\* The place on record is one the volunteer pressed, both coordinates of it, although
\* they are two writes of two callbacks and the look-ups may be answered in any order.
THEOREM PlacesWerePressed == Spec => []PlaceWasPressed
<1>1. DirInv => PlaceWasPressed
  <2> SUFFICES ASSUME DirInv, Quiet, restarts = 0, NEW v \in User
               PROVE  /\ server[<<v, "longitude">>] = server[<<v, "latitude">>]
                      /\ server[<<v, "latitude">>] \in pressed[v] \cup {0, Absent}
    BY DEF PlaceWasPressed
  <2>1. PICK e : e = <<>>
    OBVIOUS
  <2>2. v \in Device /\ view[v] = server /\ calls[v] = e
    BY <2>1, QuietShows DEF Device
  <2>3. \A l \in Leaf : M!Replay(e, server)[l] = server[l]
    <3>1. \A l : M!Touching(e, l) = {}
      BY <2>1 DEF M!Touching
    <3> QED
      BY <3>1 DEF M!Replay
  <2>4. <<v, "latitude">> \in Leaf /\ <<v, "longitude">> \in Leaf
    BY Leaves
  <2>5. server[<<v, "longitude">>] = server[<<v, "latitude">>]
    BY <2>2, <2>3, <2>4 DEF DirInv, LocalAt, PlaceAt
  <2>6. PICK l : l = <<v, "latitude">>
    OBVIOUS
  <2>7. l \in Leaf /\ l[1] = v /\ l[2] = "latitude"
    BY <2>4, <2>6
  <2>8. server[l] \in Known(l, members, picked, pressed)
    BY <2>7, ShownTypes
  <2>9. Known(l, members, picked, pressed) = {Absent, 0} \cup pressed[v]
    BY <2>7 DEF Known, Coordinate
  <2> QED
    BY <2>5, <2>6, <2>8, <2>9
<1> QED
  BY <1>1, Invariant, PTL

\* A list of users has one row for every user of the role, and each row is the present
\* record of one of them, although a change of one user overwrites every row.
THEOREM RowsStayCurrent == Spec => []RowsAreCurrent
<1>1. DirInv => RowsAreCurrent
  BY DEF DirInv, LocalAt, ListAt, RowsFit, RowsAreCurrent
<1> QED
  BY <1>1, Invariant, PTL

\* The screen of comments ends with the list on record, however often it was appended.
THEOREM CommentsStayShown == Spec => []CommentsAreShown
<1>1. DirInv => CommentsAreShown
  BY DEF DirInv, LocalAt, CommentsAt, CommentsAreShown
<1> QED
  BY <1>1, Invariant, PTL

\* From which screen to which a step leads.
LEMMA PageSteps ==
  ASSUME DirInv, [Next]_vars, NEW d \in Device
  PROVE  \/ page'[d] \in {page[d], "login"}
         \/ page[d] \in ScreensOf(Organiser) /\ page'[d] \in ScreensOf(Organiser)
         \/ LogIn(d)
<1>1. page = [c \in Device |-> page[c]]
  BY DEF DirInv, PerDevice
<1>2. ScreensOf(Organiser) = {"organiser", "list", "comments", "activity"}
  BY DEF ScreensOf, Organiser, Volunteer, Elder
<1>3. ASSUME NEW c \in Device, ProfileNext(c)
      PROVE  page' = page
  BY <1>3 DEF ProfileNext, AddHour, DeleteRow, LongPress, Geocoded
<1>4. ASSUME NEW c \in Device, ListNext(c)
      PROVE  \/ page' = page
             \/ \E p \in ScreensOf(Organiser) :
                  page[c] \in ScreensOf(Organiser) /\ page' = [page EXCEPT ![c] = p]
  <2>1. CASE \E r \in {Elder, Volunteer} : OpenList(c, r)
    BY <1>2, <2>1 DEF OpenList
  <2>2. CASE \E u \in User : OpenComments(c, u)
    BY <1>2, <2>2 DEF OpenComments
  <2>3. CASE \E h \in Hours : OpenActivity(c, h)
    BY <1>2, <2>3 DEF OpenActivity
  <2>4. CASE Back(c)
    BY <1>1, <1>2, <2>4 DEF Back
  <2>5. CASE \E u \in User : Comment(c, u)
    BY <2>5 DEF Comment
  <2> QED
    BY <1>4, <2>1, <2>2, <2>3, <2>4, <2>5 DEF ListNext
<1>5. ASSUME NEW c \in Device, AccountNext(c)
      PROVE  \/ page' = page
             \/ page' = [page EXCEPT ![c] = "login"]
             \/ LogIn(c) /\ page' = [page EXCEPT ![c] = ScreensFor(names[c])]
  BY <1>5 DEF AccountNext, SignUp, NameChanged, LogIn, LogOut
<1>6. ASSUME NEW c \in Device, RunCallback(c) \/ Commit(c) \/ Deliver(c) \/ SwipeBlankRow(c)
      PROVE  page' = page \/ page' = [page EXCEPT ![c] = "login"]
  BY <1>6 DEF RunCallback, Commit, Deliver, SwipeBlankRow, local
<1>7. ASSUME NEW c \in Device, NEW p, page' = [page EXCEPT ![c] = p]
      PROVE  page'[d] = IF c = d THEN p ELSE page[d]
  BY <1>1, <1>7
<1>8. CASE UNCHANGED vars
  BY <1>8 DEF vars
<1> QED
  BY <1>3, <1>4, <1>5, <1>6, <1>7, <1>8 DEF Next

\* Only a login before the display name has arrived leads to screens of a role not
\* picked, and to no others than the organisation's; what was picked is on record: the
\* role is kept twice, and the display name arrives when it likes.
THEOREM StrayingNeedsAnEarlyLogin == Spec => OnlyEarlyLoginsStray
<1>1. DirInv /\ [Next]_vars =>
        [\A d \in Device :
           /\ Enters(d, Volunteer) => picked[d] = Volunteer
           /\ Enters(d, Elder) => picked[d] = Elder
           /\ Enters(d, Organiser) => \/ picked[d] \in {Organiser, NoRole}
                                      \/ page[d] = "login" /\ <<d, picked[d]>> \in requests]_vars
  <2> SUFFICES ASSUME DirInv, [Next]_vars, NEW d \in Device
               PROVE  /\ Enters(d, Volunteer) => picked[d] = Volunteer
                      /\ Enters(d, Elder) => picked[d] = Elder
                      /\ Enters(d, Organiser) => \/ picked[d] \in {Organiser, NoRole}
                                                 \/ page[d] = "login" /\ <<d, picked[d]>> \in requests
    OBVIOUS
  <2>1. /\ ScreensOf(Volunteer) = {"volunteer"} /\ ScreensOf(Elder) = {"elder"}
        /\ ScreensOf(Organiser) = {"organiser", "list", "comments", "activity"}
    BY DEF ScreensOf, Volunteer, Elder, Organiser
  <2>2. CASE page'[d] \in {page[d], "login"}
    BY <2>1, <2>2 DEF Enters
  <2>3. CASE page[d] \in ScreensOf(Organiser) /\ page'[d] \in ScreensOf(Organiser)
    BY <2>1, <2>3 DEF Enters
  <2>4. CASE LogIn(d)
    <3>1. page = [c \in Device |-> page[c]] /\ AccountAt(d)
      BY DEF DirInv, PerDevice, LocalAt
    <3>2. page[d] = "login" /\ d \in members /\ page'[d] = ScreensFor(names[d])
      BY <2>4, <3>1 DEF LogIn
    <3>3. /\ names[d] \in {NoRole, picked[d]} /\ picked[d] \in AnyRole
          /\ names[d] = picked[d] \/ <<d, picked[d]>> \in requests
      BY <3>1, <3>2 DEF AccountAt
    <3>4. /\ page'[d] = "volunteer" => names[d] = Volunteer
          /\ page'[d] = "elder" => names[d] = Elder
          /\ page'[d] \in {"volunteer", "elder"} \/ names[d] \notin {Volunteer, Elder}
          /\ page'[d] \in {"volunteer", "elder", "organiser"}
      BY <3>2 DEF ScreensFor
    <3>5. /\ Enters(d, Volunteer) => names[d] = Volunteer
          /\ Enters(d, Elder) => names[d] = Elder
          /\ Enters(d, Organiser) => names[d] \notin {Volunteer, Elder}
      BY <2>1, <3>4 DEF Enters
    <3> QED
      BY <3>2, <3>3, <3>5 DEF AnyRole, Volunteer, Elder, Organiser, NoRole
  <2> QED
    BY <2>2, <2>3, <2>4, PageSteps
<1>2. DirInv => (Quiet /\ restarts = 0 => \A d \in members : RoleOf(server, d) = picked[d])
  <2> SUFFICES ASSUME DirInv, Quiet, restarts = 0, NEW d \in members
               PROVE  RoleOf(server, d) = picked[d]
    OBVIOUS
  <2>1. d \in Device
    BY DEF DirInv, PerDevice, Device
  <2>2. AccountAt(d) /\ RecordAt(d)
    BY <2>1 DEF DirInv, LocalAt
  <2>3. view[d] = server
    BY <2>1, QuietShows
  <2> QED
    BY <2>2, <2>3 DEF AccountAt, RecordAt
<1> QED
  BY <1>1, <1>2, Invariant, PTL DEF Spec, OnlyEarlyLoginsStray

\* The people's screens, too, drive their mirrors as FirebaseSync allows.
THEOREM MirrorsAreUsedAsSpecified == Spec => Sync!Spec
<1>1. Init => Sync!Init
  BY DEF Init
<1>2. DirInv /\ [Next]_vars => [Sync!Next]_Sync!syncVars
  <2> SUFFICES ASSUME DirInv, [Next]_vars
               PROVE  [Sync!Next]_Sync!syncVars
    OBVIOUS
  <2>1. SyncStep
    BY NextKeeps
  <2>2. ASSUME NEW d \in Device, NEW w \in M!WritesOf(Allowed(members', picked', pressed')),
               Sync!LocalWrite(d, w)
        PROVE  Sync!Next
    <3>1. w \in Sync!Write
      BY <2>2 DEF M!WritesOf, M!Write, Sync!Write
    <3> QED
      BY <2>2, <3>1 DEF Sync!Next
  <2> QED
    BY <2>1, <2>2 DEF SyncStep, Sync!Next, syncVars, Sync!syncVars
<1> QED
  BY <1>1, <1>2, Invariant, PTL DEF Spec, Sync!Spec
=============================================================================
