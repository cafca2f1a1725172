------------------------------- MODULE Schema -------------------------------
(***************************************************************************)
(* The database of Elderistic: ActivityRequests/<key> holds one record per *)
(* request, Users/<safeEmail> one record per account.  Only the fields the *)
(* screens branch on or change are kept; description, date, hours and      *)
(* place travel with the request and are folded into its heading.          *)
(*                                                                         *)
(* A leaf is a pair: a request key or a user path, and a field.  Names and *)
(* users are model values, the empty strings of the code are NoName,       *)
(* NoUser and NoKey, a missing node is Absent (an empty list for a list:   *)
(* Firebase stores no empty arrays).                                       *)
(***************************************************************************)
EXTENDS Naturals, Sequences, FiniteSets, FiniteSetsExt, Lists

CONSTANTS Elders, Volunteers, Organisers,   \* users, each with one device
          Running,       \* those whose device has the app open
          Names,         \* the activity names users type
          NoName,        \* the empty name
          NoUser,        \* the empty e-mail address
          Absent,        \* no node
          Grades,        \* the grades offered, out of 1..5
          SafeEmail,     \* the path of each account
          Filed,         \* the requests on record at the start
          MaxRequests    \* bound: requests ever created

Active == "Active request"
Registered == "Registered volunteer"
Scheduled == "Scheduled task"
Finished == "Finished task"
Status == {Active, Registered, Scheduled, Finished}

User == Elders \cup Volunteers \cup Organisers
Device == Running
Account == Elders \cup Volunteers

ASSUME SchemaAssumption ==
  /\ Elders \cap Volunteers = {}
  /\ Elders \cap Organisers = {}
  /\ Volunteers \cap Organisers = {}
  /\ NoUser \notin User
  /\ Absent \notin User
  /\ Absent \notin Status
  /\ Running \subseteq User
  /\ Grades \subseteq 1..5
  /\ MaxRequests \in Nat
  /\ Filed \in Seq([elder : Elders, name : Names, status : {Active, Scheduled},
                    volunteer : Volunteers \cup {NoUser}])
  /\ \A i \in DOMAIN Filed : Filed[i].status = Active <=> Filed[i].volunteer = NoUser
  /\ Len(Filed) =< MaxRequests
  /\ Account \cup {NoUser} \subseteq DOMAIN SafeEmail

\* childByAutoId: keys sort in the order the requests were created.
Key == 1 .. MaxRequests
NoKey == 0

RequestField == {"request", "status", "volunteer"}
ListField == {"activities", "grades", "comments"}
Path == {SafeEmail[u] : u \in Account \cup {NoUser}}

RequestLeaf == (Key \cup {NoKey}) \X RequestField
UserLeaf == Path \X (ListField \cup {"rating"})
Leaf == RequestLeaf \cup UserLeaf

\* A rating is sum / count, zero at sign-up.
Rating == [sum : Nat, count : Nat]
NoRating == [sum |-> 0, count |-> 0]

\* What is fixed at creation: who asks, and for what.
Heading == [elder : Elders, name : Names \cup {NoName}]

ValueOf(l) ==
  CASE l[2] = "request"    -> {Absent} \cup Heading
    [] l[2] = "status"     -> {Absent} \cup Status
    [] l[2] = "volunteer"  -> {Absent, NoUser} \cup Volunteers
    [] l[2] = "activities" -> Seq(Names \cup {NoName})
    [] l[2] = "grades"     -> Seq(Grades)
    [] l[2] = "comments"   -> Seq([name : Names \cup {NoName}, user : Account])
    [] OTHER               -> {Absent} \cup Rating

Value == UNION {ValueOf(l) : l \in Leaf}

\* The fields of a new request.
NewField(f, e, n) == CASE f = "request" -> [elder |-> e, name |-> n]
                       [] f = "status"  -> Active
                       [] OTHER         -> NoUser

\* The requests on record that were accepted, by their volunteers or by v.
Taken == {i \in DOMAIN Filed : Filed[i].status = Scheduled}
TakenBy(v) == Sift([i \in DOMAIN Filed |-> i], {i \in DOMAIN Filed : Filed[i].volunteer = v})
LoggedBy(v) == [j \in DOMAIN TakenBy(v) |-> Filed[TakenBy(v)[j]].name]
FiledField(f, r) == CASE f = "request" -> [elder |-> r.elder, name |-> r.name]
                      [] f = "status"  -> r.status
                      [] OTHER         -> r.volunteer

\* The database at the start: the accounts, the requests filed (from the map, which
\* logs nothing) and the log of the volunteers who accepted some.
Blank == [l \in Leaf |->
            IF l[2] = "activities" /\ \E v \in Volunteers : l[1] = SafeEmail[v]
            THEN LoggedBy(CHOOSE v \in Volunteers : l[1] = SafeEmail[v])
            ELSE IF l[2] \in ListField THEN <<>>
            ELSE IF l[2] = "rating"
            THEN IF l[1] = SafeEmail[NoUser] THEN Absent ELSE NoRating
            ELSE IF l[2] \in RequestField /\ l[1] \in DOMAIN Filed
            THEN FiledField(l[2], Filed[l[1]]) ELSE Absent]
-----------------------------------------------------------------------------
\* Reading the tree.
Request(v, k) == v[<<k, "request">>]
StatusOf(v, k) == v[<<k, "status">>]
VolunteerOf(v, k) == v[<<k, "volunteer">>]
Record(v, k) == <<Request(v, k), StatusOf(v, k), VolunteerOf(v, k)>>
Exists(v, k) == Record(v, k) # <<Absent, Absent, Absent>>

\* queryOrdered(byChild: "activity_name").queryEqual(toValue: n)
NamedAny(v, n) == {k \in Key : Request(v, k) # Absent}   \* slip: whatever it is called
Named(v, n) == {k \in Key : Request(v, k) # Absent /\ Request(v, k).name = n}

\* Writing it: each of these is one write of FirebaseSync.
PutLeaf(l, x) == [m \in {l} |-> x]
PutField(k, f, x) == PutLeaf(<<k, f>>, x)

CreateRecord(k, e, n) == [l \in {k} \X RequestField |-> NewField(l[2], e, n)]

\* child("ActivityRequests/\(key)").removeValue(): with an empty key the path is
\* that of the whole node, since empty path segments are dropped.
RemoveRecord(k) ==
  [l \in IF k = NoKey THEN RequestLeaf ELSE {k} \X RequestField |-> Absent]
=============================================================================
