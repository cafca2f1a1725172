------------------------------- MODULE People -------------------------------
(***************************************************************************)
(* Users/<safeEmail> and the screens about people: the volunteer's profile *)
(* (ProfileViewController, LocationChooserViewController), the             *)
(* organisation's lists of users and of comments (Elders-,                 *)
(* VolunteersViewController, ...CommentsViewController), the volunteers    *)
(* ActivityDetailsViewController offers, sign-up and login.  This module   *)
(* has the tree, the state of the screens and what their observers make of *)
(* a change of the client's view; every screen follows all of Users, so    *)
(* every client mirrors all of it.                                         *)
(*                                                                         *)
(* Bounds: MaxTaps taps that write, and those of FirebaseSync.             *)
(***************************************************************************)
EXTENDS Naturals, Sequences, FiniteSets, SequencesExt, Lists

CONSTANTS User,          \* the people, each with one device
          Role,          \* the role each member signed up with
          Newcomers,     \* those who have no account at the start
          Picks,         \* the roles newcomers pick, or NoRole
          Hours,         \* the free hours one can enter
          OnRecord,      \* the free hours each member has at the start
          Place,         \* the places one can press on the map, positive numbers
          BlankRow,      \* the empty dictionary a table starts with
          Absent,        \* no node, no value
          Leavers,       \* those who log out
          MaxPending, MaxInbox, MaxReconnects, MaxRestarts, MaxTaps

Volunteer == "Volunteer"
Elder == "Elder"
Organiser == "Organiser"
NoRole == ""      \* nothing picked from the drop-down
AnyRole == {Volunteer, Elder, Organiser, NoRole}

ASSUME PeopleAssumption ==
  /\ IsFiniteSet(User) /\ Absent \notin AnyRole
  /\ Newcomers \subseteq User /\ Role \in [User \ Newcomers -> AnyRole]
  /\ Picks \subseteq AnyRole
  /\ OnRecord \in [User \ Newcomers -> Seq(Hours)]
  /\ Place \subseteq Nat \ {0}
  /\ BlankRow \notin Hours
  /\ MaxTaps \in Nat

ASSUME LimitAssumption == /\ MaxPending \in Nat
                          /\ MaxInbox \in Nat
                          /\ MaxReconnects \in Nat
                          /\ MaxRestarts \in Nat

Coordinate == {"latitude", "longitude"}
ListField == {"freeHours", "comments"}
Field == {"role"} \cup Coordinate \cup ListField
Leaf == User \X Field
ValueOf(l) == CASE l[2] = "role"      -> {Absent} \cup AnyRole
                [] l[2] \in Coordinate -> {Absent, 0} \cup Place
                [] l[2] = "freeHours"  -> Seq(Hours)
                [] OTHER               -> Seq(User)    \* a comment, by its author
Value == UNION {ValueOf(l) : l \in Leaf}

\* What setValue at sign-up leaves under the path of u: all of it, or nothing.
AccountOf(u, r) ==
  [l \in {u} \X Field |->
     IF l[2] = "role" THEN r
     ELSE IF l[2] \in ListField THEN <<>>
     ELSE IF r = Volunteer THEN 0 ELSE Absent]

Blank == [l \in Leaf |-> IF l[1] \in Newcomers
                         THEN IF l[2] \in ListField THEN <<>> ELSE Absent
                         ELSE IF l[2] = "freeHours" THEN OnRecord[l[1]]
                         ELSE AccountOf(l[1], Role[l[1]])[l]]

VARIABLES server, view, pending, unheard, inbox, reconnects, restarts,
          page,       \* the screens each device shows
          hours,      \* the rows of the profile table
          list,       \* the list of users: a role and its rows
          shown,      \* the screen of comments: on whom, and its rows
          offers,     \* the volunteers offered for an activity
          calls,      \* the callbacks to run
          geocoding,  \* the presses on the map still being looked up
          taps,
          members, names, requests,     \* Firebase Auth: accounts, their display
                                        \* names, the name changes under way
          picked, wanted, pressed       \* history, read by properties only

Device == User
Sync == INSTANCE FirebaseSync WITH Client <- Device, Listens <- [d \in Device |-> Leaf]

auth == <<members, names, requests>>
history == <<picked, wanted, pressed>>
syncVars == <<server, view, pending, unheard, inbox, reconnects, restarts>>
vars == <<syncVars, page, hours, list, shown, offers, calls, geocoding, taps, auth, history>>
-----------------------------------------------------------------------------
PutLeaf(u, f, x) == [l \in {<<u, f>>} |-> x]
RoleOf(v, u) == v[<<u, "role">>]
RecordOf(v, u) == [email |-> u, fields |-> [f \in Field |-> v[<<u, f>>]]]
Exists(v, u) == RoleOf(v, u) # Absent
Members(v, r) == {u \in User : RoleOf(v, u) = r}

\* The profile table: childAdded appends the new last children of the list,
\* childRemoved drops row 0 for each child the list lost at its end.
HoursAfter(u, R, old, new) ==
  LET was == Len(old[<<u, "freeHours">>])
      now == new[<<u, "freeHours">>]
  IN  SubSeq(R, 1 + (IF was > Len(now) THEN was - Len(now) ELSE 0), Len(R))
        \o SubSeq(now, was + 1, Len(now))

\* A list of users: childAdded appends a user of the role, childChanged puts a
\* changed user of the role in every row.  No user is ever removed.
RowsKept(r, R, old, new) ==   \* slip: rows are left as they are
  R \o SetToSeq({RecordOf(new, u) : u \in {u \in Members(new, r) : ~Exists(old, u)}})
RowsAfter(r, R, old, new) ==
  LET changed == {u \in Members(new, r) :
                    Exists(old, u) /\ RecordOf(old, u) # RecordOf(new, u)}
      added == {u \in Members(new, r) : ~Exists(old, u)}
      last == CHOOSE u \in changed : TRUE
  IN  (IF changed = {} THEN R ELSE [i \in DOMAIN R |-> RecordOf(new, last)])
        \o [i \in DOMAIN SetToSeq(added) |-> RecordOf(new, SetToSeq(added)[i])]

\* The comments on u: the whole list is appended whenever it changed.
CommentsHeardOnce(u, R, old, new) ==   \* slip: the list is heard once, when there is one
  LET l == <<u, "comments">>
  IN  IF old[l] = new[l] \/ R # <<>> THEN R ELSE new[l]
CommentsAfter(u, R, old, new) ==
  LET l == <<u, "comments">>
  IN  IF old[l] = new[l] THEN R ELSE R \o new[l]

\* The observers of device d see its client's view change.
Observe(d) ==
  /\ hours' = [hours EXCEPT ![d] = HoursAfter(d, @, view[d], view'[d])]
  /\ list' = [list EXCEPT ![d].rows =
                IF list[d].role = NoRole THEN @
                ELSE RowsAfter(list[d].role, @, view[d], view'[d])]
  /\ shown' = [shown EXCEPT ![d].rows =
                 IF shown[d].on = {} THEN @
                 ELSE CommentsAfter(CHOOSE u \in shown[d].on : TRUE, @, view[d], view'[d])]

NoList == [role |-> NoRole, rows |-> <<>>]
NoComments == [on |-> {}, rows |-> <<>>]

\* insertFreeHours, deleteFreeHour, insertComments: the list is read from the
\* mirror when the user taps and written back when the callback runs.
InsertAsLatitude(d, u, f, x) == <<PutLeaf(u, "latitude", x)>>   \* slip: the wrong node
Insert(d, u, f, x) == <<PutLeaf(u, f, Append(view[d][<<u, f>>], x))>>
WithoutAny(s, x) == SelectSeq(s, LAMBDA h : h # x)   \* slip: its doubles go too
Without(s, x) ==
  LET i == CHOOSE i \in DOMAIN s : s[i] = x /\ \A j \in 1 .. i - 1 : s[j] # x
  IN  RemoveAt(s, i)
Delete(d, h) ==
  LET s == view[d][<<d, "freeHours">>]
  IN  IF h \in ToSet(s) THEN <<PutLeaf(d, "freeHours", Without(s, h))>> ELSE <<>>

Tap == taps < MaxTaps /\ taps' = taps + 1
Idle(d) == calls[d] = <<>>

\* The next callback of d writes.
RunCallback(d) ==
  /\ calls[d] # <<>>
  /\ Sync!LocalWrite(d, Head(calls[d]))
  /\ Observe(d)
  /\ calls' = [calls EXCEPT ![d] = Tail(@)]
  /\ UNCHANGED <<page, offers, geocoding, taps, auth, history>>
=============================================================================
