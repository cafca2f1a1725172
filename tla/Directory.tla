----------------------------- MODULE Directory ------------------------------
(***************************************************************************)
(* All screens about people, on one database: a profile being edited, the  *)
(* lists that show it, members joining.                                    *)
(***************************************************************************)
EXTENDS Profile, UserLists, Accounts

\* Members start logged in, newcomers do not.
Init ==
  /\ Sync!Init
  /\ page = [d \in Device |-> IF d \in Newcomers THEN "login" ELSE ScreensFor(Role[d])]
  /\ hours = [d \in Device |-> HoursAtLogin(d, page[d], Blank)]
  /\ list = [d \in Device |-> NoList]
  /\ shown = [d \in Device |-> NoComments]
  /\ offers = [d \in Device |-> {}]
  /\ calls = [d \in Device |-> <<>>]
  /\ geocoding = [d \in Device |-> <<>>]
  /\ taps = 0
  /\ members = User \ Newcomers
  /\ names = [d \in Device |-> IF d \in Newcomers THEN NoRole ELSE Role[d]]
  /\ requests = {}
  /\ picked = names
  /\ wanted = [d \in Device |-> [h \in Hours |-> Copies(h, Blank[<<d, "freeHours">>])]]
  /\ pressed = [d \in Device |-> {}]

local == <<page, offers, calls, geocoding, taps, auth, history>>

Commit(d) == Sync!Commit(d) /\ UNCHANGED <<local, hours, list, shown>>
Deliver(d) == Sync!Deliver(d) /\ Observe(d) /\ UNCHANGED local

\* Swiping the blank row away crashes the app (date!): what was unsent and the look-ups
\* are lost, and it starts at the login screen.
SwipeBlankRow(v) ==
  /\ OnProfile(v) /\ BlankRow \in ToSet(hours[v])
  /\ Sync!Restart(v)
  /\ page' = [page EXCEPT ![v] = "login"]
  /\ hours' = [hours EXCEPT ![v] = <<>>]
  /\ geocoding' = [geocoding EXCEPT ![v] = <<>>]
  /\ UNCHANGED <<list, shown, offers, calls, taps, auth, history>>

Next == \E d \in Device : \/ ProfileNext(d) \/ ListNext(d) \/ AccountNext(d)
                          \/ RunCallback(d)
                          \/ Commit(d) \/ Deliver(d)
                          \/ SwipeBlankRow(d)

Spec == Init /\ [][Next]_vars
-----------------------------------------------------------------------------
Record == [email : User, fields : [Field -> Value]]

TypeOK ==
  /\ \A l \in Leaf : server[l] \in ValueOf(l)
  /\ \A d \in Device, l \in Leaf : view[d][l] \in ValueOf(l)
  /\ \A d \in Device : /\ ToSet(hours[d]) \subseteq Hours \cup {BlankRow}
                       /\ list[d].role \in AnyRole
                       /\ \A i \in DOMAIN list[d].rows : list[d].rows[i].email \in User
                       /\ shown[d].on \subseteq User
                       /\ offers[d] \subseteq User \X Hours
                       /\ ToSet(geocoding[d]) \subseteq Place
  /\ members \subseteq User /\ names \in [User -> AnyRole]

Quiet == \A d \in Device : pending[d] = <<>> /\ inbox[d] = <<>> /\ calls[d] = <<>>

\* What a volunteer added and did not delete is on record, each hour as often as it
\* was added: each tap reads the list and writes it back later, in another callback.
HoursAsWanted ==
  (Quiet /\ restarts = 0) =>
    \A v \in User, h \in Hours : Copies(h, server[<<v, "freeHours">>]) = wanted[v][h]

\* Every hour the profile shows is one the client has on record, as often as it is
\* shown, although a removal drops row 0 whichever hour went: no row is left behind
\* that could be deleted once more.
ShownHoursOnRecord ==
  \A v \in Device : calls[v] = <<>> =>
    \A h \in Hours : Copies(h, hours[v]) =< Copies(h, view[v][<<v, "freeHours">>])

\* The place on record is one the volunteer pressed, both coordinates of it, though
\* they are two writes and the answers of the look-ups may come in any order.
PlaceWasPressed ==
  (Quiet /\ restarts = 0) =>
    \A v \in User :
      LET latitude == server[<<v, "latitude">>]
      IN  /\ server[<<v, "longitude">>] = latitude
          /\ latitude \in pressed[v] \cup {0, Absent}

\* Every row of a list of users is the present record of a user of that role, and
\* there are as many rows as such users: a change overwrites all rows, so none is
\* out of date, even if several show the same user.
RowsAreCurrent ==
  \A o \in Device :
    list[o].role # NoRole =>
      /\ \A i \in DOMAIN list[o].rows :
           \E u \in Members(view[o], list[o].role) : list[o].rows[i] = RecordOf(view[o], u)
      /\ Len(list[o].rows) = Cardinality(Members(view[o], list[o].role))

\* The last comments shown are those on record, however often the list was appended.
CommentsAreShown ==
  \A o \in Device : \A u \in shown[o].on :
    IsSuffix(view[o][<<u, "comments">>], shown[o].rows)

\* Nobody comes to screens of a role not picked at sign-up, save by a login before the
\* display name has arrived, which gives the organisation's; and the role picked is the
\* one on record, once its write has arrived.
ScreensOf(r) == IF r = Volunteer THEN {"volunteer"}
                ELSE IF r = Elder THEN {"elder"}
                ELSE {"organiser", "list", "comments", "activity"}
Enters(d, r) == page[d] \notin ScreensOf(r) /\ page'[d] \in ScreensOf(r)
OnlyEarlyLoginsStray ==
  /\ [][\A d \in Device :
          /\ Enters(d, Volunteer) => picked[d] = Volunteer
          /\ Enters(d, Elder) => picked[d] = Elder
          /\ Enters(d, Organiser) => \/ picked[d] \in {Organiser, NoRole}
                                     \/ page[d] = "login" /\ <<d, picked[d]>> \in requests]_vars
  /\ [](Quiet /\ restarts = 0 => \A d \in members : RoleOf(server, d) = picked[d])
=============================================================================
