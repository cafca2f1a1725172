----------------------------- MODULE UserLists ------------------------------
(***************************************************************************)
(* What the organisation sees of people: a list of the users of a role,    *)
(* the comments on one of them, the volunteers free at an hour; and the    *)
(* comments members make.                                                  *)
(***************************************************************************)
EXTENDS People

\* viewDidLoad of the list of role r: every user of the role is a child added.
OpenList(o, r) ==
  /\ page[o] = "organiser"
  /\ page' = [page EXCEPT ![o] = "list"]
  /\ list' = [list EXCEPT ![o] =
                [role |-> r, rows |-> LET s == SetToSeq(Members(view[o], r))
                                      IN  [i \in DOMAIN s |-> RecordOf(view[o], s[i])]]]
  /\ UNCHANGED <<syncVars, hours, shown, offers, calls, geocoding, taps, auth, history>>

\* didSelectRowAt: the comments on the user the row shows; the list stays below.
OpenComments(o, u) ==
  /\ page[o] = "list"
  /\ \E i \in DOMAIN list[o].rows : list[o].rows[i].email = u
  /\ page' = [page EXCEPT ![o] = "comments"]
  /\ shown' = [shown EXCEPT ![o] = [on |-> {u}, rows |-> view[o][<<u, "comments">>]]]
  /\ UNCHANGED <<syncVars, hours, list, offers, calls, geocoding, taps, auth, history>>

\* viewDidLoad of the details of an activity at hour h: a user with that free hour is
\* offered (once for each time it is on the list; the model has the set).
OpenActivity(o, h) ==
  /\ page[o] = "organiser"
  /\ page' = [page EXCEPT ![o] = "activity"]
  /\ offers' = [offers EXCEPT ![o] =
                  {<<u, h>> : u \in {u \in User : h \in ToSet(view[o][<<u, "freeHours">>])}}]
  /\ UNCHANGED <<syncVars, hours, list, shown, calls, geocoding, taps, auth, history>>

\* Back: the screen on top goes.
Back(o) ==
  /\ page[o] \in {"list", "comments", "activity"}
  /\ page' = [page EXCEPT ![o] = IF @ = "comments" THEN "list" ELSE "organiser"]
  /\ list' = [list EXCEPT ![o] = IF page[o] = "list" THEN NoList ELSE @]
  /\ shown' = [shown EXCEPT ![o] = NoComments]
  /\ offers' = [offers EXCEPT ![o] = {}]
  /\ UNCHANGED <<syncVars, hours, calls, geocoding, taps, auth, history>>

\* insertComments by an elder on a volunteer, or the other way round.
Comment(d, u) ==
  /\ <<page[d], RoleOf(view[d], u)>> \in {<<"elder", Volunteer>>, <<"volunteer", Elder>>}
  /\ Idle(d)
  /\ Tap
  /\ calls' = [calls EXCEPT ![d] = @ \o Insert(d, u, "comments", d)]
  /\ UNCHANGED <<syncVars, page, hours, list, shown, offers, geocoding, auth, history>>

ListNext(d) == \/ \E r \in {Elder, Volunteer} : OpenList(d, r)
               \/ \E u \in User : OpenComments(d, u)
               \/ \E h \in Hours : OpenActivity(d, h)
               \/ Back(d)
               \/ \E u \in User : Comment(d, u)
=============================================================================
