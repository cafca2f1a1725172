------------------------------ MODULE Accounts ------------------------------
(***************************************************************************)
(* Sign-up and login.  The role is kept twice: under Users, where the      *)
(* lists find it, and as the display name of the Firebase account, by      *)
(* which login chooses the screens.  The display name is a request of its  *)
(* own, of whose end nobody is told.                                       *)
(***************************************************************************)
EXTENDS People

\* The callback of createUser: the name is requested, the user's record written.
SignUp(d, r) ==
  /\ page[d] = "login" /\ d \notin members
  /\ members' = members \cup {d}
  /\ requests' = requests \cup {<<d, r>>}
  /\ picked' = [picked EXCEPT ![d] = r]
  /\ Sync!LocalWrite(d, AccountOf(d, r))
  /\ Observe(d)
  /\ UNCHANGED <<page, offers, calls, geocoding, taps, names, wanted, pressed>>

\* Firebase Auth takes the new display name.
NameChanged(d) ==
  /\ \E r \in AnyRole : /\ <<d, r>> \in requests
                        /\ requests' = requests \ {<<d, r>>}
                        /\ names' = [names EXCEPT ![d] = r]
  /\ UNCHANGED <<syncVars, page, hours, list, shown, offers, calls, geocoding, taps, members, history>>

ScreensWithoutElders(name) ==   \* slip: the elder's case is forgotten
  IF name = Volunteer THEN "volunteer" ELSE "organiser"
ScreensFor(name) ==
  IF name = Volunteer THEN "volunteer" ELSE IF name = Elder THEN "elder" ELSE "organiser"

\* The profile table starts with a blank row, then hears of every hour.
HoursAtLogin(d, screens, v) ==
  IF screens = "volunteer" THEN <<BlankRow>> \o v[<<d, "freeHours">>] ELSE <<>>

\* loginButtonPressed, with the display name of the moment.
LogIn(d) ==
  /\ page[d] = "login" /\ d \in members
  /\ page' = [page EXCEPT ![d] = ScreensFor(names[d])]
  /\ hours' = [hours EXCEPT ![d] = HoursAtLogin(d, ScreensFor(names[d]), view[d])]
  /\ UNCHANGED <<syncVars, list, shown, offers, calls, geocoding, taps, auth, history>>

\* logoutTapped: look-ups still under way go on.
LogOut(d) ==
  /\ page[d] \in {"volunteer", "elder", "organiser", "list"}
  /\ d \in Leavers /\ Idle(d)
  /\ page' = [page EXCEPT ![d] = "login"]
  /\ hours' = [hours EXCEPT ![d] = <<>>]
  /\ list' = [list EXCEPT ![d] = NoList]
  /\ UNCHANGED <<syncVars, shown, offers, calls, geocoding, taps, auth, history>>

AccountNext(d) == \/ d \in Newcomers /\ \E r \in Picks : SignUp(d, r)
                  \/ NameChanged(d)
                  \/ LogIn(d)
                  \/ LogOut(d)
=============================================================================
