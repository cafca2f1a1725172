---------------------------- MODULE RequestTable ----------------------------
(***************************************************************************)
(* What the three request tables and the screens pushed from them have in  *)
(* common: pull to refresh, the search bar, going back, logging out and in. *)
(***************************************************************************)
EXTENDS DatabaseManager

\* refresh: fetchData once more.  The search results are not touched.
Refresh(d) ==
  /\ screen[d].page = "none"
  /\ rows' = [rows EXCEPT ![d] = Fetched(d, view[d])]
  /\ UNCHANGED <<syncVars, found, screen, calls, watches, taps, history>>

\* The scopes of the search bar, by role.
Scopes(d) == IF d \in Elders THEN Status ELSE Status \ {Active}

\* updateSearchResults: the rows of the selected scope are copied.
SearchScope(d, s) ==
  /\ d \in Searchers /\ screen[d].page = "none"
  /\ s \in Scopes(d)
  /\ found' = [found EXCEPT ![d] =
                 [active |-> TRUE, rows |-> {r \in rows[d] : r.status = s}]]
  /\ UNCHANGED <<syncVars, rows, screen, calls, watches, taps, history>>

\* With a text, the rows whose name starts with it, in every scope; a row without
\* a name cannot be searched.
SearchText(d, n) ==
  /\ d \in Searchers /\ screen[d].page = "none"
  /\ \A r \in rows[d] : r.request # Absent
  /\ found' = [found EXCEPT ![d] =
                 [active |-> TRUE, rows |-> {r \in rows[d] : r.request.name = n}]]
  /\ UNCHANGED <<syncVars, rows, screen, calls, watches, taps, history>>

EndSearch(d) ==
  /\ found[d].active /\ screen[d].page = "none"
  /\ found' = [found EXCEPT ![d] = NotSearching]
  /\ UNCHANGED <<syncVars, rows, screen, calls, watches, taps, history>>

BackToDetails(d) ==
  /\ screen[d].page = "rate"
  /\ screen' = [screen EXCEPT ![d].page = "details"]
  /\ Quietly
  /\ UNCHANGED <<found, calls, watches, taps, history>>

BackToTable(d) ==
  /\ screen[d].page \in {"details", "done"}
  /\ screen' = [screen EXCEPT ![d] = NoScreen]
  /\ calls' = [calls EXCEPT ![d] = Popped(@)]
  /\ Quietly
  /\ UNCHANGED <<found, watches, taps, history>>

\* logoutTapped and its like: callbacks still to run and observers stay.
LogOut(d) ==
  /\ d \in Leavers /\ screen[d].page # "login"
  /\ screen' = [screen EXCEPT ![d] = LoginScreen]
  /\ calls' = [calls EXCEPT ![d] = Popped(@)]
  /\ Quietly
  /\ UNCHANGED <<found, watches, taps, history>>

\* loginButtonPressed, by the user of the device: a table of its own, fetched anew.
LogIn(d) ==
  /\ screen[d].page = "login"
  /\ screen' = [screen EXCEPT ![d] = NoScreen]
  /\ rows' = [rows EXCEPT ![d] = Fetched(d, view[d])]
  /\ found' = [found EXCEPT ![d] = NotSearching]
  /\ UNCHANGED <<syncVars, calls, watches, taps, history>>

\* prepare(for:sender:): without every field it reads, the key among them, the
\* screen opens with nothing.
Complete(r) == r.key # NoKey /\ r.request # Absent /\ r.status # Absent

Open(d, s) ==
  /\ screen[d].page = "none"
  /\ screen' = [screen EXCEPT ![d] = ScreenAfter(d, s, view[d])]
  /\ Quietly
  /\ UNCHANGED <<found, calls, watches, taps, history>>

\* saveButtonPressed of both rating screens: the grade, the rating, the comment.
\* The rating screen and the one below it are popped.
SaveGrade(d, u, g, more) ==
  LET s == screen[d]
  IN  /\ s.page = "rate"
      /\ calls' = [calls EXCEPT ![d] =
                     Popped(@) \o Insert(d, u, "grades", g)
                       \o InsertRating(d, u)
                       \o Insert(d, u, "comments", [name |-> s.name, user |-> d])
                       \o more]
      /\ watches' = [watches EXCEPT ![d] = Append(@, NewWatch(u))]
      /\ screen' = [screen EXCEPT ![d] = NoScreen]
      /\ saved' = Append(saved, [by |-> d, of |-> u, grade |-> g])
      /\ Quietly
      /\ UNCHANGED <<found, issued, chosen, assigned, accepted>>

TableNext(d) == \/ Refresh(d)
                \/ \E s \in Status : SearchScope(d, s)
                \/ \E n \in Names : SearchText(d, n)
                \/ EndSearch(d)
                \/ BackToDetails(d)
                \/ BackToTable(d)
                \/ LogOut(d)
                \/ LogIn(d)
=============================================================================
