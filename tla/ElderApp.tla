------------------------------ MODULE ElderApp ------------------------------
(***************************************************************************)
(* The elder's screens: ElderViewController and ElderMapViewController add *)
(* requests, ElderTableViewController lists them, ElderDetails- and        *)
(* RateVolunteerViewController act on one.                                 *)
(***************************************************************************)
EXTENDS RequestTable

\* A name no request of the elder's table has now, unless names may repeat: one that was
\* cancelled may be filed again.
NameAllowed(e, n) == ReuseNames \/ Named(view[e], n) = {}

\* childByAutoId().setValue(...) by elder e, followed by the callbacks cs.
Create(e, n, cs) ==
  /\ screen[e].page # "login"
  /\ Len(issued) < MaxRequests
  /\ NameAllowed(e, n)
  /\ Emit(e, CreateRecord(Len(issued) + 1, e, n), calls[e] \o cs, screen[e])
  /\ issued' = Append(issued, [elder |-> e, name |-> n])
  /\ UNCHANGED <<found, watches, chosen, assigned, accepted, saved>>

\* addActivityPressed, past its check that nothing is blank.
AddActivity(e, n) ==
  /\ n # NoName
  /\ Tap(e)
  /\ Create(e, n, Insert(e, e, "activities", n))

\* addPressed on the map screen: no check, nothing logged.
AddFromMap(e, n) == Tap(e) /\ Create(e, n, <<>>)

\* prepare: its loop over Users also returns at a volunteer without a rating, but
\* every volunteer signed up with one.
ElderDetails(r) ==
  IF ~Complete(r) \/ r.volunteer = Absent THEN BlankDetails
  ELSE Screen("details", r.key, r.request.name, r.status, r.volunteer, FALSE)

OpenElderDetails(e) == \E r \in Shown(e) : Open(e, ElderDetails(r))

\* The buttons of the details screen, by the status it captured.
CancelShown(s) == s.status \in {Active, Absent}
GradeShown(s) == s.status \in {Finished, Absent} /\ ~s.graded

\* cancelButtonPressed.
Cancel(e) ==
  /\ OnDetails(e) /\ CancelShown(screen[e])
  /\ Tap(e)
  /\ Emit(e, RemoveRecord(screen[e].key), calls[e], NoScreen)
  /\ UNCHANGED <<found, watches, history>>

\* gradeButtonPressed.
GradePressed(e) ==
  /\ OnDetails(e) /\ GradeShown(screen[e])
  /\ screen' = [screen EXCEPT ![e].page = "rate"]
  /\ Quietly
  /\ UNCHANGED <<found, calls, watches, taps, history>>

\* saveButtonPressed of RateVolunteerViewController.
SaveVolunteerGrade(e, g) == Tap(e) /\ SaveGrade(e, screen[e].peer, g, <<>>)

ElderNext(e) == \/ \E n \in Names : AddActivity(e, n) \/ AddFromMap(e, n)
                \/ OpenElderDetails(e)
                \/ Cancel(e)
                \/ GradePressed(e)
                \/ \E g \in Grades : SaveVolunteerGrade(e, g)
=============================================================================
