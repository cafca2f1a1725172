---------------------------- MODULE VolunteerApp ----------------------------
(***************************************************************************)
(* The volunteer's screens: VolunteerTableViewController lists the tasks   *)
(* that name the volunteer, VolunteerDetailsViewController accepts or      *)
(* rejects one, RateElderViewController grades the elder and finishes it.  *)
(***************************************************************************)
EXTENDS RequestTable

VolunteerDetails(r) ==
  IF ~Complete(r) THEN BlankDetails
  ELSE Screen("details", r.key, r.request.name, r.status, r.request.elder, FALSE)

OpenVolunteerDetails(v) == \E r \in Shown(v) : Open(v, VolunteerDetails(r))

\* The buttons, by the status captured; accepting leaves them as Scheduled does.
DecisionStaysShown(s) == s.status \in {Registered, Scheduled, Absent}   \* slip
DecisionShown(s) == s.status \in {Registered, Absent}
RateShownEarly(s) == s.status \in {Registered, Scheduled, Absent}   \* slip
RateShown(s) == s.status \in {Scheduled, Absent}

\* Slip: the key is logged in place of the name.
AcceptLogsKey(v) ==
  LET s == screen[v]
  IN  /\ OnDetails(v) /\ DecisionShown(s)
      /\ Tap(v)
      /\ calls' = [calls EXCEPT ![v] = @ \o UpdateCalls(s.key, <<<<"status", Scheduled>>>>)
                                         \o Insert(v, v, "activities", s.key)]
      /\ screen' = [screen EXCEPT ![v].status = Scheduled]
      /\ accepted' = accepted \cup {<<s.key, v>>}
      /\ Quietly
      /\ UNCHANGED <<found, watches, issued, chosen, assigned, saved>>

\* Slip: the screen and the log know, the request does not.
AcceptLogsOnly(v) ==
  LET s == screen[v]
  IN  /\ OnDetails(v) /\ DecisionShown(s)
      /\ Tap(v)
      /\ calls' = [calls EXCEPT ![v] = @ \o Insert(v, v, "activities", s.name)]
      /\ screen' = [screen EXCEPT ![v].status = Scheduled]
      /\ accepted' = accepted \cup {<<s.key, v>>}
      /\ Quietly
      /\ UNCHANGED <<found, watches, issued, chosen, assigned, saved>>

\* acceptTapped.
Accept(v) ==
  LET s == screen[v]
  IN  /\ OnDetails(v) /\ DecisionShown(s)
      /\ Tap(v)
      /\ calls' = [calls EXCEPT ![v] = @ \o UpdateCalls(s.key, <<<<"status", Scheduled>>>>)
                                         \o Insert(v, v, "activities", s.name)]
      /\ screen' = [screen EXCEPT ![v].status = Scheduled]
      /\ accepted' = accepted \cup {<<s.key, v>>}
      /\ Quietly
      /\ UNCHANGED <<found, watches, issued, chosen, assigned, saved>>

\* rejectTapped.
Reject(v) ==
  LET s == screen[v]
  IN  /\ OnDetails(v) /\ DecisionShown(s)
      /\ Tap(v)
      /\ calls' = [calls EXCEPT ![v] =
                     @ \o UpdateCalls(s.key, <<<<"status", Active>>, <<"volunteer", NoUser>>>>)
                       \o <<[op |-> "dismiss"]>>]
      /\ Quietly
      /\ UNCHANGED <<found, screen, watches, history>>

\* rateEdlerPressed.
RatePressed(v) ==
  /\ OnDetails(v) /\ RateShown(screen[v])
  /\ screen' = [screen EXCEPT ![v].page = "rate"]
  /\ Quietly
  /\ UNCHANGED <<found, calls, watches, taps, history>>

\* saveButtonPressed of RateElderViewController: the task is finished by name.
SaveElderGrade(v, g) ==
  /\ Tap(v)
  /\ SaveGrade(v, screen[v].peer, g,
               UpdateNamed(v, screen[v].name, <<<<"status", Finished>>>>))

VolunteerNext(v) == \/ OpenVolunteerDetails(v)
                    \/ Accept(v)
                    \/ Reject(v)
                    \/ RatePressed(v)
                    \/ \E g \in Grades : SaveElderGrade(v, g)
=============================================================================
