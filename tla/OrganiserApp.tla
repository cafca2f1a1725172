---------------------------- MODULE OrganiserApp ----------------------------
(***************************************************************************)
(* The organisation's screens: OrganiserTableViewController lists the      *)
(* active requests, ActivityDetailsViewController assigns one of the free  *)
(* volunteers.  Which volunteers are free depends on hours the model does  *)
(* not keep: any volunteer may be.                                         *)
(***************************************************************************)
EXTENDS RequestTable

OrganiserDetails(r) ==
  IF ~Complete(r) THEN BlankDetails
  ELSE Screen("details", r.key, r.request.name, r.status, r.request.elder, FALSE)

OpenActivityDetails(o) == \E r \in rows[o] : Open(o, OrganiserDetails(r))

\* didSelectRowAt: the request is looked up by its name; the list of volunteers
\* is hidden afterwards, so one visit assigns once.
Assign(o, v) ==
  LET s == screen[o]
  IN  /\ OnDetails(o)
      /\ Tap(o)
      /\ calls' = [calls EXCEPT ![o] =
                     @ \o UpdateNamed(o, s.name, <<<<"status", Registered>>,
                                                   <<"volunteer", v>>>>)]
      /\ screen' = [screen EXCEPT ![o].page = "done"]
      /\ chosen' = chosen \cup {<<s.key, v>>}
      /\ assigned' = assigned \cup Hit(o, s.name, v)
      /\ Quietly
      /\ UNCHANGED <<found, watches, issued, accepted, saved>>

OrganiserNext(o) == OpenActivityDetails(o) \/ \E v \in Volunteers : Assign(o, v)
=============================================================================
