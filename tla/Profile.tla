------------------------------ MODULE Profile -------------------------------
(***************************************************************************)
(* The volunteer's profile: free hours and a place on the map.  Users wait *)
(* for the callbacks of a tap before the next one.                         *)
(***************************************************************************)
EXTENDS People

OnProfile(v) == page[v] = "volunteer" /\ Idle(v)

\* addtapped.
AddHour(v, h) ==
  /\ OnProfile(v)
  /\ Tap
  /\ calls' = [calls EXCEPT ![v] = @ \o Insert(v, v, "freeHours", h)]
  /\ wanted' = [wanted EXCEPT ![v][h] = @ + 1]
  /\ UNCHANGED <<syncVars, page, hours, list, shown, offers, geocoding, auth, picked, pressed>>

\* Slip: the row is left to the observer.
DeleteRowOnRecord(v, i) ==
  /\ OnProfile(v)
  /\ hours[v][i] # BlankRow
  /\ Tap
  /\ calls' = [calls EXCEPT ![v] = @ \o Delete(v, hours[v][i])]
  /\ wanted' = [wanted EXCEPT ![v][hours[v][i]] = IF @ = 0 THEN 0 ELSE @ - 1]
  /\ UNCHANGED <<syncVars, page, hours, list, shown, offers, geocoding, auth, picked, pressed>>

\* A row is swiped away: its hour is deleted by value, the row at once.
DeleteRow(v, i) ==
  /\ OnProfile(v)
  /\ hours[v][i] # BlankRow
  /\ Tap
  /\ calls' = [calls EXCEPT ![v] = @ \o Delete(v, hours[v][i])]
  /\ hours' = [hours EXCEPT ![v] = RemoveAt(@, i)]
  /\ wanted' = [wanted EXCEPT ![v][hours[v][i]] = IF @ = 0 THEN 0 ELSE @ - 1]
  /\ UNCHANGED <<syncVars, page, list, shown, offers, geocoding, auth, picked, pressed>>

\* A long press starts a look-up of the address.
LongPress(v, p) ==
  /\ OnProfile(v)
  /\ Tap
  /\ geocoding' = [geocoding EXCEPT ![v] = Append(@, p)]
  /\ pressed' = [pressed EXCEPT ![v] = @ \cup {p}]
  /\ UNCHANGED <<syncVars, page, hours, list, shown, offers, calls, auth, picked, wanted>>

\* The answers to look-ups come in any order; each starts insertLocation, two reads
\* with a write each, unless the volunteer has logged out.
GeocodedHalf(v, i) ==   \* slip: the longitude is forgotten
  /\ geocoding' = [geocoding EXCEPT ![v] = RemoveAt(@, i)]
  /\ calls' = [calls EXCEPT ![v] = @ \o
                  IF page[v] = "login" THEN <<>>
                  ELSE <<PutLeaf(v, "latitude", geocoding[v][i])>>]
  /\ UNCHANGED <<syncVars, page, hours, list, shown, offers, taps, auth, history>>
Geocoded(v, i) ==
  /\ geocoding' = [geocoding EXCEPT ![v] = RemoveAt(@, i)]
  /\ calls' = [calls EXCEPT ![v] = @ \o
                  IF page[v] = "login" THEN <<>>
                  ELSE <<PutLeaf(v, "latitude", geocoding[v][i]),
                         PutLeaf(v, "longitude", geocoding[v][i])>>]
  /\ UNCHANGED <<syncVars, page, hours, list, shown, offers, taps, auth, history>>

ProfileNext(v) == \/ \E h \in Hours : AddHour(v, h)
                  \/ \E i \in DOMAIN hours[v] : DeleteRow(v, i)
                  \/ \E p \in Place : LongPress(v, p)
                  \/ \E i \in DOMAIN geocoding[v] : Geocoded(v, i)
=============================================================================
