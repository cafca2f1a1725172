------------------------------ MODULE AppState ------------------------------
(***************************************************************************)
(* What every device of the app keeps besides its Firebase client, and how *)
(* the registered observers change it whenever the client's view changes:  *)
(* the request table of the role (ElderTable-, VolunteerTable- and         *)
(* OrganiserTableViewController), the details screen opened from it, the   *)
(* one-shot reads whose callbacks are still to run and the observers of    *)
(* insertRating.                                                           *)
(*                                                                         *)
(* Observers run when the view changes, in the same step.  The rows of a   *)
(* table are a set: repeated fetches register repeated observers, which    *)
(* add and remove the same row repeatedly.                                 *)
(*                                                                         *)
(* Bounds: MaxTaps taps that write, and those of FirebaseSync.             *)
(***************************************************************************)
EXTENDS Schema, SequencesExt

CONSTANTS MaxPending, MaxInbox, MaxReconnects, MaxRestarts,
          MaxTaps,       \* bound: taps that write, over all devices
          Hasty,         \* TRUE: users go on tapping before the callbacks ran
          ReuseNames,    \* TRUE: two requests on record may have the same name
          Searchers,     \* the devices whose user opens the search bar
          Leavers        \* the devices whose user logs out

ASSUME LimitAssumption == /\ MaxPending \in Nat
                          /\ MaxInbox \in Nat
                          /\ MaxReconnects \in Nat
                          /\ MaxRestarts \in Nat

VARIABLES server, view, pending, unheard, inbox, reconnects, restarts,
          rows,        \* the request table of each device
          found,       \* its search results, a copy of some rows
          screen,      \* the screen opened from the table
          calls,       \* callbacks to run, in order
          watches,     \* the grade observers insertRating leaves behind
          taps,
          issued, chosen, assigned, accepted, saved   \* history, for properties

\* Every device follows the requests, the log of its user and, to extend them, the
\* reviews of the accounts its user can grade.  What a screen only displays (the
\* other fields of Users, which every table loads) is left out.
Graded(d) == IF d \in Elders THEN Volunteers \cup {NoUser}
             ELSE IF d \in Volunteers THEN Elders \cup {NoUser} ELSE {}
Listens == [d \in Device |->
              (Key \X RequestField)
                \cup {<<SafeEmail[u], "activities">> : u \in {d} \cap Account}
                \cup {SafeEmail[u] : u \in Graded(d)} \X {"grades", "comments"}]

Sync == INSTANCE FirebaseSync WITH Client <- Device

history == <<issued, chosen, assigned, accepted, saved>>
syncVars == <<server, view, pending, unheard, inbox, reconnects, restarts>>
vars == <<syncVars, rows, found, screen, calls, watches, taps, history>>
-----------------------------------------------------------------------------
\* A row of a table: the dictionary of a request and the key the app put in it.
RowFor(v, k, key) == [key |-> key, request |-> Request(v, k),
                      status |-> StatusOf(v, k), volunteer |-> VolunteerOf(v, k)]

\* Which records the childAdded observer of device d appends.
MineForAll(d, v, k) ==   \* slip: volunteers see each other's tasks
  \/ d \in Elders /\ Request(v, k) # Absent /\ Request(v, k).elder = d
  \/ d \in Volunteers /\ VolunteerOf(v, k) \in Volunteers
  \/ d \in Organisers /\ StatusOf(v, k) = Active
Mine(d, v, k) ==
  \/ d \in Elders /\ Request(v, k) # Absent /\ Request(v, k).elder = d
  \/ d \in Volunteers /\ VolunteerOf(v, k) = d
  \/ d \in Organisers /\ StatusOf(v, k) = Active

Appended(d, old, new) ==
  {RowFor(new, k, k) : k \in {k \in Key : /\ ~Exists(old, k) /\ Exists(new, k)
                                          /\ Mine(d, new, k)}}

\* Slip: a changed record leaves the row, and its key, as they were.
KeptUnchanged(d, R, old, new) ==
  {r \in R : (r.key # NoKey /\ Exists(old, r.key) /\ ~Exists(new, r.key))
               => d \in Organisers}

\* childChanged puts the record in place of the row and loses the key with it;
\* childRemoved drops the row, but looks at a field no request has in the
\* organiser's table.
Kept(d, R, old, new) ==
  LET Gone(r) == r.key # NoKey /\ Exists(old, r.key) /\ ~Exists(new, r.key)
      Changed(r) == /\ r.key # NoKey /\ Exists(old, r.key) /\ Exists(new, r.key)
                    /\ Record(old, r.key) # Record(new, r.key)
  IN  {IF Changed(r) THEN RowFor(new, r.key, NoKey) ELSE r :
         r \in {r \in R : Gone(r) => d \in Organisers}}

RowsAfter(d, R, old, new) == Kept(d, R, old, new) \cup Appended(d, old, new)

\* fetchData: the table is emptied, new observers report every record.
Fetched(d, v) == {RowFor(v, k, k) : k \in {k \in Key : Exists(v, k) /\ Mine(d, v, k)}}

Shown(d) == IF found[d].active THEN found[d].rows ELSE rows[d]
NotSearching == [active |-> FALSE, rows |-> {}]
-----------------------------------------------------------------------------
\* The screen pushed from a table row, with what it captured; status Absent is
\* the empty string of a screen that was given nothing.
Screen(page, key, name, status, peer, graded) ==
  [page |-> page, key |-> key, name |-> name, status |-> status,
   peer |-> peer, graded |-> graded]
NoScreen == Screen("none", NoKey, NoName, Absent, NoUser, FALSE)
BlankDetails == Screen("details", NoKey, NoName, Absent, NoUser, FALSE)
LoginScreen == Screen("login", NoKey, NoName, Absent, NoUser, FALSE)

OnDetails(d) == screen[d].page = "details"

\* The observer of the volunteer's comments on an elder's details screen.
AlreadyGraded(d, v, s) ==
  /\ d \in Elders /\ s.page \in {"details", "rate"}
  /\ [name |-> s.name, user |-> d]
       \in ToSet(v[<<SafeEmail[s.peer], "comments">>])

ScreenAfter(d, s, v) == [s EXCEPT !.graded = @ \/ AlreadyGraded(d, v, s)]

\* Slip: the observer hears the grades present when it is registered, no others.
HeardOnce(d, old, new) == <<>>

\* The observers of insertRating are told every new list of grades.
RatingEvents(d, old, new) ==
  LET grades(i, v) == v[<<watches[d][i].path, "grades">>]
      due == Sift([i \in DOMAIN watches[d] |-> i],
                  {i \in DOMAIN watches[d] : /\ grades(i, new) # grades(i, old)
                                            /\ grades(i, new) # <<>>})
  IN  [j \in DOMAIN due |->
         [op |-> "rate", watch |-> due[j], grades |-> grades(due[j], new)]]

\* The observers of device d react to its client's change of view; queue is what
\* the step leaves in calls[d] and s the screen it leaves open.
Observe(d, queue, s) ==
  /\ rows' = [rows EXCEPT ![d] = RowsAfter(d, @, view[d], view'[d])]
  /\ screen' = [screen EXCEPT ![d] = ScreenAfter(d, s, view'[d])]
  /\ calls' = [calls EXCEPT ![d] = queue \o RatingEvents(d, view[d], view'[d])]

\* One write by device d, and what its own observers make of it at once.
Emit(d, w, queue, s) == Sync!LocalWrite(d, w) /\ Observe(d, queue, s)

\* A tap that opens, closes or leaves a screen and writes nothing at once.
Quietly == UNCHANGED <<syncVars, rows>>
-----------------------------------------------------------------------------
\* A callback can run once its event is there: a query by name that found
\* nothing waits for a request of that name.
Ready(d, call) == call.op = "find" => Named(view[d], call.name) # {}
Due(d) == {i \in DOMAIN calls[d] : Ready(d, calls[d][i])}

\* The user of d does something: a careful one after the app has come to rest.
Acts(d) == Hasty \/ Due(d) = {}

\* The user of d taps something that writes.
Tap(d) == taps < MaxTaps /\ taps' = taps + 1
=============================================================================
