----------------------------- MODULE Elderistic -----------------------------
(***************************************************************************)
(* The whole system: every user's device runs the app of its role, all of  *)
(* them on one Firebase database.                                          *)
(***************************************************************************)
EXTENDS ElderApp, VolunteerApp, OrganiserApp

Init ==
  /\ Sync!Init
  /\ rows = [d \in Device |-> Fetched(d, Blank)]
  /\ found = [d \in Device |-> NotSearching]
  /\ screen = [d \in Device |-> NoScreen]
  /\ calls = [d \in Device |-> <<>>]
  /\ watches = [d \in Device |-> <<>>]
  /\ taps = 0
  /\ issued = [i \in DOMAIN Filed |-> [elder |-> Filed[i].elder, name |-> Filed[i].name]]
  /\ chosen = {<<i, Filed[i].volunteer>> : i \in Taken}
  /\ assigned = chosen /\ accepted = chosen
  /\ saved = <<>>

local == <<found, watches, taps, history>>

Commit(d) == /\ Sync!Commit(d)
             /\ UNCHANGED <<local, rows, screen, calls>>

Deliver(d) == /\ Sync!Deliver(d)
              /\ Observe(d, calls[d], screen[d])
              /\ UNCHANGED local

Reconnect(d) == /\ Sync!Reconnect(d)
                /\ Observe(d, calls[d], screen[d])
                /\ UNCHANGED local

\* Slip: the table of the previous run is taken over.
RestartKeepsRows(d) ==
  /\ Sync!Restart(d)
  /\ found' = [found EXCEPT ![d] = NotSearching]
  /\ screen' = [screen EXCEPT ![d] = NoScreen]
  /\ calls' = [calls EXCEPT ![d] = <<>>]
  /\ watches' = [watches EXCEPT ![d] = <<>>]
  /\ UNCHANGED <<rows, taps, history>>

\* The app is killed, or crashes (saving a grade when none was picked does), and
\* is opened again: AppDelegate turns no persistence on.
Restart(d) ==
  /\ Sync!Restart(d)
  /\ rows' = [rows EXCEPT ![d] = Fetched(d, server)]
  /\ found' = [found EXCEPT ![d] = NotSearching]
  /\ screen' = [screen EXCEPT ![d] = NoScreen]
  /\ calls' = [calls EXCEPT ![d] = <<>>]
  /\ watches' = [watches EXCEPT ![d] = <<>>]
  /\ UNCHANGED <<taps, history>>

UserActs(d) == /\ Acts(d)
               /\ \/ d \in Elders /\ ElderNext(d)
                  \/ d \in Volunteers /\ VolunteerNext(d)
                  \/ d \in Organisers /\ OrganiserNext(d)
                  \/ TableNext(d)

Next == \E d \in Device : \/ UserActs(d)
                          \/ RunCallback(d)
                          \/ Commit(d) \/ Deliver(d)
                          \/ Reconnect(d) \/ Restart(d)

\* The main queue runs its callbacks and a connected client sends and receives: while
\* any of that is possible on some device, some of it happens.  No user is obliged to
\* do anything.
Work == \E d \in Device : RunCallback(d) \/ Commit(d) \/ Deliver(d)
Fairness == WF_vars(Work)

Spec == Init /\ [][Next]_vars
FairSpec == Spec /\ Fairness
-----------------------------------------------------------------------------
Row == [key : Key \cup {NoKey}, request : {Absent} \cup Heading,
        status : {Absent} \cup Status,
        volunteer : {Absent, NoUser} \cup Volunteers]

ScreenType == [page : {"login", "none", "details", "rate", "done"},
               key : Key \cup {NoKey}, name : Names \cup {NoName}, status : {Absent} \cup Status,
               peer : Account \cup {NoUser}, graded : BOOLEAN]

TypeOK ==
  /\ \A l \in Leaf : server[l] \in ValueOf(l)
  /\ \A d \in Device, l \in Leaf : view[d][l] \in ValueOf(l)
  /\ \A d \in Device : \A i \in DOMAIN pending[d] :
       \A l \in DOMAIN pending[d][i] : pending[d][i][l] \in ValueOf(l)
  /\ rows \in [Device -> SUBSET Row]
  /\ \A d \in Device : found[d].rows \subseteq Row
  /\ screen \in [Device -> ScreenType]
  /\ chosen \subseteq (Key \cup {NoKey}) \X Volunteers
  /\ assigned \subseteq Key \X Volunteers
  /\ accepted \subseteq (Key \cup {NoKey}) \X Volunteers

\* Nothing under way: no write, no message, no callback that could run.
Quiet == \A d \in Device : pending[d] = <<>> /\ inbox[d] = <<>> /\ Due(d) = {}

\* A row that still has its key shows the request as the device knows it now: a
\* row an observer missed, or one kept after the request went, would let its
\* owner act on data the device itself knows to be old.
KeyedRowsCurrent ==
  \A d \in Device \ Organisers : \A r \in rows[d] :
    r.key # NoKey => r = RowFor(view[d], r.key, r.key)

\* A task is scheduled only once a volunteer it was assigned to has accepted it.
ScheduledWasAccepted ==
  \A k \in Key : StatusOf(server, k) = Scheduled =>
    \E v \in Volunteers : <<k, v>> \in accepted \cap assigned

\* A task is finished only once somebody accepted it.
FinishedWasAccepted ==
  \A k \in Key : StatusOf(server, k) = Finished =>
    \E v \in Volunteers : <<k, v>> \in accepted

\* A volunteer's acceptance is not undone: when all is quiet the task, if the
\* elder has not withdrawn it, is scheduled or finished.
AcceptanceStands ==
  Quiet => \A k \in Key, v \in Volunteers :
             (<<k, v>> \in accepted /\ Exists(server, k))
               => StatusOf(server, k) \in {Scheduled, Finished}

\* Every task a volunteer accepted is in the volunteer's activity log.
AcceptedIsLogged ==
  Quiet => \A k \in Key, v \in Volunteers :
             <<k, v>> \in accepted
               => issued[k].name \in ToSet(server[<<SafeEmail[v], "activities">>])

\* The activity log of an account only ever grows, one entry at a time.
LogGrows(u) ==
  LET log == server[<<SafeEmail[u], "activities">>]
  IN  log' # log => \E x \in Names \cup {NoName} : log' = Append(log, x)
ActivitiesOnlyGrow == [][\A u \in Account : LogGrows(u)]_vars

\* Whatever users do, every callback ends and every write arrives everywhere; and then
\* the elders' devices show each acceptance, whatever they wrote meanwhile, unless the
\* elder withdrew the request.
EventuallySettled ==
  <>[](/\ Quiet
       /\ \A e \in Elders \cap Device, k \in Key, v \in Volunteers :
            <<k, v>> \in accepted => StatusOf(view[e], k) \in {Scheduled, Finished, Absent})

\* A device removes only requests of its own elder.
RemovesOwnOnly ==
  [][\A e \in Elders \cap Device, k \in Key :
       (pending'[e] # pending[e] /\ Len(pending'[e]) > Len(pending[e])
        /\ Exists(view[e], k) /\ ~Exists(view'[e], k))
         => issued[k].elder = e]_vars

\* A volunteer is assigned to the request the organiser had open.
AssignedWasChosen == assigned \subseteq chosen

\* The grades given to account u, whoever gave them, in the order they were saved.
GivenTo(u) == Sift(saved, {i \in DOMAIN saved : saved[i].of = u})

\* A grader who is the only one to have graded an account loses no grade: the list
\* read before each write back was up to date.  (Two graders may overwrite each
\* other's: then at least the last one's is left.)
LoneGraderLosesNothing ==
  Quiet => \A u \in Account :
             LET given == GivenTo(u)
                 grades == server[<<SafeEmail[u], "grades">>]
             IN  IF \E d \in Device : \A i \in DOMAIN given : given[i].by = d
                 THEN grades = [i \in DOMAIN given |-> given[i].grade]
                 ELSE grades # <<>> \/ given = <<>>

\* No grade on record is left out of the rating, although the rating is computed by
\* observers that were registered before the grade was written.
GradesAreRated ==
  Quiet => \A u \in Account :
             LET rating == server[<<SafeEmail[u], "rating">>]
                 grades == server[<<SafeEmail[u], "grades">>]
             IN  rating # Absent /\ rating.count >= Len(grades)
                   /\ rating.sum >= Total(grades)

\* A rating is a mean of grades that were given, however often observers add the
\* list to what they summed before: it never leaves the scale.
RatingsInScale ==
  \A u \in Account :
    LET rating == server[<<SafeEmail[u], "rating">>]
    IN  rating # Absent /\ rating # NoRating =>
          rating.count * Min(Grades) =< rating.sum /\ rating.sum =< rating.count * Max(Grades)

\* The database as a board of tasks.  A request is free while its status says so, and
\* while only the first of an assignment's two writes has arrived.
OnBoard(k) ==
  LET status == StatusOf(server, k)
      volunteer == VolunteerOf(server, k)
  IN  CASE Request(server, k) = Absent -> [stage |-> "gone"]
        [] OTHER ->
             CASE status = Active \/ (status = Registered /\ volunteer = NoUser) -> [stage |-> "free"]
               [] status = Registered -> [stage |-> "assigned", volunteer |-> volunteer]
               [] status = Scheduled  -> [stage |-> "accepted", volunteer |-> volunteer]
               [] status = Finished   -> [stage |-> "finished", volunteer |-> volunteer]

Board == INSTANCE TaskBoard WITH Task <- Key, task <- [k \in Key |-> OnBoard(k)]

\* The devices, with all their copies, stale rows and single-field updates, keep to
\* the life of a task: no stage is skipped or undone, who accepted a task keeps it.
KeepsTheBoard == Board!Spec
=============================================================================
