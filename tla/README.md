# Elderistic: a verification development

Elderistic is an iOS app in which elders file requests for help, an
organisation assigns volunteers to them, and both sides grade each other
afterwards. There is no application server: every screen reads and writes one
Firebase Realtime Database, and all the coordination there is happens through
the client library's mirror of that database. The repository holds the source
of the app and of the libraries it is built with, LevelDB among them, the
embedded database in which Firebase keeps data on disk.

This directory holds TLA+ modules for the mirror, for the screens of the three
roles on top of it, and for LevelDB's write path, background compaction,
recovery, iterators, log files and memtable; the TLC configurations that check
them on small instances; and proofs, checked by TLAPS, of what holds for any
size: that a device shows the right data and the whole app keeps it so, that a
task on record as scheduled was accepted by a volunteer it was assigned to, that
free hours and places are those the user wanted, that no table file is deleted
that is still needed, that a forced flush leaves nothing in memory and that the
files of a level never overlap, that a reader without a lock misses nothing.

Paths below are relative to `src/Workshop/Workshop/` for the app, to
`src/Workshop/Pods/FirebaseDatabase/FirebaseDatabase/Sources/` for Firebase
(`Core/...`) and to `src/Workshop/Pods/leveldb-library/` for LevelDB (`db/...`,
`table/...`, `include/...`).

- [Inventory](#inventory)
- [The modules](#the-modules)
- [The runs](#the-runs)
- [What the runs found](#what-the-runs-found)
- [The proofs](#the-proofs)
- [Abstractions](#abstractions)
- [Not modelled](#not-modelled)
- [Plan](#plan)

## Inventory

### Firebase Realtime Database: client mirror and server

*State.* The server's tree. In every client: the tree of server data it is
listening to, its write tree (`Core/FWriteTree.m`: writes made and not yet
acknowledged), the outstanding puts of its connection
(`Core/FPersistentConnection.m`).

*Operations.* `setValue`, `updateChildValues`, `removeValue` (`FRepo set`,
`update`): shown at once to the client's own observers and queued for the
server. The server processes puts in the order of a connection and pushes
changes to every listener. `ackWrite` takes a write off the write tree;
`onDataUpdate` merges server news below the writes that remain. On a lost
connection the listens are sent again and so is every outstanding put
(`restoreState`).

*Interaction.* Each screen registers observers (`childAdded`, `childChanged`,
`childRemoved`, `value`); their blocks run on the main queue.

*Hard.* Optimistic writes over late news; a put processed and not acknowledged
when the connection drops; a kill of the app, after which nothing is kept
(`Resources/AppDelegate.swift` turns no persistence on).

*Correct when* a device with nothing under way shows the server's data, shows
its own writes meanwhile, and misses no news.

### Database access

`Resources/DatabaseManager.swift`. No state. `insertActivities`, `insertGrades`,
`insertComments`, `insertFreeHours` and `deleteFreeHour` all read a list with
`observeSingleEvent` and write it back in the callback; `insertRating` leaves an
observer behind that accumulates grades; `insertUser` and `insertLocation` write
at once. *Hard:* the read and the write are two steps, and whatever happens
between them is overwritten. *Correct when* logs, grades and hours hold what was
put there, and a rating covers the grades.

### Elder screens

`Controllers/Elder/`. *State:* `myRequests` (dictionaries, with the request's
key under `"key"`), `filteredRequests`, the details screen with the fields
captured when it was opened. *Operations:* file a request from the form
(`addActivityPressed`, logs it too) or from the map (`addPressed`, checks and
logs nothing); cancel (`cancelButtonPressed`); grade the volunteer once the task
is finished. *Hard:* the rows are edited by observers while screens opened from
them hold copies; `childChanged` replaces a row by a dictionary that has no key.
*Correct when* a row with a key shows the present request, a device removes only
its own elder's requests, and a deleted request is gone.

### Volunteer task screens

`Controllers/Volunteer/VolunteerTableViewController.swift`,
`VolunteerDetailsViewController.swift`, `RateElderViewController.swift`. The
table lists the requests that name the volunteer. *Operations:* accept (one
update and a log entry), reject (two updates, then every screen is dismissed
down to the login), grade the elder, which finishes the task by a query for its
name. *Hard:* every answer is given to a captured status; status and volunteer
are two writes; search results are copies that no observer updates. *Correct
when* only a volunteer the task was given to schedules it, an acceptance stands,
an accepted task is logged, and only an accepted task is finished.

### Organiser task screens

`Controllers/Organiser/OrganiserTableViewController.swift`,
`ActivityDetailsViewController.swift`. The table lists active requests;
choosing a volunteer looks the request up by name and writes status and
volunteer. *Correct when* the request assigned is the one that was open, and
together with the other screens a task goes through its stages in order.

### Accounts, lifecycle, profile, lists, comments

- *Accounts* (`Controllers/LoginRegister/`): sign-up writes `Users/<safeEmail>`
  and keeps the role in `displayName`, which Firebase Auth takes over later;
  login chooses the screens by it. *Correct when* nobody gets a volunteer's or an
  elder's screens without having picked them, and the organisation's only by
  picking them, by picking no role or by logging in before the display name has
  arrived; the last is a defect (see *What the runs found*).
- *App lifecycle* (`Resources/AppDelegate.swift`, `SceneDelegate.swift`).
- *Profile* (`ProfileViewController.swift`, `LocationChooserViewController.swift`):
  free hours, added at the end and deleted by value, and a place pressed on the
  map and looked up asynchronously. *Correct when* the hours on record are those
  wanted, the rows shown exist, and a place is one that was pressed.
- *User lists* (`EldersViewController.swift`, `VolunteersViewController.swift`):
  `childChanged` overwrites every row. *Correct when* no row is out of date.
- *Comment screens* (`EldersCommentsViewController.swift`,
  `VolunteersCommentsViewController.swift`): each event appends the whole list.
  *Correct when* the last ones shown are those on record.
- *Table cells* (`Views/`): outlets only.

### LevelDB

*State* (`db/db_impl.h`, `db/version_set.h`). The queue of writers, the memtable
and the immutable one, the current version (which files each level holds), the
sequence numbers of snapshots, the versions that iterators hold on to, the
outputs of a running compaction, a background error; on disk the logs, the
tables and the MANIFEST.

*Operations.*

- *Writers* (`DBImpl::Write`): calls queue up, the first leads, writes a batch
  for a prefix of the queue to the log and the memtable with the mutex released,
  and returns for all of them; it switches memtables when one is full
  (`MakeRoomForWrite`).
- *Background thread* (`BackgroundCompaction`): flushes the immutable memtable to
  a table at some level, moves a file down, or merges files of two levels,
  flushing a memtable that comes up in the middle; deletes obsolete files.
- *Readers*: `Get` through memtables and levels, snapshots, iterators in both
  directions (`table/merger.cc`, `db/db_iter.cc`).
- *Recovery* (`DB::Open`): the MANIFEST, then the logs it does not rule out.
- *Log files* (`db/log_writer.cc`, `db/log_reader.cc`): records split over
  blocks, read back after a crash cut the file anywhere.
- *Memtable* (`db/skiplist.h`): one writer inserts while readers walk the links
  with no lock.

*Interaction.* One mutex; the writer and the background thread release it for
file operations, readers for everything but taking references.

*Hard.* Every interleaving of those; failed appends, syncs and MANIFEST writes; a
crash of the process or of the machine between any two steps; the order in which
stores to links become visible.

*Correct when* it is a map from keys to values with snapshots, and after a crash
each key has a value of its writes since the last synced one.

The other pods are not part of the program's own logic. `PROJECT.json` lists what
is hard to test in each component, at its line.

## The modules

```
FirebaseSync ── MCFirebaseSync               (model values)
     │     └─── FirebaseSyncProofs           (theorems)
     │ INSTANCE
     ├─ Schema ─ AppState ─ DatabaseManager ─ RequestTable ─┬─ ElderApp ─────┐
     │                                                      ├─ VolunteerApp ─┼─ Elderistic ─┬─ MCElderistic
     │                                                      └─ OrganiserApp ─┘      │       └─ ElderisticProofs (theorems)
     │                                                                              │                └─ TaskProofs (theorems)
     │                                                                              │ INSTANCE
     │                                                                          TaskBoard
     │
     └─ People ─┬─ Profile ───┐
                ├─ UserLists ─┼─ Directory ─┬─ MCDirectory
                └─ Accounts ──┘             └─ DirectoryProofs (theorems)

Lists ── ListsProofs    (lists; AppState and Directory use the first, the proofs about the app the second)

WriteBatch ── KeyValueStore                  (abstract store)
     │              │ INSTANCE
VersionSet ─ DBState ─ DBWrite ─ DBBackground ─ LevelDB ─┬─ DBIterator ─ MCLevelDB
                                                         └─ LevelDBProofs    (theorems)

LogFormat ─┬─ MCLogFormat
           └─ LogFormatProofs                (theorems; uses ListsProofs)

SkipList ─┬─ MCSkipList
          └─ SkipListProofs                  (theorems)
```

### The app

**FirebaseSync.** The database is a function from leaves to values, a write a
partial one. `server` is the tree; `view[c]` what client `c`'s observers are
shown; `pending[c]` its writes the server has not processed; `unheard[c]` those
it has processed and not acknowledged; `inbox[c]` the messages under way to it.
`LocalWrite` is `FRepo set` and `update`; `Commit` the server taking a put
and telling every listener; `Deliver` is `ackWrite` and `onDataUpdate`:
another client's news shows where no unacknowledged write of `c`'s own
(`Shadowed`) covers it; `Reconnect` is `onDisconnect` with `restoreState`;
`Restart` a kill and a start. The server's side is external: it is modelled from
the protocol the client library speaks.

**Schema.** The leaves the request screens use: heading, status and volunteer of
each request, activities, grades, comments and rating of each account; which
writes create and remove a request. `RemoveRecord(NoKey)` removes all of
`ActivityRequests`, since Firebase drops empty path segments.

**Lists** has the operators on lists that proofs about the app have to unfold:
the elements at some positions in their order, a sum, how often something is on
a list. The recursive ones are recursive functions.

**AppState.** Per device: `rows` (the request table), `found` (search results),
`screen` (the details or rating screen with the fields it captured), `calls`
(callbacks still to run) and `watches` (the observers of `insertRating`).
`Observe` is what all registered observers make of one change of the mirror:
rows appended, replaced (and stripped of their key) or removed, the grade button
hidden, rating events queued. `Emit` is a local write with its observers.

**DatabaseManager.** The handlers' reads and the callbacks that finish them:
`Insert`, `InsertRating`, `UpdateNamed` build the calls, `RunWrite`, `RunFind`,
`RunRate` and `RunDismiss` run the next one.

**RequestTable.** Pull to refresh, the search bar, going back, logging out and
in; opening a row; saving a grade, common to two roles.

**ElderApp, VolunteerApp, OrganiserApp.** One action per button and handler of
the role.

**Elderistic.** All devices together, with crashes and lost connections, and the
system's properties. `issued`, `chosen`, `assigned`, `accepted` and `saved` are
history: they are written and never guard anything, except that `issued` counts
the keys given out.

**TaskBoard.** What the three roles think they share: a board on which a task is
free, assigned, accepted, finished, in this order, may be given back before it
is accepted and taken down at any time. `Elderistic!OnBoard` maps the record of
a request to its place on the board, and `KeepsTheBoard` is the refinement:
every step of the devices and the network is a step of the board or none.

**People.** The `Users` tree and the screens about people on each device: the
profile's rows, a list of users, a screen of comments, the volunteers offered
for an activity, and what each `Observe`s of a change. **Profile**,
**UserLists** and **Accounts** have the actions of those screens; Firebase
Auth's accounts, names and pending name changes are external and modelled from
what sign-up and login do with them. **Directory** composes them on the same
mirror, with a crash at the blank row of the profile table.

### LevelDB

**WriteBatch** says what a group of calls writes; **KeyValueStore** is the
abstract store, from `include/leveldb/db.h` and `options.h`: calls that take
effect in order, snapshots that stay as they were taken, and `kept`, the values
a restart may leave of each key.

**VersionSet.** Entries, files and versions as operators: `Version::Get`,
`PickLevelForMemTableOutput`, overlapping inputs and boundary files, expanded
and manual inputs, version edits, which entries a compaction drops.

**DBState** declares the variables of `DBImpl`, `VersionSet` and the directory
and what every actor does with them (`Get`, `LogAndApply`, deleting obsolete
files). **DBWrite** is the write path: a call joins the queue, the leader makes
room, appends, syncs, applies, returns; `TEST_CompactMemTable`'s null batch.
**DBBackground** is the background thread, in the steps between which it
releases the mutex: `WriteLevel0Table` and its edit, trivial moves, the start of
a compaction, each output, the flush in its middle, the result. **LevelDB** adds
snapshots, iterators, the end of the process or of the machine at any step, and
recovery; `History` is the abstract store with `db` and `views` read off by
`Get`, so that `ServesTheStore`, `History!Spec`, says that reads never show
anything but what was written. **DBIterator** is `MergingIterator` under
`DBIter`, as operators on the children of the current version.

**LogFormat.** The bytes of a log, each known by the piece it belongs to, the
writer with its block offset, an append that stops anywhere, and the reader.

**SkipList.** `Insert` one store to a link at a time, searches one load at a
time. Memory is the sequence of the writer's stores; a load returns any store to
its link that the reader does not know to be overwritten, as the release and
acquire orders of the code allow.

In several modules a definition marked *slip* precedes the one it is a mistaken
version of. No specification uses them: they are the mutations listed in
`PROJECT.json`, each of which makes the property it is listed with fail.

## The runs

| run | instance | checks | distinct states |
|---|---|---|---|
| FirebaseSync | 2 clients, 2 leaves, 2 values, one lost connection, one restart | TypeOK, Converged, ReadYourWrites, NothingMissed, EchoesInOrder, IInv | 732 000 |
| Decisions | organiser and volunteer, 2 requests, 4 taps | TypeOK, AcceptanceStands, AcceptedIsLogged, FinishedWasAccepted, AssignedWasChosen, KeepsTheBoard | 329 000 |
| OneTask | elder, volunteer, organiser, up to 2 requests one after the other, 4 taps, fair | KeyedRowsCurrent, ActivitiesOnlyGrow, EventuallySettled, KeepsTheBoard | 407 000 |
| Faults | 2 volunteers, organiser, 1 request, 2 taps, hasty users, search, log out, one restart, one lost connection | KeyedRowsCurrent, ScheduledWasAccepted | 397 000 |
| Reviews | 2 volunteers, 3 accepted tasks of one elder, grades 2 and 5, 2 taps | LoneGraderLosesNothing, GradesAreRated, RatingsInScale | 1 080 000 |
| Directory | volunteer with 2 hours, elder, newcomer of any role or none, 2 hours, 2 places, 2 taps, one restart | TypeOK, HoursAsWanted, ShownHoursOnRecord, PlaceWasPressed, RowsAreCurrent, CommentsAreShown, OnlyEarlyLoginsStray | 1 656 000 |
| Compaction | 2 keys, 3 levels, puts, deletions and forced flushes, 3 entries, 1 snapshot, 1 failing append | ReadsAgree, NoOverlap, ForcedIsFlushed, ServesTheStore | 777 000 |
| Durability | 2 keys, puts synced or not, 2 calls at a time, 3 entries, 1 failing file operation, manual compaction, 1 iterator, 1 restart | TypeOK, FilesOnDisk, ServesTheStore | 835 000 |
| LogFormat | blocks of 5 bytes, headers of 2, 4 records of 0 to 7 bytes, 2 failing appends | TypeOK, CutsReadBack, NothingForged | 669 000 |
| SkipList | 3 keys, 3 levels, one reader | LinksAreSet, NothingSkipped | 1 302 000 |

*FirebaseSync* asks whether the mirror is sound by itself. Two clients are a
writer and a reader of a leaf, in both roles at once; the second does not listen
to the second leaf, so writes that are partly visible occur. One unsent write
and two messages per client let an echo, a foreign write and a further local
write overlap, which is what `Shadowed` is about. The theorems hold for any
bounds.

*Decisions* follows the life of a request: assigned, accepted or rejected,
assigned again, finished. Four taps are enough for assign, accept, grade and a
stale second answer, or for assign, reject, assign, accept. Two requests are
needed for an answer to fall on the wrong one. Its users are careful: they tap
again once the app has come to rest (`Hasty = FALSE`), but the network is not:
messages may still be under way.

*OneTask* adds the elder, who files a request in either way and may cancel it,
file it again or grade at any time, so that an assignment may look for a name
that has just gone and wait for the next request of it. It checks liveness,
under fairness of the app and the network only: `EventuallySettled` says that
everything a tap started ends, and that an acceptance then shows on the elder's
device unless the request was withdrawn. Four taps cover file, assign, accept,
and one of cancel, reject or grade.

*Faults* lets users tap on without waiting, kills an app between a tap and its
callbacks, loses a connection between a write and its acknowledgement, and has a
volunteer act on search results and log out and in. What survives all of it is
`KeyedRowsCurrent` and `ScheduledWasAccepted`.

*Reviews* has two devices grade one account at once. The list of grades is read
and written back, so one of two simultaneous grades may be lost;
`LoneGraderLosesNothing` says that nothing else is. The rating is accumulated by
observers that are told the whole list again with every change: it is not the
mean of the grades, but it leaves out none on record and never leaves the scale.

*Directory* covers the screens about people while a newcomer signs up beside a
volunteer and an elder, picking any role or none, logs in before or after the
display name is set, and comments or looks at the lists. Two taps on the profile
are an addition and a deletion, two deletions, or two presses on the map whose
look-ups overtake each other. The lists have a second row once the newcomer is a
volunteer or an elder too: a change of one user then puts that user in both
rows, and `RowsAreCurrent` says that each row is a present record all the same.
With three users, such lists are open on the newcomer's own device, after an
early login to the organisation's screens; that somebody else joins while a list
is open, with any number of users, is left to the theorem `RowsStayCurrent`.
`OnlyEarlyLoginsStray` relates the screens a device goes to with the role its
user picked and with the request for the display name that is still under way.

*Compaction* explores one call at a time, but every schedule of the background
thread: three entries make a key that is put, deleted and put again, or two keys
of which one is deleted, over three levels; a memtable may be switched at any
moment (`MaxMemCompactLevel` 2, so it may go to any level), an output may end
behind any entry, and a snapshot may be taken anywhere. `ReadsAgree` walks an
iterator forward, backward and with every turn over each state, and compares it
with `Get`, which searches level by level.

*Durability* lets two calls queue up, synced or not, has one operation on a log,
a table or the MANIFEST fail, ends the process or the machine at any step and
recovers. Both refine the abstract store. `MaxFile` and `MaxForced` stop new
compactions and forced flushes at a file number; both leave room for flushes and
compactions at each level. Three entries do not fill level 0 so far that a call
has to wait for it (`L0Stop`): that wait is modelled and not exercised.

*LogFormat* has records that fill a block exactly, leave less than a header at
its end, and span three blocks; `CutsReadBack` cuts the file at every byte.

*SkipList* lets three keys be inserted in any order and at any heights beside a
reader that seeks and steps in both directions; its loads may return stale links
and stale or too new heights.

**Bounds.** In the app `MaxRequests` keys, `MaxTaps` taps that write,
`MaxPending` unsent writes per device, `MaxInbox` messages under way,
`MaxReconnects` and `MaxRestarts`; `MaxPending` and `MaxInbox` delay a step, they
lose nothing. In LevelDB `MaxQueue` calls at a time, `MaxSeq` entries, `MaxFile`
and `MaxForced` file numbers, `MaxSnaps`, `MaxIters`, `MaxFaults`, `MaxStarts`;
in the log `MaxRecords` and `MaxFails`.

**Deadlock** is not checked: users and callers may stop at any time, and each
bound ends the behaviours that reach it. What a deadlock would mean in the app, a
callback or message left undone, is `EventuallySettled`.

**Fairness** (`FairSpec`): while a callback can run, a write be sent or a message
be received on some device, one of these happens. All three are dispatch queues
that drain by themselves; nothing is assumed of which device goes first. No user
is obliged to tap anything, and no connection is ever obliged to break. Liveness
of LevelDB is not checked: the bounds stop its background thread where the code
would go on.

## What the runs found

Two runs check one property each and find it violated; each is a short story
about real lines.

| run | property | the story |
|---|---|---|
| CancelBlank | RemovesOwnOnly | A changed row lost its key; the blank screen it opens shows Cancel, and cancelling with the empty key removes everyone's requests (`ElderDetailsViewController.swift:125`). `README.md:9` of the repository says an elder can view, edit and delete "your requests". |
| TornLog | SurvivesCrash | An append to the log fails half-way; unlike a failed sync it sets no background error, later calls write on behind the torn record and succeed, and recovery drops the rest of that block (`db/db_impl.cc:1215`). `include/leveldb/options.h:174` says that no writes are lost when only the process crashes. |

Modelling showed further behaviours that the passing runs work around. The model
has them all; the properties and instances say where they do not occur.

- *Rejecting and assigning are two writes each*
  (`VolunteerDetailsViewController.swift:102`, `ActivityDetailsViewController.swift:80`);
  interleaved they leave a registered task without a volunteer. The board calls
  that free, as no volunteer's table shows it.
- *A resent put undoes a later write of another device*
  (`Core/FPersistentConnection.m:1148`): an assignment sent again after a lost
  acknowledgement undoes the acceptance. `AcceptanceStands` and `KeepsTheBoard`
  are checked where connections are kept.
- *Search results are copies*: with one, a volunteer may reject what was accepted.
  *Decisions* has no search, *Faults* has.
- *An update that arrives after a deletion* creates a record with a status or a
  volunteer only. The board takes a task for gone with its heading.
- *Requests are found by name*: of two requests on record with one name, the
  older is assigned and finished. Only *CancelBlank* has such requests.
- *An early login gives the organisation's screens* to a volunteer or an elder:
  the role is kept in the display name, which is set after the account exists
  (`SignUpViewController.swift:60`), and login takes a user without one for an
  organisation, although `README.md:8` of the repository lets only an
  organisation match volunteers with tasks. `OnlyEarlyLoginsStray` says when it
  happens, and that nobody strays in another way.
- *Two graders at once* lose one of the grades (`DatabaseManager.swift:74`).
- *Swiping the blank row* of the profile away crashes the app, and so does
  searching for a one-word name in the organiser's list of users.
- *A null batch may be swallowed*: `TEST_CompactMemTable`, which forces a flush by
  an empty call, may find it made part of another call's batch
  (`db/db_impl.cc:1287`), and nothing is flushed. `ForcedIsFlushed` is checked
  for one call at a time.
- *A flush is tried again within a compaction* even after its MANIFEST record
  could not be synced (`db/db_impl.cc:912`), so that a recovery may find its
  memtable in two tables of one level. `NoOverlap` is checked without failing
  MANIFEST writes; `ServesTheStore` and `FilesOnDisk` hold with them.
- *A flush may go into a gap of a range compaction.* `DB::CompactRange` takes all
  files of level 0 that its range touches, which may leave keys between them
  that are in none. A memtable with such a key that is switched meanwhile and
  flushed in the middle of the compaction overlaps no file, so
  `PickLevelForMemTableOutput` (`db/version_set.cc:491`) may send it to the level
  that the outputs go to, and the two overlap there, against
  `db/version_set.cc:724`. It takes three keys: files with the first and the last, a
  memtable with the one between. TLC shows it for `NumLevels` 3,
  `MaxMemCompactLevel` 1, four puts of three keys, `Manual` and one restart, whose
  recovery leaves the files on level 0. A read binary-searches a level that is no longer
  sorted; the model's `Opened`, which takes the first file that does not end
  before the key, is what the search finds in a sorted level. So `NoOverlap` is
  checked without `Manual`, and `ServesTheStore` with it for two keys, between
  which there is none.

## The proofs

### FirebaseSyncProofs

For any sets of clients, leaves and values, any initial tree, any assignment of
observers and any bounds:

- `MirrorInvariant`: `Spec => []IInv`
- `TypeCorrect`: `Spec => []TypeOK`
- `MirrorConverges`: `Spec => []Converged`
- `OwnWritesShow`: `Spec => []ReadYourWrites`
- `NewsIsCurrent`: `Spec => []NothingMissed`

The assumptions are those `FirebaseSync` names: the initial tree is a tree,
clients listen to leaves, bounds are naturals.

*The argument.* `Converged` is not inductive: it says nothing of a device that
has something under way, so nothing is known when the last message arrives.
`IInv` says, leaf by leaf, what a device shows in each case:

1. `ReadYourWrites`: with writes unsent that touch the leaf, the last of them;
   else, with echoes of its own writes on the way, the last of those.
2. `NothingMissed`: the last message on its way that touches the leaf, whoever
   wrote it, carries the server's value.
3. `LeafUpToDate`: with nothing unsent and nothing coming for the leaf, the
   server's value.
4. `Unobserved`: leaves not listened to show nothing.

`Commit` makes the write the last news everywhere (2) and turns the last unsent
write into the last echo (1). `Deliver` of the last message of a leaf is the
interesting step to 3: if it is news, (2) says it carries the server's value; if
it is an echo, (1) says the value is shown already. `Reconnect` and `Restart`
start afresh from a replay (`FreshKeeps`); the replay of a list of writes shows
the last that touches each leaf (`ReplayLast`). The lemmas about positions in a
sequence (`AtAppend`, `AtTail`) say where the last element of a kind is after
appending or removing one. Where a non-empty set of positions must have a latest
one, the well-foundedness of `<` on the naturals supplies it (`LatestExists`).

`EchoesAreOrdered`, `Spec => []EchoesInOrder`, says the acknowledgements on the
way to a device are those of its unacknowledged writes, one for each, in order:
a reconnect throws the echoes away and puts the writes back in front of the
queue, so the two lists always change together. The sublist of echoes is that of
`SelectSeq`, whose effect on the first and the last element the library's
theorems give (`PutsAppend`, `PutsFirst`).

Three families of lemmas are for the modules that use the mirror.
`HoldsOnly(V)`: if every write puts on leaf `l` a value of `V[l]`, the server,
the views and all that is under way hold only such values. `SentOnly(W)`: what
a client has under way, and the news of others on its way to it, are among the
writes `W[c]` of their authors. `DeliverShows`: what a received message changes
of a view, it changes to the message's values. Replays are opened at both
ends by `ReplayHead` and `ReplayAppend`.

`OwnShownStep` is about a leaf that one client alone writes. Replaying what it has
unacknowledged on the server's data gives what the client shows, whatever was lost
and sent again, and replaying what is processed already changes nothing; so no
step but its own writes and a restart changes what it shows (`OwnViewStep`).

### ListsProofs

Lemmas about the operators of `Lists`: `Sift` keeps types, is the list itself
for all positions, and follows appending and removing the first element;
`Total` is between the least and the greatest grade times the length; `Copies`
adds up over a concatenation and goes down by one where an element is removed.
What a recursive function computes is shown by taking the least position at
which a claim fails (`LeastNat`, `UpTo`), which needs no induction principle.

### ElderisticProofs

For any elders, volunteers, organisers, names, grades, requests on record at the
start and bounds, with hasty or careful users, restarts and lost connections:

- `MirrorsAreUsedAsSpecified`: `Spec => Sync!Spec`, the refinement of the mirror
- `DevicesConverge`: `Spec => []Sync!Converged`
- `ScheduledOnlyByAcceptance`: `Spec => []ScheduledWasAccepted`
- `KeyedRowsStayCurrent`: `Spec => []KeyedRowsCurrent`
- `RatingsStayInScale`: `Spec => []RatingsInScale`
- `TypesHold`: `Spec => []TypeOK`

from the assumptions of `Schema` and `AppState` (keys are numbers, the requests
on record at the start have types, bounds are naturals).

*The argument.* None of these says enough of what is still under way: a status
that is now in the queue of a volunteer's device will be on record later, and so
will one that a screen, a callback or a resent put carries. `AppInv`, the
inductive invariant, says where each value comes from.

1. `Allowed(accepted, assigned)` names for each leaf the values the history
   explains: a status `Scheduled` of a key only if somebody accepted it, a
   volunteer only if assigned or if taken from the record, a rating only in
   scale. `MirrorInv` says that the mirror's invariant holds and that the
   database, the views and all queues hold only such values (`HoldsOnly`).
2. `LocalAt(d)` says the same of what device `d` derives from its view: rows,
   search results, the captured fields of its screen, the callbacks and their
   writes, the observers of `insertRating`.
3. As history only grows, what was explained stays explained (`KnownGrows`,
   `CallsStay`): this is why a stale screen or a resent put does no harm.
4. `KeyedIn(rows[d], view[d])`: rows with a key agree with the view. Every change
   of the view is a local write or a received message, and for both `RowsStep`
   says what `Observe` makes of the rows.

A step of a device is a local write of the mirror, a message or none
(`StepKeeps`, `ObserveStep`, `EmitStep`), so each action has one lemma that says
that its writes are explained (`AcceptKeeps`, `RunFindKeeps`, ...) and at the
same time which step of `FirebaseSync` it is (`SyncStep`), from which the
refinement follows. The interesting ones are `AcceptKeeps`, where history and
the status change together, `RunRateKeeps`, where an accumulated rating grows by
a list whose total `TotalBounds` limits, and `RestartKeeps`, where the rows
are read anew. TLC checked `AppInv` on the instances of *OneTask*,
*Faults*, *Reviews* and *CancelBlank* before it was proved.

### TaskProofs

*Requests found by their names.* For the same constants, under `ToldApart(Past)`, which says that no two requests
were ever filed under one name, and none under the empty one:

- `AssignedAsChosen`: `Spec => [](ToldApart(Past) => AssignedWasChosen)`
- `FinishedAfterAccepting`: `Spec => [](ToldApart(Past) => FinishedWasAccepted)`

`updateVolunteer` and `updateActivityStatus` find the request by its name, in the
view a device has when the lookup runs. An organiser who has a request open
while its elder withdraws it and files another of that name assigns the other;
TLC finds this as soon as elders may do so, hence the premise. It is about what
elders type, and says nothing of the order in which things happen: restarts, lost
connections, hasty users and stale screens are all allowed.

*The argument.* `TaskInv`, on top of `AppInv`:

1. `Later(AtStart, Past)`: history grows from what was on record at the start.
2. `HoldsOnly(Right(Past))`: wherever the database, a view or a queue holds a
   heading, it is that of the request as filed under that key; a status
   `Scheduled`, and under the premise `Finished`, is one of a request somebody accepted.
   So a view may lack a request but never mistakes one for another.
3. `LocalFits(d, Past)`: the same for rows and screens; a lookup that waits in
   `calls[d]` carries the name of a request that was chosen for the volunteer, or
   accepted (`Means`).
4. Under the premise `assigned` is part of `chosen`.

`NamedIsMeant` is what the premise gives: the request a lookup finds by name, in
whatever view it runs, is the request that was meant. A completion is explained
by the screen it comes from: `RateElderViewController` is only reached from a
task shown as `Scheduled`. `Writing` lifts the mirror's lemmas to a set of values
that, unlike that of `ElderisticProofs`, depends on the names, and each action
then has one lemma again.

TLC checked the parts of `TaskInv` with hasty users, a search and a reconnection, with a
restart and an elder who cancels, and with four taps: 1 700 000 to 2 700 000
states each.

*Lists written back whole.* The app extends an activity log or the grades of an account by reading the list
from its mirror and, in a later callback, writing all of it back with one more
entry. For the same constants, with careful users (`Hasty = FALSE`) and
`PathsApart`, which says that no two accounts have the same safe address:

- `AcceptancesAreLogged`: `Spec => [](restarts = 0 => AcceptedIsLogged)`
- `LoneGradersLoseNothing`: `Spec => [](restarts = 0 => LoneGraderLosesNothing)`
- `LogsOnlyGrow`, if `MaxReconnects = 0`: `Spec => ActivitiesOnlyGrow`

The first two are about the state after any number of lost connections; a restart
loses the entries that were not sent yet, and is left out. The third allows
restarts, and not lost connections: a device that sends two processed writes
again makes the log shorter until the second arrives. Hasty users are left out
of all three, as a second entry read before the first is written overwrites it; and `safeEmail`
maps both "." and "@" to "-", so two addresses may share one record.

*The argument.* `StepShapes` says what a step of the app can do to the lists
(`Shape`): leave them alone, plan an entry when none is planned, make the planned
entry, or start the app again. `PeersFollowed` adds that a screen
grades only an account its device follows, so that the list it extends is in its mirror.
`LogInv` is then, on top of `AppInv` and `TaskInv`:

1. `WritersInv`: what a device has planned, or under way, touches only its own log
   and the grades of accounts it has graded, and empties none of them (`Own`).
2. `LedgerInv`: for a list that one device alone writes (`Sole`), there is a list `y`
   such that the device shows `y`, or is about to write `y`, which is what it shows
   and one entry more (`Ledger`); the mirror's `OwnShown` holds; and, in the first run,
   `y` names every task accepted and is the list of grades given (`Records`).
3. `Untouched`, `Offline`: a list nobody may write is as at the start, and who has no
   device accepts nothing.
4. `Tracked`: of an account somebody graded a grade is on record or on its way, even
   when several graders overwrite each other's.

The claim about `y` is what makes this inductive: a log is never compared
with the server's while something is under way, only with what its
writer has entered. When all is quiet the device shows `y` and `Converged`
says the server holds it. For `LogsOnlyGrow`, `ChainsInv` adds that each write of a log
on its way extends what replaying those before it on the server's data gives.

### DirectoryProofs

For any users with any roles, hours, places and bounds:

- `HoursStayAsWanted`: `Spec => []HoursAsWanted`
- `ShownHoursStayOnRecord`: `Spec => []ShownHoursOnRecord`
- `PlacesWerePressed`: `Spec => []PlaceWasPressed`
- `RowsStayCurrent`: `Spec => []RowsAreCurrent`
- `CommentsStayShown`: `Spec => []CommentsAreShown`
- `StrayingNeedsAnEarlyLogin`: `Spec => OnlyEarlyLoginsStray`
- `TypesHold`: `Spec => []TypeOK`
- `MirrorsAreUsedAsSpecified`: `Spec => Sync!Spec`

from `PeopleAssumption` and `LimitAssumption` of `People`: among them that the
users are finitely many, as lists of them are counted, and that no role is the
value of an empty leaf.

*The argument.* `DirInv` is the mirror's invariant with `HoldsOnly` and
`SentOnly`, and for each device six parts.

1. *Only the owner writes a record*, comments apart (`Issued`): so a message from
   elsewhere changes nothing the device shows of its own hours, place and role,
   and one of its own only what is shown already (`ViewKeeps`, `Heard`).
2. `HoursAt`: among the callbacks a device has still to run only the next one
   writes free hours, and by one addition or one removal (`OneTap`). Every row is
   on record, counting copies, both before that callback and after it
   (`HoursFit`); what the user wants is on record after it. A tap while that
   callback is outstanding would read a list about to be overwritten; users of
   `Profile` wait for the callbacks of a tap, which is an assumption of the
   model, and look-ups, which come in between, write other leaves. Removing row 0 whichever hour was deleted is the step that the
   second half is for: `RowsFollow` says what the observers make of the rows in
   each case, and `CopiesRemoveAt` counts.
3. `PlaceAt`: the callbacks replayed on the view leave both coordinates at one
   place. `Geocoded` appends the two writes of one place at a time
   (`PlaceAppend`), and a callback that runs moves one of them from the queue to
   the view (`ReplayHead`).
4. `ListAt`: a list has a row for each user of its role, and each row is a
   present record. `ListsHear` follows a change of a record through
   `childAdded`, `childChanged` and `childRemoved`.
5. `CommentsAt`: the comments on record are a suffix of those shown.
6. `AccountAt` and `RecordAt`: what a newcomer picked, what `displayName` is, and
   that the record shows the role once there is one. A member's name is the role
   picked or the request for it is still under way; so a login to screens of
   another role finds no name yet, and goes to the organisation's (`PageSteps`).

TLC checked `DirInv` on the instance of *Directory*, sequences element by element:
1 656 000 states.

### LevelDBProofs

For any keys, numbers of levels, bounds and kinds of faults:

- `StorageInvariant`: `Spec => []IInv`
- `NoFileIsMissed`: `Spec => []FilesOnDisk`
- `StateIsTyped`: `Spec => []TypeOK`
- `ForcedFlushes`: `ASSUME MaxQueue = 1 PROVE Spec => []ForcedIsFlushed`

from the assumptions of `VersionSet`, `DBState`, `DBWrite`, `DBBackground` and
`LevelDB` (there is a level, there is a key and keys are in an order, faults are
of the kinds named, bounds are naturals).

*Files.* Obsolete files are deleted after every flush and every
compaction: all that are in no version somebody holds and not pending.
`FilesOnDisk` alone does not survive that. `IInv` adds four parts.

1. `ManifestIsCurrent`: without a background error every MANIFEST that recovery
   may read ends in the current version. This is why a deletion, which runs only
   without one, spares what recovery needs (`DeletionSpares`); when a MANIFEST
   write fails, the error comes with it and nothing is deleted any more
   (`FailedOnDisk`).
2. `OutputsPending`: the outputs of a running compaction, in no version yet, are
   pending. A flush in the middle of the compaction deletes files, and only this
   protects them.
3. `OneAtATime`: at most one compaction and one flush.
4. `ClosedIsIdle`: a closed database holds nothing in memory, so a restart
   starts from what is on disk.

`EditedFiles` says that a version edit adds no file but its own; with it each
step of the background thread comes down to `AppliedOnDisk` or `FailedOnDisk`.

*Types.* Part of `TypeOK` is a safety property: the log being written
exists, whatever `DeleteObsoleteFiles` removes meanwhile. `TypeInv` is `IInv` and
the types with three parts more.

1. `LogOrder`: `log_number_`, below which logs are deleted, is never past the log
   being written, which is older than the next file number. This is what spares
   that log.
2. `LogsBounded`: log numbers and the sequence numbers in the logs have a bound.
   So the logs are finitely many, recovery can number them, and each has a
   highest sequence number; without that nothing is known of what `RecoverLogs`
   returns, which chooses both. That sets of numbers have least and greatest elements
   (`LeastNumber`, `GreatestNumber`) and finite ones an i-th (`RankedBy`) comes
   from the order of the naturals being well founded.
3. A group is a prefix of the queue (`WriteTyped`), so the calls it returns for
   exist.

`RecoverLogs` is a recursive function: `RecoveredExists` shows that there is one
with its equation, `RecoverUnfolds` gives the equation, and `RecoverType` follows
it log by log (`BehindType`). For the other steps `ReturnTyped`, `SwitchTypes`,
`LogsAppend`, `LogsShrink`, `EditTypes` and `BackgroundTypes` say what the parts
that several actions share do.

*Forced flushes.* `ForcedInv` relates a forced flush to what is in memory at each stage: the mark of
one that leads the queue is the last sequence number (`MarkIsLast`); what is in
`mem_` is younger than each one that waits (`MarksHold`), as it left a new memtable
behind; everything in memory is younger than each one that returned
(`ForcedHolds`). With more calls at a time the theorem would be false, as *What
the runs found* tells.

TLC checked `ForcedInv` and `LogOrder` on *Compaction*, and with a restart.

*No two files of a level overlap:*

- `LevelsNeverOverlap`: `ASSUME Manual = FALSE, "manifest" \notin Faults
  PROVE Spec => []NoOverlap`

for any keys, levels and bounds, any crashes, and failures of every other file
operation. Both conditions are needed: *What the runs found* tells how the retry
after a MANIFEST record that failed, and a range compacted by hand, each break
it. So the theorem is about the compactions LevelDB picks by itself.

*The argument.* While a compaction runs, its inputs are still in the version and its
outputs are in none. A flush in the middle of it chooses a level by looking at
that version, in which a gap between two inputs looks free, although an output
may come to cover it. `Placed` says that this goes well:

1. `CurrentFits` and `RecordsFit`: the files of each level above 0 are apart, in
   the version and in every MANIFEST record that a crash may leave.
2. `FlushFits`: a flush under way to a level above 0 overlaps no file of the
   levels from 0 to that one.
3. `CompFits`: what a running compaction took is still in the version and has no
   gap (`NoGap`: a range of keys that touches none of the files is on one side
   of all of them); the other files of the next level lie beside all of it; the outputs are in order, apart, and before
   the entries still to be written.

That there is no gap is a fact about how inputs are chosen. `GetOverlappingInputs`
searches level 0 again whenever a file it takes is longer than the range so far,
so the files it returns reach each other (`OverlappingHasNoGap`); on a level
above, and where `AddBoundaryInputs` adds the file in which the versions of a user key
go on, each file that is added touches one that is there
(`WithBoundaryHasNoGap`, `InputsHaveNoGap`, `AutoInputsFit`). The files that a range given
by hand touches need not reach each other, and there the proof would stop. With 1 to 3, an edit that takes the inputs off and adds the outputs, or the
flushed table, keeps a level in order (`EditKeepsOrder`); the table a flush wrote for a
level above 0 cannot lie between two inputs, as one of them would cover it
(`GapIsBeside`), so it is beside the outputs too.

That memtables and logs are finite (`MemFinite`, `LogsFinite`) is part of the
invariant, as a file's range is that of its first and last entry.

TLC checked `Placed` on 3 keys, 3 levels, 4 entries, a restart and failing
tables: 1 200 000 states.

### SkipListProofs

For any keys, any maximal height and any set of readers:

- `LinksInvariant`: `Spec => []LinksInv`
- `LinksSet`: `Spec => []LinksAreSet`
- `OrderInvariant`: `Spec => []OrderInv`
- `ReadsSkipNothing`: `Spec => []NothingSkipped`

*The argument.* `LinksInv` is about the writer's stores and what readers know of
them: a node's own links are its first stores (`OwnLinkIsFirst`); when a link
points at a node, the node's links are set on that level and below
(`TargetsAreSet`, `LowerIsSet`); and a reader stands on a node only if it knows
of a store that published it there (`ReadersReach`). A load of a released link
raises what the reader knows to that store, which is behind the node's own.

`OrderInv` adds that each link passes over no key that was linked before it
was stored (`LinksAreTight`), and that a reader's search is behind its target.
The step that matters is a load from a node before the target: `LoadIsTight` says that it
passes over no key the reader knew. If it did, take of the keys it passed over
the one that was linked first. It was linked after the store that was loaded, or
`LinksAreTight` is contradicted. The node it was linked behind is not the one
the load started from, whose link would then have had a newer store that the
reader knows; nor is it before that one, which was in the list by then
(`LinkedAtOnce`, `PrevIsLast`). So it lies in the same gap and was linked
earlier still, which contradicts the choice. The least and greatest elements
such arguments take come from `LeastExists` and `GreatestExists`.

### LogFormatProofs

For any sizes of blocks, headers and records, and any bounds:

- `LogTypeCorrect`: `Spec => []TypeOK`
- `CutLogsReadBack`: `Spec => []CutsReadBack`
- `NothingIsForged`: `Spec => []NothingForged`

from `LogAssumption`: a header has bytes, and is shorter than a block.

The writer and the reader are loops. The model has each as a recursive function
of the number of turns (`Turns`, `Reading`), and the proofs follow them turn by turn
(`TurnsUnfold`, `ReadingUnfold`, and `UpTo` of `ListsProofs`); that `MaxTurns`
are enough is `TurnsEnd`.

*As long as no append fails.* `Told(f, m, W)` says what it is for a reader to get
through a file: each of its first `m` turns finds a piece, there is nothing to
report, it is at the end of `f` then, and it has got the data of `W`, each record
at the turn that ends where `W` says it does. `LogInv` says so of the log, and
that the writer knows where in its block the file ends (`Aligned`). A turn of
the writer appends the piece that the reader looks for there, behind the trailer
that it skips (`TurnWrites`), and the reader, a turn later, has that piece too
(`ToldPiece`, `ToldRecord`); in between, what the reader has begun of the record
and what the writer has left of it are the whole (`Begun`).

For a file cut at `c`, take the last turn that ends at or before `c`. Up to there
the reader has seen the same bytes (`ReadsAlike`). The next piece is cut: it is
missing, or its header is, or it announces more than there is, which at the end
of a file is taken for the end and not for damage (`PhysicalCut`). So what it
has got is what was complete.

*When appends fail* the writer's offset may be wrong from then on, and pieces may
cross the end of a block, where the reader skips to, into the middle of a piece.
`LaidOut(f, E, W)` says what such a file is, whatever its blocks: chunks `E`, one
behind another, with zeros between them. A chunk is a beginning of a piece; if
it does not begin a record it follows a chunk that is whole, of the same record,
and if it ends one, what its record adds up to is a record of `W`, and not one
that an earlier chunk ended. `LogInv` says that the log is laid out so, and that the
records from before the first failure are read as they were (`Saved`).

1. `TurnLays`: a turn of the writer adds zeros and a chunk, and a turn that stops
   short, zeros or a torn chunk, behind which the next call begins a record.
2. `PhysicalKinds`: where the reader finds a piece, a chunk begins that is
   whole. That is what the checksum is for: a byte is the first of a piece only
   where a chunk begins, and a torn chunk is not continued by the next.
3. `Gathered`: what the reader has begun is what the chunk it stands behind adds
   up to, and it has returned the records of chunks further and further on
   (`ReadGathers`). Between the chunk it stands behind and the next it finds
   there is less than a header. If the next goes on with a record, the chunk
   before it is whole; so that is the one the reader stands behind
   (`GoesOnNext`), and pieces of different records are never joined.

This is why it matters that a bad piece makes the reader forget what it has begun:
then it stands behind no chunk.

TLC checked the three properties on the instance of *LogFormat*: 669 000 states.

### Checked by TLC only

- *Of `Elderistic`*: `AcceptanceStands`, `GradesAreRated` and the refinement
  `KeepsTheBoard`. They hold of the instances they are checked on
  (careful users, no lost connection, no elder who files meanwhile) and not of
  every behaviour of `Spec`: *What the runs found* tells how they fail without.
- *Of LevelDB*: the refinement `ServesTheStore`.
- *`DBIterator`*, whose walk is a RECURSIVE operator, about which the prover can
  say nothing.
- *Liveness*, which the prover does not handle under fairness.

## Abstractions

### The app

- *Observers run with the change that triggers them.* The library queues events
  for the main queue in order, and a screen cannot be tapped between the events
  of one change; the model lets the change and its events happen in one step.
  One-shot reads run their blocks later, as steps of their own.
- *The updates of one block are steps of their own*, in order: the library has its
  own queue, which may take in news between them, and a kill may fall there. A
  hasty user (`Hasty`) may also tap there, which the main queue would not allow.
- *A one-shot read captures its value when it is registered.* The data it reads
  is mirrored on the device (the model's `Listens`), so the event is built from
  the mirror at once and delivered through the main queue.
- *Rows of requests are a set.* Each `fetchData` registers its observers again,
  and repeated observers add, replace or remove the same row repeatedly; the set
  holds each row once. The rows about people are sequences, as their properties
  count them.
- *Keys are numbers.* `childByAutoId` keys sort by creation time; a query by
  name reports the smallest.
- *Texts, dates, hours and places* are folded into the heading of a request.
- *Any volunteer may be offered* on the organiser's screen in `OrganiserApp`;
  who is offered for an hour is `OpenActivity` of `UserLists`.
- *Names of requests are told apart* unless `ReuseNames`: an elder files no
  second request of a name that is still in the table. *Directory* has addresses
  whose safe forms differ.
- *One user per device*, who may log out and in again.
- *Rules permit every write.* The database's security rules are not in the
  repository.
- *A restart is atomic*: the app is seen again when its observers have been
  answered. *A reconnect is atomic*: the client's listens are answered before it
  sends the outstanding puts, as `restoreState` orders them.

### LevelDB

- *Sizes are left out*: where the code compares bytes with a limit (a full
  memtable, a full output file, a level over its budget, grandparent overlap),
  both outcomes are offered. Any file may be picked for compaction, by size, by
  seeks or by hand.
- *A value is known by the sequence number of its put.*
- *In `LevelDB` a log fills one block*, so a torn record takes all that follows
  in its log; blocks are `LogFormat`.
- *A MANIFEST record is written and synced in one step.* When that fails it may
  be there or not, so `manifest` is a set. `LogAndApply` releases the mutex
  meanwhile; as it is called by one thread at a time and publishes the version
  at the end, the model has one step. A MANIFEST so torn that recovery refuses
  to open is left out.
- *Recovery is atomic* and runs with no fault; `reuse_logs` and
  `paranoid_checks` are off, as by default.
- *No checksum fits by accident* (`LogFormat`).
- *Memory in `SkipList`* is what one writer's stores can look like to a reader
  under release and acquire; the height a reader reads may be any the list has
  or had. Equal keys are never inserted and nodes never freed, as the header
  requires.

## Not modelled

*The organiser's search bar* in the lists of users, which copies rows as that of
the request tables does. *Validation and alerts*, layout, localisation, the map
view, table cells. *Firebase*: transactions, priorities, `onDisconnect` writes
(the app uses none), authentication of the connection, permission errors,
removal of listeners. *LevelDB*: the layout of blocks and tables, filters,
compression, the caches, `env_posix`, repair and `DestroyDB`. The other pods are
third-party libraries the app does not call itself.

## Plan

The mirror and the screens on it came first, as everything in the app goes
through them; LevelDB next, as the part of the repository with the most hidden
interleavings. What would follow, in this order:

1. **TableCache and LRUCache** (`util/cache.cc`): reference counts and eviction
   while iterators hold entries; then blocks and tables as data, with an
   iterator over an index.
2. **env_posix**: the background queue and the limiter of open files.
3. **Proofs**: `AcceptanceStands` and `GradesAreRated`, which need careful users
   and kept connections; then the walk of `DBIterator` as a recursive function.
4. **The organiser's search bar**, with the rows that `childChanged` overwrites.
