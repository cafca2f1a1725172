------------------------------ MODULE DBState -------------------------------
(***************************************************************************)
(* The state of an open LevelDB database (DBImpl and VersionSet,           *)
(* leveldb-library/db), that of its directory, and what both the writers   *)
(* and the background thread do to them.                                   *)
(*                                                                         *)
(* The directory survives a crash: the log files, each with the records    *)
(* appended to it and how many of them are synced, the table files, and    *)
(* what recovery may read in the MANIFEST that CURRENT names.  A MANIFEST  *)
(* record is written and synced in one step; when that fails it may be     *)
(* there or not, so manifest is a set.                                     *)
(***************************************************************************)
EXTENDS VersionSet, WriteBatch

CONSTANTS Keys, Faults, MaxFaults   \* Faults: which of the operations on files may fail

ASSUME KeyAssumption == Keys \subseteq Int /\ Keys # {}   \* keys in their order
ASSUME FaultAssumption == /\ Faults \subseteq {"newlog", "append", "sync", "table", "manifest"}
                          /\ MaxFaults \in Nat

VARIABLES queue,      \* writers_: the calls that have not returned, the leader first
          stage,      \* what the leader is doing with the mutex released
          group,      \* how many calls its batch holds
          mem, imm,   \* mem_ and imm_, a sequence of at most one
          logNumber,  \* logfile_number_
          nextFile,   \* next_file_number_
          lastSeq,    \* last_sequence_
          current,    \* the current version
          minLog,     \* log_number_: the logs before it are in tables
          pending,    \* pending_outputs_, those of the running compaction
          flush,      \* CompactMemTable between its table and its version edit
          comp,       \* the running compaction
          bgError,    \* bg_error_ is set
          snaps,      \* the sequence numbers of snapshots_
          iters,      \* the versions that open iterators hold on to
          forcing,    \* TEST_CompactMemTable waiting for imm_ to go
          forced,     \* and up to where those that returned flushed
          open,
          logs, tables, manifest,   \* the directory
          limbo, kept,              \* see KeyValueStore
          faults, starts            \* how many so far

writeVars == <<queue, stage, group, mem, lastSeq, limbo, kept>>
backVars == <<current, minLog, pending, flush, comp, tables, manifest>>
readVars == <<snaps, iters>>
forceVars == <<forcing, forced>>
vars == <<writeVars, backVars, readVars, forceVars, imm, logNumber, nextFile, bgError, open,
          logs, faults, starts>>

Entry == [key : Keys, seq : Nat, del : BOOLEAN]
File == [num : Nat, data : SUBSET Entry]
Version == [Levels -> SUBSET File]
Call == [op : {"put", "del", "flush"}, key : Keys, sync : BOOLEAN, mark : Nat]
Log == [recs : Seq(SUBSET Entry), firm : Nat]
Job == [level : Levels, in0 : SUBSET File, in1 : SUBSET File, base : Version,
        drop : SUBSET Entry, todo : SUBSET Entry, outs : SUBSET File]

TypeOK == /\ queue \in Seq(Call)
          /\ stage \in {"idle", "append", "sync", "apply"}
          /\ group \in Nat
          /\ mem \in SUBSET Entry
          /\ imm \in Seq(SUBSET Entry)
          /\ logNumber \in Nat
          /\ nextFile \in Nat
          /\ lastSeq \in Nat
          /\ current \in Version
          /\ minLog \in Nat
          /\ pending \in SUBSET Nat
          /\ flush \in Seq([new : SUBSET File, level : Levels])
          /\ comp \in Seq(Job)
          /\ bgError \in BOOLEAN
          /\ snaps \in SUBSET Nat
          /\ iters \in SUBSET Version
          /\ forcing \in SUBSET Nat
          /\ forced \in Nat
          /\ open \in BOOLEAN
          /\ DOMAIN logs \in SUBSET Nat
          /\ \A n \in DOMAIN logs : logs[n] \in Log /\ logs[n].firm <= Len(logs[n].recs)
          /\ open => logNumber \in DOMAIN logs   \* the log being written exists
          /\ tables \in SUBSET Nat
          /\ manifest \in SUBSET [files : Version, log : Nat, next : Nat, last : Nat]
          /\ limbo \in [Keys -> SUBSET Nat]
          /\ kept \in [Keys -> SUBSET Nat]
          /\ faults \in Nat
          /\ starts \in Nat
-----------------------------------------------------------------------------
Numbers(F) == {f.num : f \in F}

\* DBImpl::Get: the memtable, the immutable memtable, then the version.
Get(k, s) ==
    LET inMem == Seen(mem, k, s)
        inImm == UNION {Seen(imm[i], k, s) : i \in DOMAIN imm}
    IN  Shown(IF inMem # {} THEN inMem ELSE IF inImm # {} THEN inImm ELSE SeenIn(current, k, s))
View(s) == [k \in Keys |-> Get(k, s)]

\* The entries in memory.
Held == mem \cup UNION {imm[i] : i \in DOMAIN imm}
-----------------------------------------------------------------------------
\* A record of the MANIFEST after m.
Logged(m, gone, new, log) ==
    [files |-> Edited(m.files, gone, new), log |-> log, next |-> nextFile, last |-> lastSeq]

\* VersionSet::LogAndApply
LogAndApply(gone, new, log) ==
    /\ current' = Edited(current, gone, new)
    /\ manifest' = {Logged(m, gone, new, log) : m \in manifest}
    /\ minLog' = log

\* Its record could not be written or synced: recovery may find it or not.
LogFails(gone, new, log) ==
    /\ manifest' = manifest \cup {Logged(m, gone, new, log) : m \in manifest}
    /\ UNCHANGED <<current, minLog>>

\* AddLiveFiles: the files of the current version, and of those that an
\* iterator or the running compaction holds on to.
LiveCurrent == Numbers(FilesOf(current))   \* slip: the current version only
Live == Numbers(UNION {FilesOf(v) : v \in {current} \cup iters
                                             \cup {comp[i].base : i \in DOMAIN comp}})

DeleteOneMore ==   \* slip: the log of LogNumber() itself goes too
    IF bgError THEN UNCHANGED <<tables, logs>>
    ELSE /\ tables' = tables \cap (Live' \cup pending')
         /\ logs' = [n \in {m \in DOMAIN logs : m > minLog'} |-> logs[n]]
\* DBImpl::DeleteObsoleteFiles, after current, manifest, comp and pending were set.
DeleteObsoleteFiles ==
    IF bgError THEN UNCHANGED <<tables, logs>>
    ELSE /\ tables' = tables \cap (Live' \cup pending')
         /\ logs' = [n \in {m \in DOMAIN logs : m >= minLog'} |-> logs[n]]

\* A file operation fails.
Fault(kind) == /\ kind \in Faults
               /\ faults < MaxFaults
               /\ faults' = faults + 1

\* RecordBackgroundError
RecordBackgroundError == bgError' = TRUE
=============================================================================
