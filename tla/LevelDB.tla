------------------------------ MODULE LevelDB -------------------------------
(***************************************************************************)
(* A LevelDB database (Pods/leveldb-library, the disk cache under the      *)
(* app's Firebase client) from its creation on: calls that write, the      *)
(* background thread, snapshots and iterators, the end of the process or   *)
(* of the machine at any step, and recovery (DB::Open, DBImpl::Recover,    *)
(* VersionSet::Recover).                                                   *)
(*                                                                         *)
(* A crash of the machine takes from the end of every log what was not     *)
(* synced.  Table files and the MANIFEST are synced before they count.     *)
(* Recovery runs alone and is one step; a log of the model fills one block.*)
(*                                                                         *)
(* Bounds: MaxSnaps and MaxIters at a time, MaxStarts restarts.            *)
(***************************************************************************)
EXTENDS DBBackground

CONSTANTS MaxSnaps, MaxIters, MaxStarts

ASSUME ReadAssumption == {MaxSnaps, MaxIters, MaxStarts} \subseteq Nat

\* DB::Open of a directory that holds nothing.
Init ==
    /\ queue = <<>> /\ stage = "idle" /\ group = 0
    /\ mem = {} /\ imm = <<>>
    /\ logNumber = 3 /\ minLog = 3 /\ nextFile = 4
    /\ lastSeq = 0
    /\ current = NoFiles
    /\ pending = {} /\ flush = <<>> /\ comp = <<>>
    /\ bgError = FALSE
    /\ snaps = {} /\ iters = {}
    /\ forcing = {} /\ forced = 0
    /\ open = TRUE
    /\ logs = [n \in {3} |-> [recs |-> <<>>, firm |-> 0]]
    /\ tables = {}
    /\ manifest = {[files |-> NoFiles, log |-> 3, next |-> 4, last |-> 0]}
    /\ limbo = [k \in Keys |-> {}]
    /\ kept = [k \in Keys |-> {0}]
    /\ faults = 0 /\ starts = 0
-----------------------------------------------------------------------------
unchangedByReaders == <<writeVars, backVars, forceVars, imm, logNumber, nextFile, bgError, open,
                        logs, faults, starts>>

GetSnapshot == /\ open
               /\ Cardinality(snaps) < MaxSnaps
               /\ snaps' = snaps \cup {lastSeq}
               /\ UNCHANGED <<unchangedByReaders, iters>>

ReleaseSnapshot == \E s \in snaps : /\ snaps' = snaps \ {s}
                                    /\ UNCHANGED <<unchangedByReaders, iters>>

\* NewIterator, or a Get that reads with the mutex released: the version stays.
NewIterator == /\ open
               /\ Cardinality(iters) < MaxIters
               /\ iters' = iters \cup {current}
               /\ UNCHANGED <<unchangedByReaders, snaps>>

DeleteIterator == \E v \in iters : /\ iters' = iters \ {v}
                                   /\ UNCHANGED <<unchangedByReaders, snaps>>
-----------------------------------------------------------------------------
\* What is left of a log: all of it, or what was synced and some of the rest.
Cut(machine) ==
    {[n \in DOMAIN logs |-> [recs |-> SubSeq(logs[n].recs, 1, c[n]), firm |-> c[n]]] :
     c \in {d \in [DOMAIN logs -> 0..MaxSeq] :
              \A n \in DOMAIN logs :
                 d[n] \in (IF machine THEN logs[n].firm ELSE Len(logs[n].recs))
                          ..Len(logs[n].recs)}}

\* The process ends, with or without the machine: memory is gone.
Stop ==
    /\ open
    /\ starts < MaxStarts
    /\ \E machine \in BOOLEAN :
          /\ logs' \in Cut(machine)
          /\ kept' = IF machine THEN kept
                     ELSE [k \in Keys |-> {Get(k, lastSeq)} \cup limbo[k]]
    /\ open' = FALSE
    /\ queue' = <<>> /\ stage' = "idle" /\ group' = 0
    /\ mem' = {} /\ imm' = <<>>
    /\ lastSeq' = 0
    /\ current' = NoFiles
    /\ logNumber' = 0 /\ minLog' = 0 /\ nextFile' = 0
    /\ pending' = {} /\ flush' = <<>> /\ comp' = <<>>
    /\ bgError' = FALSE
    /\ snaps' = {} /\ iters' = {}
    /\ forcing' = {} /\ forced' = 0
    /\ limbo' = [k \in Keys |-> {}]
    /\ UNCHANGED <<tables, manifest, faults, starts>>

\* log::Reader: a torn record takes the rest of its block with it.
Readable(recs) == UNION {recs[i] : i \in {j \in DOMAIN recs : \A h \in 1..j : recs[h] # {}}}

Maximum(a, b) == IF a < b THEN b ELSE a
HighestSeq(D) == CHOOSE s \in {e.seq : e \in D} : \A e \in D : e.seq <= s

\* RecoverLogFile for the logs that the MANIFEST record m does not rule out, in
\* their order: each becomes a table of level 0.
RecoverLogs(m) ==
    LET todo == {n \in DOMAIN logs : n >= m.log}
        nth(i) == CHOOSE n \in todo : Cardinality({x \in todo : x <= n}) = i
        after[i \in 0..Cardinality(todo)] ==
            IF i = 0 THEN [files |-> m.files, next |-> m.next + 1, last |-> m.last]
            ELSE LET p == after[i - 1]
                     D == Readable(logs[nth(i)].recs)
                 IN  IF D = {} THEN [p EXCEPT !.next = Maximum(@, nth(i) + 1)]
                     ELSE [files |-> Edited(p.files, {}, {<<0, [num |-> p.next, data |-> D]>>}),
                           next |-> Maximum(p.next + 1, nth(i) + 1),
                           last |-> Maximum(p.last, HighestSeq(D))]
    IN  after[Cardinality(todo)]

\* DB::Open: recover, start a new log and a new MANIFEST, delete the rest.
Open ==
    /\ ~open
    /\ \E m \in manifest :
          LET r == RecoverLogs(m)
          IN  /\ Numbers(FilesOf(m.files)) \subseteq tables
              /\ current' = r.files
              /\ lastSeq' = r.last
              /\ logNumber' = r.next /\ minLog' = r.next /\ nextFile' = r.next + 1
              /\ logs' = [n \in {r.next} |-> [recs |-> <<>>, firm |-> 0]]
              /\ tables' = Numbers(FilesOf(r.files))
              /\ manifest' = {[files |-> r.files, log |-> r.next, next |-> r.next + 1,
                               last |-> r.last]}
    /\ kept' = [k \in Keys |-> {Shown(SeenIn(current', k, lastSeq'))}]
    /\ open' = TRUE
    /\ starts' = starts + 1
    /\ UNCHANGED <<queue, stage, group, mem, imm, pending, flush, comp, bgError, readVars,
                   forceVars, limbo, faults>>
-----------------------------------------------------------------------------
Calls == [op : Ops \cap {"put", "del"}, key : Keys, sync : Syncs, mark : {0}]
         \cup [op : Ops \cap {"flush"}, key : {CHOOSE k \in Keys : TRUE}, sync : {FALSE},
               mark : {lastSeq}]

Next == \/ \E c \in Calls : Write(c)
        \/ WriteStep
        \/ BackgroundStep
        \/ GetSnapshot \/ ReleaseSnapshot \/ NewIterator \/ DeleteIterator
        \/ Stop
        \/ Open

Spec == Init /\ [][Next]_vars
-----------------------------------------------------------------------------
(* Every read shows what the calls wrote, in their order, at the moment of *)
(* its snapshot, whatever the background thread moves meanwhile; and a     *)
(* restart leaves each key with a value of its writes since the last       *)
(* synced one, the last one if only the process ended.                     *)
ServesTheStore == History!Spec

(* No file is deleted that a version someone reads, the version a recovery *)
(* starts from, or an edit yet to be logged holds, although compactions    *)
(* and flushes delete what is obsolete in the middle of each other.        *)
FilesOnDisk ==
    /\ \A v \in {current} \cup iters \cup {comp[i].base : i \in DOMAIN comp}
              \cup {m.files : m \in manifest} : Numbers(FilesOf(v)) \subseteq tables
    /\ \A i \in DOMAIN comp : Numbers(comp[i].outs) \subseteq tables
    /\ \A i \in DOMAIN flush : Numbers(flush[i].new) \subseteq tables

(* "Make sure there is no overlap in levels > 0" (version_set.cc:724), in  *)
(* the current version and in what a recovery would find.                  *)
NoOverlap == LevelsSorted(current) /\ \A m \in manifest : LevelsSorted(m.files)

(* "Note that if it is just the process that crashes ... no writes will be *)
(* lost even if sync==false" (options.h:174), and synced ones never: what  *)
(* the next recovery finds for a key is among the values that are kept.    *)
SurvivesCrash ==
    ~open => \A m \in manifest :
                 LET r == RecoverLogs(m)
                 IN  \A k \in Keys : Shown(SeenIn(r.files, k, r.last)) \in kept[k]

(* "Force current memtable contents to be compacted" (db_impl.h:56): when  *)
(* the call returns, no entry written before it is left in memory, unless  *)
(* another call was waiting when it came and took it into its own batch.   *)
ForcedIsFlushed == \A e \in Held : e.seq > forced
=============================================================================
