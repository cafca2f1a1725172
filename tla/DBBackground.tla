---------------------------- MODULE DBBackground ----------------------------
(***************************************************************************)
(* LevelDB's background thread (DBImpl::BackgroundCompaction and what it   *)
(* calls, db/db_impl.cc; BuildTable, db/builder.cc): it writes the         *)
(* immutable memtable to a table, moves a file a level down, or merges     *)
(* files of two levels, and flushes a memtable that comes up meanwhile.    *)
(* It works without the mutex, but for the version edits.                  *)
(*                                                                         *)
(* Any file may be picked: by the size of its level, by what it cost in    *)
(* seeks or by hand.  An output file may end behind any entry: sizes are   *)
(* left out.                                                               *)
(*                                                                         *)
(* Bound: no compaction is picked once MaxFile file numbers are in use.    *)
(***************************************************************************)
EXTENDS DBWrite

CONSTANTS Manual,   \* whether DB::CompactRange is called
          MaxFile

ASSUME BackgroundAssumption == Manual \in BOOLEAN /\ MaxFile \in Nat

unchangedByBackground == <<writeVars, readVars, forceVars, logNumber, open, starts>>

\* CompactMemTable up to its edit: WriteLevel0Table.  Within a compaction it
\* runs between two entries of the merge, whatever bg_error_ says.
WriteLevel0Table ==
    /\ imm # <<>> /\ flush = <<>>
    /\ IF comp = <<>> THEN ~bgError ELSE comp[1].todo # {}
    /\ nextFile' = nextFile + 1
    /\ \/ /\ LET f == [num |-> nextFile, data |-> imm[1]]
             IN  IF imm[1] = {}
                 THEN /\ flush' = <<[new |-> {}, level |-> 0]>>
                      /\ UNCHANGED tables
                 ELSE /\ \E l \in PickLevels(current, Low({f}), High({f})) :
                             flush' = <<[new |-> {f}, level |-> l]>>
                      /\ tables' = tables \cup {nextFile}
          /\ UNCHANGED <<bgError, faults>>
       \/ /\ imm[1] # {}
          /\ Fault("table")
          /\ RecordBackgroundError
          /\ UNCHANGED <<flush, tables>>
    /\ UNCHANGED <<unchangedByBackground, current, minLog, pending, comp, manifest, imm, logs>>

\* The rest of CompactMemTable: the edit, imm_ goes, and so do the files it was in.
CommitMemTable ==
    /\ flush # <<>>
    /\ flush' = <<>>
    /\ UNCHANGED <<unchangedByBackground, pending, comp, nextFile>>
    /\ LET new == {<<flush[1].level, f>> : f \in flush[1].new}
       IN  \/ /\ LogAndApply({}, new, logNumber)
              /\ imm' = <<>>
              /\ DeleteObsoleteFiles
              /\ UNCHANGED <<bgError, faults>>
           \/ /\ LogFails({}, new, logNumber)
              /\ Fault("manifest")
              /\ RecordBackgroundError
              /\ UNCHANGED <<imm, tables, logs>>
-----------------------------------------------------------------------------
Idle == /\ comp = <<>> /\ flush = <<>> /\ imm = <<>> /\ ~bgError /\ open
        /\ nextFile < MaxFile

\* Compaction::IsTrivialMove: one file that overlaps none on the next level; with
\* enough of it on the level below that, it is merged all the same.
IsTrivialMove(in) == Cardinality(in[1]) = 1 /\ in[2] = {}
HasGrandparents(l, in) == /\ l + 2 < NumLevels
                          /\ OverlapInLevel(current, l + 2, Low(in[1]), High(in[1]))

\* PickCompaction, or CompactRange for a range of keys: the inputs of a merge.
Picks(l) == {in \in AutoInputs(current, l) : IsTrivialMove(in) => HasGrandparents(l, in)}
            \cup (IF Manual THEN UNION {ManualInputs(current, l, lo, hi) : lo, hi \in Keys}
                  ELSE {})

\* The oldest sequence number a read may still be made at.
SmallestSnapshot == IF snaps = {} THEN lastSeq ELSE CHOOSE s \in snaps : \A t \in snaps : s <= t

\* DoCompactionWork up to its loop.
StartCompaction ==
    /\ Idle
    /\ \E l \in Levels \ {NumLevels - 1} : \E in \in Picks(l) :
          LET all == Content(in[1] \cup in[2])
          IN  comp' = <<[level |-> l, in0 |-> in[1], in1 |-> in[2], base |-> current,
                         drop |-> Dropped(current, l, all, SmallestSnapshot),
                         todo |-> all, outs |-> {}]>>
    /\ UNCHANGED <<unchangedByBackground, current, minLog, pending, flush, tables, manifest, imm,
                   nextFile, bgError, logs, faults>>

\* The file changes level.
TrivialMove ==
    /\ Idle
    /\ \E l \in Levels \ {NumLevels - 1} : \E in \in AutoInputs(current, l) :
          /\ IsTrivialMove(in)
          /\ LET gone == {<<l, f>> : f \in in[1]}
                 new == {<<l + 1, f>> : f \in in[1]}
             IN  \/ LogAndApply(gone, new, minLog) /\ UNCHANGED <<bgError, faults>>
                 \/ LogFails(gone, new, minLog) /\ Fault("manifest") /\ RecordBackgroundError
    /\ UNCHANGED <<unchangedByBackground, pending, flush, comp, tables, imm, nextFile, logs>>

\* CleanupCompaction: the outputs are no longer pending.
CleanupCompaction == comp' = <<>> /\ pending' = {}

\* The next entries of the merge, up to the end of an output file.
WriteOutput ==
    /\ comp # <<>> /\ flush = <<>>
    /\ \E e \in comp[1].todo :
          LET done == {d \in comp[1].todo : ~Before(e, d)}
              f == [num |-> nextFile, data |-> done \ comp[1].drop]
          IN  IF f.data = {}
              THEN /\ comp' = <<[comp[1] EXCEPT !.todo = @ \ done]>>
                   /\ UNCHANGED <<pending, tables, nextFile, bgError, faults>>
              ELSE /\ nextFile' = nextFile + 1
                   /\ \/ /\ comp' = <<[comp[1] EXCEPT !.todo = @ \ done, !.outs = @ \cup {f}]>>
                         /\ pending' = pending \cup {nextFile}
                         /\ tables' = tables \cup {nextFile}
                         /\ UNCHANGED <<bgError, faults>>
                      \/ /\ Fault("table")
                         /\ RecordBackgroundError
                         /\ CleanupCompaction
                         /\ UNCHANGED tables
    /\ UNCHANGED <<unchangedByBackground, current, minLog, flush, manifest, imm, logs>>

\* InstallCompactionResults, and the inputs go once nobody reads them.
Install ==
    /\ comp # <<>> /\ flush = <<>>
    /\ comp[1].todo = {}
    /\ CleanupCompaction
    /\ UNCHANGED <<unchangedByBackground, flush, imm, nextFile>>
    /\ LET c == comp[1]
           gone == {<<c.level, f>> : f \in c.in0} \cup {<<c.level + 1, f>> : f \in c.in1}
           new == {<<c.level + 1, f>> : f \in c.outs}
       IN  \/ /\ LogAndApply(gone, new, minLog)
              /\ DeleteObsoleteFiles
              /\ UNCHANGED <<bgError, faults>>
           \/ /\ LogFails(gone, new, minLog)
              /\ Fault("manifest")
              /\ RecordBackgroundError
              /\ UNCHANGED <<tables, logs>>

BackgroundStep == WriteLevel0Table \/ CommitMemTable \/ StartCompaction \/ TrivialMove
                  \/ WriteOutput \/ Install
=============================================================================
