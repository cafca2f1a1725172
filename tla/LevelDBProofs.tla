--------------------------- MODULE LevelDBProofs ----------------------------
(***************************************************************************)
(* LevelDB never deletes a table file that is still needed, whatever the   *)
(* keys, levels, bounds and faults: FilesOnDisk is an invariant.  Then     *)
(* what its variables hold in every state, that a forced flush flushes,    *)
(* and that the files of a level above 0 never overlap.                    *)
(***************************************************************************)
EXTENDS LevelDB, TLAPS, SequenceTheorems, FiniteSetTheorems, WellFoundedInduction

\* A step deletes what is in none of current, pending_outputs_ and the versions held.
\* That spares a recovery's files because, without a background error, every
\* MANIFEST that recovery may find ends in the current version.
ManifestIsCurrent == open /\ ~bgError => \A m \in manifest : m.files = current

\* The outputs of the running compaction are in no version yet, but pending.
OutputsPending == \A i \in DOMAIN comp : Numbers(comp[i].outs) \subseteq pending

IsJob(c) == c = [level |-> c.level, in0 |-> c.in0, in1 |-> c.in1, base |-> c.base,
                 drop |-> c.drop, todo |-> c.todo, outs |-> c.outs]
Job1 == comp = <<comp[1]>> /\ IsJob(comp[1])
OneAtATime == /\ comp = <<>> \/ Job1
              /\ flush = <<>> \/ flush = <<flush[1]>>

\* Nothing goes on in a database that is closed.
ClosedIsIdle == ~open => /\ queue = <<>> /\ stage = "idle"
                         /\ imm = <<>> /\ flush = <<>> /\ comp = <<>>
                         /\ iters = {}

IInv == FilesOnDisk /\ ManifestIsCurrent /\ OutputsPending /\ OneAtATime /\ ClosedIsIdle
-----------------------------------------------------------------------------
\* Numbers is monotone.
LEMMA NumbersMonotone ==
    ASSUME NEW A, NEW B, A \subseteq B
    PROVE  Numbers(A) \subseteq Numbers(B)
  BY DEF Numbers

LEMMA NumbersUnion ==
    ASSUME NEW A, NEW B
    PROVE  Numbers(A \cup B) = Numbers(A) \cup Numbers(B)
  BY DEF Numbers

\* VersionSet::Builder adds no file but those of the edit.
LEMMA EditedFiles ==
    ASSUME NEW v, NEW gone, NEW new
    PROVE  FilesOf(Edited(v, gone, new)) \subseteq FilesOf(v) \cup {p[2] : p \in new}
  <1>1. \A l \in Levels : Edited(v, gone, new)[l] \subseteq v[l] \cup {p[2] : p \in new}
    BY DEF Edited
  <1>2. \A l \in Levels : v[l] \subseteq FilesOf(v)
    BY DEF FilesOf
  <1>3. ASSUME NEW l \in Levels
        PROVE  Edited(v, gone, new)[l] \subseteq FilesOf(v) \cup {p[2] : p \in new}
    BY <1>1, <1>2
  <1>. QED BY <1>3 DEF FilesOf

\* A version stays on disk when the files that an edit adds are there.
LEMMA EditedOnDisk ==
    ASSUME NEW v, NEW gone, NEW new, NEW T,
           Numbers(FilesOf(v)) \subseteq T,
           \A p \in new : p[2].num \in T
    PROVE  Numbers(FilesOf(Edited(v, gone, new))) \subseteq T
  <1>1. Numbers(FilesOf(Edited(v, gone, new)))
            \subseteq Numbers(FilesOf(v) \cup {p[2] : p \in new})
    BY EditedFiles, NumbersMonotone
  <1>2. Numbers(FilesOf(v) \cup {p[2] : p \in new})
            = Numbers(FilesOf(v)) \cup Numbers({p[2] : p \in new})
    BY NumbersUnion
  <1>3. Numbers({p[2] : p \in new}) \subseteq T
    BY DEF Numbers
  <1>. QED BY <1>1, <1>2, <1>3

\* The files of one element are among those of a union.
LEMMA HeldFiles ==
    ASSUME NEW I, NEW v \in I
    PROVE  Numbers(FilesOf(v)) \subseteq Numbers(UNION {FilesOf(w) : w \in I})
  BY NumbersMonotone
-----------------------------------------------------------------------------
diskVars == <<current, iters, comp, flush, tables, manifest, pending, open>>

\* Steps that leave files and versions alone.
LEMMA ElsewhereKeeps ==
    ASSUME IInv, UNCHANGED diskVars, bgError' = bgError \/ bgError', ClosedIsIdle'
    PROVE  IInv'
  <1>1. FilesOnDisk'
    BY DEF IInv, FilesOnDisk, diskVars, Numbers, FilesOf
  <1>2. ManifestIsCurrent' /\ OutputsPending' /\ OneAtATime'
    BY DEF IInv, ManifestIsCurrent, OutputsPending, OneAtATime, Job1, diskVars, Numbers
  <1>. QED BY <1>1, <1>2 DEF IInv

LEMMA InitHolds == ASSUME Init PROVE IInv
  <1>1. FilesOf(NoFiles) = {}
    BY DEF FilesOf, NoFiles
  <1>2. FilesOnDisk
    BY <1>1 DEF Init, FilesOnDisk, Numbers
  <1>. QED
    BY <1>2 DEF Init, IInv, ManifestIsCurrent, OutputsPending, OneAtATime, ClosedIsIdle
-----------------------------------------------------------------------------
\* The write path.
LEMMA WriteKeeps ==
    ASSUME IInv, NEW c, Write(c)
    PROVE  IInv'
  <1>1. UNCHANGED diskVars /\ bgError' = bgError
    BY DEF Write, diskVars, backVars, readVars
  <1>2. ClosedIsIdle'
    BY DEF Write, IInv, ClosedIsIdle
  <1>. QED BY <1>1, <1>2, ElsewhereKeeps

LEMMA WriteStepKeeps ==
    ASSUME IInv, WriteStep
    PROVE  IInv'
  <1>. USE DEF diskVars, writeVars, backVars, readVars, forceVars, IInv, ClosedIsIdle
  <1>1. CASE Refuse
    BY <1>1, ElsewhereKeeps DEF Refuse, Return
  <1>2. CASE Lead
    BY <1>2, ElsewhereKeeps DEF Lead, SwitchMemTable
  <1>3. CASE LeadFlush
    BY <1>3, ElsewhereKeeps DEF LeadFlush, SwitchMemTable, Return
  <1>4. CASE AddRecord
    BY <1>4, ElsewhereKeeps DEF AddRecord
  <1>5. CASE AddRecordFails
    BY <1>5, ElsewhereKeeps DEF AddRecordFails, FailBatch, Return
  <1>6. CASE Sync
    BY <1>6, ElsewhereKeeps DEF Sync
  <1>7. CASE SyncFails
    BY <1>7, ElsewhereKeeps DEF SyncFails, FailBatch, Return, RecordBackgroundError
  <1>8. CASE Apply
    BY <1>8, ElsewhereKeeps DEF Apply, Return
  <1>9. CASE Flushed
    BY <1>9, ElsewhereKeeps DEF Flushed
  <1>. QED BY <1>1, <1>2, <1>3, <1>4, <1>5, <1>6, <1>7, <1>8, <1>9 DEF WriteStep
-----------------------------------------------------------------------------
\* Readers.
LEMMA ReaderKeeps ==
    ASSUME IInv, GetSnapshot \/ ReleaseSnapshot
    PROVE  IInv'
  BY ElsewhereKeeps DEF GetSnapshot, ReleaseSnapshot, unchangedByReaders, diskVars, writeVars,
                        backVars, IInv, ClosedIsIdle

\* A new iterator holds the current version, which is on disk.
LEMMA IteratorKeeps ==
    ASSUME IInv, NewIterator \/ DeleteIterator
    PROVE  IInv'
  <1>1. iters' \subseteq iters \cup {current} /\ UNCHANGED unchangedByReaders
    BY DEF NewIterator, DeleteIterator
  <1>2. FilesOnDisk'
    BY <1>1 DEF unchangedByReaders, backVars, IInv, FilesOnDisk, Numbers, FilesOf
  <1>3. ~open => iters' = {}
    BY DEF NewIterator, DeleteIterator, IInv, ClosedIsIdle
  <1>. QED
    BY <1>1, <1>2, <1>3 DEF unchangedByReaders, writeVars, backVars, IInv, ManifestIsCurrent,
       OutputsPending, OneAtATime, Job1, ClosedIsIdle, Numbers
-----------------------------------------------------------------------------
\* A version edit that was logged and applied.
LEMMA AppliedOnDisk ==
    ASSUME NEW gone, NEW new, NEW log, LogAndApply(gone, new, log), FilesOnDisk,
           \A p \in new : p[2].num \in tables
    PROVE  /\ Numbers(FilesOf(current')) \subseteq tables
           /\ \A m \in manifest' : Numbers(FilesOf(m.files)) \subseteq tables
           /\ (\A m \in manifest : m.files = current) => \A m \in manifest' : m.files = current'
  <1>1. current' = Edited(current, gone, new)
    BY DEF LogAndApply
  <1>2. \A m \in manifest' : \E n \in manifest : m.files = Edited(n.files, gone, new)
    BY DEF LogAndApply, Logged
  <1>3. /\ Numbers(FilesOf(current)) \subseteq tables
        /\ \A n \in manifest : Numbers(FilesOf(n.files)) \subseteq tables
    BY DEF FilesOnDisk
  <1>4. Numbers(FilesOf(current')) \subseteq tables
    BY <1>1, <1>3, EditedOnDisk
  <1>5. \A m \in manifest' : Numbers(FilesOf(m.files)) \subseteq tables
    <2>. TAKE m \in manifest'
    <2>1. PICK n \in manifest : m.files = Edited(n.files, gone, new)
      BY <1>2
    <2>2. Numbers(FilesOf(Edited(n.files, gone, new))) \subseteq tables
      BY <1>3, EditedOnDisk
    <2>. QED BY <2>1, <2>2
  <1>. QED BY <1>1, <1>2, <1>4, <1>5

\* One that failed is in some of the MANIFESTs that recovery may find.
LEMMA FailedOnDisk ==
    ASSUME NEW gone, NEW new, NEW log, LogFails(gone, new, log), FilesOnDisk,
           \A p \in new : p[2].num \in tables
    PROVE  /\ current' = current
           /\ \A m \in manifest' : Numbers(FilesOf(m.files)) \subseteq tables
  <1>1. \A m \in manifest' : \/ m \in manifest
                           \/ \E n \in manifest : m.files = Edited(n.files, gone, new)
    BY DEF LogFails, Logged
  <1>2. \A n \in manifest : Numbers(FilesOf(n.files)) \subseteq tables
    BY DEF FilesOnDisk
  <1>3. \A m \in manifest' : Numbers(FilesOf(m.files)) \subseteq tables
    <2>. TAKE m \in manifest'
    <2>1. CASE m \in manifest
      BY <1>2, <2>1
    <2>2. ASSUME NEW n \in manifest, m.files = Edited(n.files, gone, new)
          PROVE  Numbers(FilesOf(m.files)) \subseteq tables
      <3>1. Numbers(FilesOf(Edited(n.files, gone, new))) \subseteq tables
        BY <1>2, EditedOnDisk
      <3>. QED BY <2>2, <3>1
    <2>. QED BY <1>1, <2>1, <2>2
  <1>. QED BY <1>3 DEF LogFails

\* Deleting spares what was on disk before and is needed after.
LEMMA DeletionSpares ==
    ASSUME DeleteObsoleteFiles, flush' = <<>>,
           Numbers(FilesOf(current')) \subseteq tables,
           \A m \in manifest' : Numbers(FilesOf(m.files)) \subseteq tables,
           ~bgError => \A m \in manifest' : m.files = current',
           \A v \in iters' : Numbers(FilesOf(v)) \subseteq tables,
           \A i \in DOMAIN comp' : /\ Numbers(FilesOf(comp'[i].base)) \subseteq tables
                                  /\ Numbers(comp'[i].outs) \subseteq tables
                                  /\ Numbers(comp'[i].outs) \subseteq pending'
    PROVE  FilesOnDisk'
  <1>1. CASE bgError
    BY <1>1 DEF DeleteObsoleteFiles, FilesOnDisk, Numbers, FilesOf
  <1>2. CASE ~bgError
    <2>1. tables' = tables \cap (Live' \cup pending')
      BY <1>2 DEF DeleteObsoleteFiles
    <2> DEFINE V == {current'} \cup iters' \cup {comp'[i].base : i \in DOMAIN comp'}
    <2>2. Live' = Numbers(UNION {FilesOf(w) : w \in V})
      BY DEF Live, Numbers
    <2>3. \A v \in V : Numbers(FilesOf(v)) \subseteq Live'
      <3>. HIDE DEF V
      <3>. QED BY <2>2, HeldFiles
    <2>4. \A v \in V : Numbers(FilesOf(v)) \subseteq tables
      OBVIOUS
    <2>5. \A v \in {current'} \cup iters' \cup {comp'[i].base : i \in DOMAIN comp'}
                   \cup {m.files : m \in manifest'} : Numbers(FilesOf(v)) \subseteq tables'
      BY <1>2, <2>1, <2>3, <2>4
    <2>6. \A i \in DOMAIN comp' : Numbers(comp'[i].outs) \subseteq tables'
      BY <2>1
    <2>. QED BY <2>5, <2>6 DEF FilesOnDisk, Numbers, FilesOf
  <1>. QED BY <1>1, <1>2
-----------------------------------------------------------------------------
\* The background thread.
LEMMA FlushKeeps ==
    ASSUME IInv, WriteLevel0Table
    PROVE  IInv'
  <1>. USE DEF unchangedByBackground, writeVars, readVars
  <1>1. /\ UNCHANGED <<current, iters, comp, manifest, pending, open, imm, queue, stage>>
        /\ tables \subseteq tables'
        /\ bgError' = bgError \/ bgError'
    BY DEF WriteLevel0Table, RecordBackgroundError
  <1>2. open
    BY DEF WriteLevel0Table, IInv, ClosedIsIdle
  <1>3. \/ flush' = flush
        \/ \E f, l : flush' = <<[new |-> {f}, level |-> l]>> /\ f.num \in tables'
        \/ flush' = <<[new |-> {}, level |-> 0]>>
    <2> DEFINE f == [num |-> nextFile, data |-> imm[1]]
    <2>1. CASE UNCHANGED flush
      BY <2>1
    <2>2. CASE flush' = <<[new |-> {}, level |-> 0]>>
      BY <2>2
    <2>3. ASSUME tables' = tables \cup {nextFile},
                 NEW l \in PickLevels(current, Low({f}), High({f})),
                 flush' = <<[new |-> {f}, level |-> l]>>
          PROVE  \E g, n : flush' = <<[new |-> {g}, level |-> n]>> /\ g.num \in tables'
      <3>1. f.num \in tables'
        BY <2>3
      <3>. QED BY <2>3, <3>1
    <2>. HIDE DEF f
    <2>4. \/ UNCHANGED flush
          \/ flush' = <<[new |-> {}, level |-> 0]>>
          \/ /\ tables' = tables \cup {nextFile}
             /\ \E l \in PickLevels(current, Low({f}), High({f})) :
                    flush' = <<[new |-> {f}, level |-> l]>>
      BY DEF WriteLevel0Table, f
    <2>. QED BY <2>1, <2>2, <2>3, <2>4
  <1>4. \A i \in DOMAIN flush' : Numbers(flush'[i].new) \subseteq tables'
    <2>1. CASE flush' = flush
      BY <1>1, <2>1 DEF IInv, FilesOnDisk, Numbers
    <2>2. ASSUME NEW f, NEW l, flush' = <<[new |-> {f}, level |-> l]>>, f.num \in tables'
          PROVE  \A i \in DOMAIN flush' : Numbers(flush'[i].new) \subseteq tables'
      BY <2>2 DEF Numbers
    <2>3. CASE flush' = <<[new |-> {}, level |-> 0]>>
      BY <2>3 DEF Numbers
    <2>. QED BY <1>3, <2>1, <2>2, <2>3
  <1>5. FilesOnDisk'
    BY <1>1, <1>4 DEF IInv, FilesOnDisk, Numbers, FilesOf
  <1>6. OneAtATime'
    BY <1>1, <1>3 DEF IInv, OneAtATime, Job1
  <1>. QED
    BY <1>1, <1>2, <1>5, <1>6 DEF IInv, ManifestIsCurrent, OutputsPending, ClosedIsIdle, Numbers

LEMMA CommitKeeps ==
    ASSUME IInv, CommitMemTable
    PROVE  IInv'
  <1> DEFINE new == {<<flush[1].level, f>> : f \in flush[1].new}
  <1>1. /\ UNCHANGED <<iters, comp, pending, open, queue, stage>>
        /\ flush # <<>> /\ flush' = <<>>
    BY DEF CommitMemTable, unchangedByBackground, writeVars, readVars
  <1>2. open
    BY <1>1 DEF IInv, ClosedIsIdle
  <1>3. \A p \in new : p[2].num \in tables
    <2>1. flush = <<flush[1]>>
      BY <1>1 DEF IInv, OneAtATime
    <2>2. \A f \in flush[1].new : f.num \in tables
      BY <2>1 DEF IInv, FilesOnDisk, Numbers
    <2>. QED BY <2>2
  <1>4. OutputsPending' /\ OneAtATime' /\ ClosedIsIdle'
    BY <1>1, <1>2 DEF IInv, OutputsPending, OneAtATime, Job1, ClosedIsIdle, Numbers
  <1>5. CASE LogAndApply({}, new, logNumber) /\ DeleteObsoleteFiles /\ bgError' = bgError
    <2>1. /\ Numbers(FilesOf(current')) \subseteq tables
          /\ \A m \in manifest' : Numbers(FilesOf(m.files)) \subseteq tables
          /\ (\A m \in manifest : m.files = current) => \A m \in manifest' : m.files = current'
      <3>. HIDE DEF new
      <3>. QED BY <1>3, <1>5, AppliedOnDisk DEF IInv
    <2>2. ~bgError => \A m \in manifest' : m.files = current'
      BY <1>2, <2>1 DEF IInv, ManifestIsCurrent
    <2>3. \A v \in iters' : Numbers(FilesOf(v)) \subseteq tables
      BY <1>1 DEF IInv, FilesOnDisk
    <2>4. \A i \in DOMAIN comp' : /\ Numbers(FilesOf(comp'[i].base)) \subseteq tables
                                 /\ Numbers(comp'[i].outs) \subseteq tables
                                 /\ Numbers(comp'[i].outs) \subseteq pending'
      BY <1>1 DEF IInv, FilesOnDisk, OutputsPending
    <2>5. FilesOnDisk'
      BY <1>1, <1>5, <2>1, <2>2, <2>3, <2>4, DeletionSpares
    <2>. QED BY <1>4, <1>5, <2>2, <2>5 DEF IInv, ManifestIsCurrent
  <1>6. CASE LogFails({}, new, logNumber) /\ tables' = tables /\ bgError'
    <2>1. current' = current /\ \A m \in manifest' : Numbers(FilesOf(m.files)) \subseteq tables
      <3>. HIDE DEF new
      <3>. QED BY <1>3, <1>6, FailedOnDisk DEF IInv
    <2>2. FilesOnDisk'
      BY <1>1, <1>6, <2>1 DEF IInv, FilesOnDisk, Numbers, FilesOf
    <2>. QED BY <1>4, <1>6, <2>2 DEF IInv, ManifestIsCurrent
  <1>. QED BY <1>5, <1>6 DEF CommitMemTable, RecordBackgroundError

LEMMA StartKeeps ==
    ASSUME IInv, StartCompaction
    PROVE  IInv'
  <1>1. /\ UNCHANGED <<current, iters, flush, tables, manifest, pending, open, bgError>>
        /\ UNCHANGED <<queue, stage, imm>>
        /\ open
    BY DEF StartCompaction, Idle, unchangedByBackground, writeVars, readVars
  <1>2. \E j : /\ comp' = <<[level |-> j.level, in0 |-> j.in0, in1 |-> j.in1, base |-> current,
                              drop |-> j.drop, todo |-> j.todo, outs |-> {}]>>
    <2>1. PICK l \in Levels \ {NumLevels - 1} : \E in \in Picks(l) :
              comp' = <<[level |-> l, in0 |-> in[1], in1 |-> in[2], base |-> current,
                         drop |-> Dropped(current, l, Content(in[1] \cup in[2]),
                                          SmallestSnapshot),
                         todo |-> Content(in[1] \cup in[2]), outs |-> {}]>>
      BY DEF StartCompaction
    <2>2. PICK in \in Picks(l) :
              comp' = <<[level |-> l, in0 |-> in[1], in1 |-> in[2], base |-> current,
                         drop |-> Dropped(current, l, Content(in[1] \cup in[2]),
                                          SmallestSnapshot),
                         todo |-> Content(in[1] \cup in[2]), outs |-> {}]>>
      BY <2>1
    <2>. WITNESS [level |-> l, in0 |-> in[1], in1 |-> in[2],
                  drop |-> Dropped(current, l, Content(in[1] \cup in[2]), SmallestSnapshot),
                  todo |-> Content(in[1] \cup in[2])]
    <2>. QED BY <2>2
  <1>3. /\ DOMAIN comp' = {1}
        /\ comp'[1].base = current
        /\ comp'[1].outs = {}
        /\ Job1'
    BY <1>2 DEF Job1, IsJob
  <1>4. FilesOnDisk'
    BY <1>1, <1>3 DEF IInv, FilesOnDisk, Numbers, FilesOf
  <1>5. OutputsPending' /\ OneAtATime'
    BY <1>1, <1>3 DEF IInv, OutputsPending, OneAtATime, Numbers
  <1>. QED
    BY <1>1, <1>4, <1>5 DEF IInv, ManifestIsCurrent, ClosedIsIdle
\* A compaction takes files of the level it is for.
LEMMA InputsOfLevel ==
    ASSUME NEW v, NEW l, NEW in \in AutoInputs(v, l)
    PROVE  in[1] \subseteq v[l]
  <1>1. ASSUME NEW F, F \subseteq v[l], NEW i \in Inputs(v, l, F)
        PROVE  i[1] \subseteq v[l]
    <2>1. \A G : G \subseteq v[l] => WithBoundary(v, l, G) \subseteq v[l]
      BY DEF WithBoundary
    <2>2. \A lo, hi : Overlapping(v, l, lo, hi) \subseteq v[l]
      BY DEF Overlapping
    <2>. QED BY <1>1, <2>1, <2>2 DEF Inputs
  <1>2. \A lo, hi : Overlapping(v, 0, lo, hi) \subseteq v[0]
    BY DEF Overlapping
  <1>3. PICK f \in v[l] :
            in \in Inputs(v, l, IF l = 0 THEN Overlapping(v, 0, Low({f}), High({f})) ELSE {f})
    BY DEF AutoInputs
  <1>. QED BY <1>1, <1>2, <1>3

LEMMA MoveKeeps ==
    ASSUME IInv, TrivialMove
    PROVE  IInv'
  <1>1. /\ UNCHANGED <<iters, comp, flush, tables, pending, open, queue, stage, imm>>
        /\ open /\ ~bgError
    BY DEF TrivialMove, Idle, unchangedByBackground, writeVars, readVars
  <1>2. PICK l \in Levels \ {NumLevels - 1} : \E in \in AutoInputs(current, l) :
            LET gone == {<<l, f>> : f \in in[1]}
                new == {<<l + 1, f>> : f \in in[1]}
            IN  \/ LogAndApply(gone, new, minLog) /\ UNCHANGED bgError
                \/ LogFails(gone, new, minLog) /\ bgError'
    BY DEF TrivialMove, RecordBackgroundError
  <1>3. PICK in \in AutoInputs(current, l) :
            LET gone == {<<l, f>> : f \in in[1]}
                new == {<<l + 1, f>> : f \in in[1]}
            IN  \/ LogAndApply(gone, new, minLog) /\ UNCHANGED bgError
                \/ LogFails(gone, new, minLog) /\ bgError'
    BY <1>2
  <1> DEFINE gone == {<<l, f>> : f \in in[1]}
             new == {<<l + 1, f>> : f \in in[1]}
  <1>4. \A p \in new : p[2].num \in tables
    <2>1. in[1] \subseteq FilesOf(current)
      BY InputsOfLevel DEF FilesOf
    <2>2. \A f \in in[1] : f.num \in tables
      BY <2>1 DEF IInv, FilesOnDisk, Numbers
    <2>. QED BY <2>2
  <1>5. OutputsPending' /\ OneAtATime' /\ ClosedIsIdle'
    BY <1>1 DEF IInv, OutputsPending, OneAtATime, Job1, ClosedIsIdle, Numbers
  <1>. HIDE DEF gone, new
  <1>6. CASE LogAndApply(gone, new, minLog) /\ UNCHANGED bgError
    <2>1. /\ Numbers(FilesOf(current')) \subseteq tables
          /\ \A m \in manifest' : Numbers(FilesOf(m.files)) \subseteq tables
          /\ (\A m \in manifest : m.files = current) => \A m \in manifest' : m.files = current'
      BY <1>4, <1>6, AppliedOnDisk DEF IInv
    <2>2. FilesOnDisk'
      BY <1>1, <2>1 DEF IInv, FilesOnDisk, Numbers, FilesOf
    <2>3. ManifestIsCurrent'
      BY <1>1, <1>6, <2>1 DEF IInv, ManifestIsCurrent
    <2>. QED BY <1>5, <2>2, <2>3 DEF IInv
  <1>7. CASE LogFails(gone, new, minLog) /\ bgError'
    <2>1. current' = current /\ \A m \in manifest' : Numbers(FilesOf(m.files)) \subseteq tables
      BY <1>4, <1>7, FailedOnDisk DEF IInv
    <2>2. FilesOnDisk'
      BY <1>1, <2>1 DEF IInv, FilesOnDisk, Numbers, FilesOf
    <2>. QED BY <1>5, <1>7, <2>2 DEF IInv, ManifestIsCurrent
  <1>. QED BY <1>3, <1>6, <1>7 DEF gone, new

LEMMA OutputKeeps ==
    ASSUME IInv, WriteOutput
    PROVE  IInv'
  <1>1. /\ UNCHANGED <<current, iters, flush, manifest, open, queue, stage, imm>>
        /\ comp # <<>> /\ flush = <<>>
        /\ bgError' = bgError \/ bgError'
        /\ tables \subseteq tables'
    BY DEF WriteOutput, unchangedByBackground, writeVars, readVars, RecordBackgroundError
  <1>2. open /\ Job1
    BY <1>1 DEF IInv, ClosedIsIdle, OneAtATime
  <1>3. \/ comp' = <<>>
        \/ /\ Job1' /\ DOMAIN comp' = {1}
           /\ comp'[1].base = comp[1].base
           /\ \A f \in comp'[1].outs :
                 f \in comp[1].outs \/ (f.num \in tables' /\ f.num \in pending')
           /\ pending \subseteq pending'
    <2>1. PICK e \in comp[1].todo :
            LET done == {d \in comp[1].todo : ~Before(e, d)}
                f == [num |-> nextFile, data |-> done \ comp[1].drop]
            IN  \/ comp' = <<>>
                \/ /\ comp' = <<[comp[1] EXCEPT !.todo = @ \ done]>>
                   /\ pending' = pending
                \/ /\ comp' = <<[comp[1] EXCEPT !.todo = @ \ done, !.outs = @ \cup {f}]>>
                   /\ pending' = pending \cup {nextFile}
                   /\ tables' = tables \cup {nextFile}
      BY DEF WriteOutput, CleanupCompaction
    <2> DEFINE done == {d \in comp[1].todo : ~Before(e, d)}
               f == [num |-> nextFile, data |-> done \ comp[1].drop]
    <2>2. f.num = nextFile
      OBVIOUS
    <2>3. \/ comp' = <<>>
          \/ /\ comp' = <<[comp[1] EXCEPT !.todo = @ \ done]>>
             /\ pending' = pending
          \/ /\ comp' = <<[comp[1] EXCEPT !.todo = @ \ done, !.outs = @ \cup {f}]>>
             /\ pending' = pending \cup {nextFile}
             /\ tables' = tables \cup {nextFile}
      BY <2>1
    <2>. HIDE DEF done, f
    <2>4. IsJob(comp[1])
      BY <1>2 DEF Job1
    <2>5. CASE comp' = <<[comp[1] EXCEPT !.todo = @ \ done]>> /\ pending' = pending
      <3>1. IsJob(comp'[1]) /\ comp'[1].base = comp[1].base /\ comp'[1].outs = comp[1].outs
        <4>1. comp'[1] = [comp[1] EXCEPT !.todo = @ \ done]
          BY <2>5
        <4>. QED BY <2>4, <4>1 DEF IsJob
      <3>2. comp' = <<comp'[1]>>
        BY <2>5
      <3>3. Job1' /\ DOMAIN comp' = {1}
        BY <3>1, <3>2 DEF Job1
      <3>. QED BY <2>5, <3>1, <3>3
    <2>6. CASE /\ comp' = <<[comp[1] EXCEPT !.todo = @ \ done, !.outs = @ \cup {f}]>>
               /\ pending' = pending \cup {nextFile}
               /\ tables' = tables \cup {nextFile}
      <3>1. /\ IsJob(comp'[1])
            /\ comp'[1].base = comp[1].base
            /\ comp'[1].outs = comp[1].outs \cup {f}
        <4>1. comp'[1] = [comp[1] EXCEPT !.todo = @ \ done, !.outs = @ \cup {f}]
          BY <2>6
        <4>. QED BY <2>4, <4>1 DEF IsJob
      <3>2. comp' = <<comp'[1]>>
        BY <2>6
      <3>3. Job1' /\ DOMAIN comp' = {1}
        BY <3>1, <3>2 DEF Job1
      <3>. QED BY <2>2, <2>6, <3>1, <3>3
    <2>. QED BY <2>3, <2>5, <2>6
  <1>4. FilesOnDisk' /\ OutputsPending'
    <2>1. CASE comp' = <<>>
      BY <1>1, <2>1 DEF IInv, FilesOnDisk, OutputsPending, Numbers, FilesOf
    <2>2. CASE comp' # <<>>
      <3>1. /\ 1 \in DOMAIN comp
            /\ \A g \in comp[1].outs : g.num \in tables /\ g.num \in pending
        BY <1>2 DEF Job1, IInv, FilesOnDisk, OutputsPending, Numbers
      <3>2. \A i \in DOMAIN comp' : /\ Numbers(comp'[i].outs) \subseteq tables'
                                   /\ Numbers(comp'[i].outs) \subseteq pending'
        BY <1>1, <1>3, <2>2, <3>1 DEF Numbers
      <3>3. \A i \in DOMAIN comp' : Numbers(FilesOf(comp'[i].base)) \subseteq tables
        BY <1>3, <2>2, <3>1 DEF IInv, FilesOnDisk
      <3>. QED BY <1>1, <3>2, <3>3 DEF IInv, FilesOnDisk, OutputsPending, Numbers, FilesOf
    <2>. QED BY <2>1, <2>2
  <1>5. OneAtATime'
    BY <1>1, <1>3 DEF IInv, OneAtATime
  <1>. QED BY <1>1, <1>2, <1>4, <1>5 DEF IInv, ManifestIsCurrent, ClosedIsIdle
LEMMA InstallKeeps ==
    ASSUME IInv, Install
    PROVE  IInv'
  <1> DEFINE c == comp[1]
             gone == {<<c.level, f>> : f \in c.in0} \cup {<<c.level + 1, f>> : f \in c.in1}
             new == {<<c.level + 1, f>> : f \in c.outs}
  <1>1. /\ UNCHANGED <<iters, flush, open, queue, stage, imm>>
        /\ comp # <<>> /\ flush = <<>> /\ comp' = <<>>
    BY DEF Install, CleanupCompaction, unchangedByBackground, writeVars, readVars
  <1>2. open /\ Job1
    BY <1>1 DEF IInv, ClosedIsIdle, OneAtATime
  <1>3. \A p \in new : p[2].num \in tables
    <2>1. \A f \in comp[1].outs : f.num \in tables
      BY <1>2 DEF Job1, IInv, FilesOnDisk, Numbers
    <2>. QED BY <2>1
  <1>4. OutputsPending' /\ OneAtATime' /\ ClosedIsIdle'
    BY <1>1, <1>2 DEF OutputsPending, OneAtATime, ClosedIsIdle
  <1>5. \/ LogAndApply(gone, new, minLog) /\ DeleteObsoleteFiles /\ bgError' = bgError
        \/ LogFails(gone, new, minLog) /\ tables' = tables /\ bgError'
    BY DEF Install, RecordBackgroundError
  <1>. HIDE DEF c, gone, new
  <1>6. CASE LogAndApply(gone, new, minLog) /\ DeleteObsoleteFiles /\ bgError' = bgError
    <2>1. /\ Numbers(FilesOf(current')) \subseteq tables
          /\ \A m \in manifest' : Numbers(FilesOf(m.files)) \subseteq tables
          /\ (\A m \in manifest : m.files = current) => \A m \in manifest' : m.files = current'
      BY <1>3, <1>6, AppliedOnDisk DEF IInv
    <2>2. ~bgError => \A m \in manifest' : m.files = current'
      BY <1>2, <2>1 DEF IInv, ManifestIsCurrent
    <2>3. \A v \in iters' : Numbers(FilesOf(v)) \subseteq tables
      BY <1>1 DEF IInv, FilesOnDisk
    <2>4. \A i \in DOMAIN comp' : /\ Numbers(FilesOf(comp'[i].base)) \subseteq tables
                                 /\ Numbers(comp'[i].outs) \subseteq tables
                                 /\ Numbers(comp'[i].outs) \subseteq pending'
      BY <1>1
    <2>5. FilesOnDisk'
      BY <1>1, <1>6, <2>1, <2>2, <2>3, <2>4, DeletionSpares
    <2>. QED BY <1>4, <1>6, <2>2, <2>5 DEF IInv, ManifestIsCurrent
  <1>7. CASE LogFails(gone, new, minLog) /\ tables' = tables /\ bgError'
    <2>1. current' = current /\ \A m \in manifest' : Numbers(FilesOf(m.files)) \subseteq tables
      BY <1>3, <1>7, FailedOnDisk DEF IInv
    <2>2. FilesOnDisk'
      BY <1>1, <1>7, <2>1 DEF IInv, FilesOnDisk, Numbers, FilesOf
    <2>. QED BY <1>4, <1>7, <2>2 DEF IInv, ManifestIsCurrent
  <1>. QED BY <1>5, <1>6, <1>7

LEMMA BackgroundKeeps ==
    ASSUME IInv, BackgroundStep
    PROVE  IInv'
  BY FlushKeeps, CommitKeeps, StartKeeps, MoveKeeps, OutputKeeps, InstallKeeps DEF BackgroundStep
-----------------------------------------------------------------------------
\* A stop leaves the directory, and a recovery starts from what it finds there.
LEMMA StopKeeps ==
    ASSUME IInv, Stop
    PROVE  IInv'
  <1>1. FilesOf(NoFiles) = {}
    BY DEF FilesOf, NoFiles
  <1>2. /\ UNCHANGED <<tables, manifest>>
        /\ current' = NoFiles /\ iters' = {} /\ comp' = <<>> /\ flush' = <<>> /\ imm' = <<>>
        /\ queue' = <<>> /\ stage' = "idle" /\ open' = FALSE
    BY DEF Stop
  <1>3. FilesOnDisk'
    BY <1>1, <1>2 DEF IInv, FilesOnDisk, Numbers
  <1>. QED
    BY <1>2, <1>3 DEF IInv, ManifestIsCurrent, OutputsPending, OneAtATime, ClosedIsIdle

LEMMA OpenKeeps ==
    ASSUME IInv, Open
    PROVE  IInv'
  <1>1. /\ iters = {} /\ comp = <<>> /\ flush = <<>>
        /\ UNCHANGED <<iters, comp, flush>>
        /\ open'
    BY DEF Open, readVars, IInv, ClosedIsIdle
  <1>2. PICK r : /\ current' = r.files
                 /\ tables' = Numbers(FilesOf(r.files))
                 /\ manifest' = {[files |-> r.files, log |-> r.next, next |-> r.next + 1,
                                  last |-> r.last]}
    BY DEF Open
  <1>3. \A m \in manifest' : m.files = current'
    BY <1>2
  <1>4. FilesOnDisk'
    BY <1>1, <1>2, <1>3 DEF FilesOnDisk, Numbers, FilesOf
  <1>. QED
    BY <1>1, <1>3, <1>4 DEF IInv, ManifestIsCurrent, OutputsPending, OneAtATime, ClosedIsIdle
-----------------------------------------------------------------------------
\* Every step keeps the invariant.
LEMMA StepKeeps ==
    ASSUME IInv, [Next]_vars
    PROVE  IInv'
  <1>1. CASE \E c \in Calls : Write(c)
    BY <1>1, WriteKeeps
  <1>2. CASE WriteStep
    BY <1>2, WriteStepKeeps
  <1>3. CASE BackgroundStep
    BY <1>3, BackgroundKeeps
  <1>4. CASE GetSnapshot \/ ReleaseSnapshot
    BY <1>4, ReaderKeeps
  <1>5. CASE NewIterator \/ DeleteIterator
    BY <1>5, IteratorKeeps
  <1>6. CASE Stop
    BY <1>6, StopKeeps
  <1>7. CASE Open
    BY <1>7, OpenKeeps
  <1>8. CASE UNCHANGED vars
    BY <1>8, ElsewhereKeeps DEF vars, writeVars, backVars, readVars, diskVars, IInv, ClosedIsIdle
  <1>. QED BY <1>1, <1>2, <1>3, <1>4, <1>5, <1>6, <1>7, <1>8 DEF Next

(* What LevelDB keeps about its files in every state: besides FilesOnDisk, *)
(* the MANIFEST names the current version until an error is recorded, the  *)
(* outputs of a compaction are pending, and a closed database is idle.     *)
THEOREM StorageInvariant == Spec => []IInv
  <1>1. Init => IInv
    BY InitHolds
  <1>2. IInv /\ [Next]_vars => IInv'
    BY StepKeeps
  <1>. QED BY <1>1, <1>2, PTL DEF Spec

(* DeleteObsoleteFiles, in whatever step it runs, spares every table file  *)
(* that a version someone reads, a recovery from any MANIFEST the directory *)
(* may hold, or an edit yet to be logged needs.                            *)
THEOREM NoFileIsMissed == Spec => []FilesOnDisk
  <1>1. IInv => FilesOnDisk
    BY DEF IInv
  <1>. QED BY <1>1, StorageInvariant, PTL

-----------------------------------------------------------------------------
(* Numbers.                                                                *)

LEMMA LeastNumber ==
    ASSUME NEW S \in SUBSET Nat, S # {}
    PROVE  \E i \in S : \A j \in S : i <= j
  <1>1. PICK i \in S : \A j \in S : <<j, i>> \notin OpToRel(<, Nat)
    BY NatLessThanWellFounded, WFMin
  <1>2. \A j \in S : ~ (j < i)
    BY <1>1 DEF OpToRel
  <1>. QED BY <1>2

LEMMA GreatestNumber ==
    ASSUME NEW n \in Nat, NEW S \in SUBSET (0..n), S # {}
    PROVE  \E i \in S : \A j \in S : j <= i
  <1>. DEFINE T == {m \in Nat : n - m \in S}
  <1>1. PICK i \in S : TRUE
    OBVIOUS
  <1>2. n - i \in T
    OBVIOUS
  <1>3. PICK m \in T : \A j \in T : m <= j
    <2>1. T \in SUBSET Nat /\ T # {}
      BY <1>2
    <2>. HIDE DEF T
    <2>. QED BY <2>1, LeastNumber
  <1>4. ASSUME NEW j \in S PROVE j <= n - m
    <2>1. n - j \in T
      OBVIOUS
    <2>. QED BY <1>3, <2>1
  <1>. QED BY <1>3, <1>4

\* Induction up to m, for a set.
LEMMA UpTo ==
    ASSUME NEW m \in Nat, NEW P, 0 \in P, \A n \in 1..m : n - 1 \in P => n \in P
    PROVE  \A n \in 0..m : n \in P
  <1>. DEFINE Bad == {n \in 0..m : n \notin P}
  <1>1. SUFFICES ASSUME Bad # {} PROVE FALSE
    OBVIOUS
  <1>2. PICK k \in Bad : \A j \in Bad : k <= j
    <2>1. Bad \in SUBSET Nat
      OBVIOUS
    <2>. HIDE DEF Bad
    <2>. QED BY <1>1, <2>1, LeastNumber
  <1>3. k \in 1..m /\ k - 1 \in 0..m /\ k - 1 \notin Bad
    BY <1>2
  <1>. QED BY <1>2, <1>3

\* The number of elements of S up to n.
Rank(S, n) == Cardinality({x \in S : x <= n})

\* Finitely many numbers can be told by their places in their order.
LEMMA RankedBy ==
    ASSUME NEW S \in SUBSET Nat, IsFiniteSet(S), NEW i \in 1..Cardinality(S)
    PROVE  \E n \in S : Rank(S, n) = i
  <1>. DEFINE m == Cardinality(S)
              P == {k \in Nat : k > 0 => \E n \in S : Rank(S, n) = k}
  <1>1. m \in Nat
    BY FS_CardinalityType
  <1>2. 0 \in P
    OBVIOUS
  <1>3. ASSUME NEW k \in 1..m, k - 1 \in P
        PROVE  k \in P
    <2>1. PICK D : /\ D \subseteq S /\ Cardinality(D) = k - 1 /\ IsFiniteSet(D)
                   /\ \A x \in D, y \in S : y <= x => y \in D
      <3>1. CASE k = 1
        <4>1. Cardinality({}) = k - 1 /\ IsFiniteSet({})
          BY <3>1, FS_EmptySet
        <4>. QED BY <4>1
      <3>2. CASE k # 1
        <4>1. PICK n \in S : Rank(S, n) = k - 1
          BY <1>1, <1>3, <3>2
        <4>2. IsFiniteSet({x \in S : x <= n})
          BY FS_Subset
        <4>3. \A x \in {z \in S : z <= n}, y \in S : y <= x => y \in {z \in S : z <= n}
          OBVIOUS
        <4>. QED BY <4>1, <4>2, <4>3 DEF Rank
      <3>. QED BY <3>1, <3>2
    <2>2. S \ D # {}
      <3>1. SUFFICES ASSUME S \ D = {} PROVE FALSE
        OBVIOUS
      <3>2. D = S
        BY <2>1, <3>1
      <3>3. k - 1 = m
        BY <2>1, <3>2
      <3>. QED BY <1>1, <3>3
    <2>3. PICK n \in S \ D : \A j \in S \ D : n <= j
      <3>1. S \ D \in SUBSET Nat
        OBVIOUS
      <3>. QED BY <2>2, <3>1, LeastNumber
    <2>4. {x \in S : x <= n} = D \cup {n}
      <3>1. \A x \in S : x <= n => x \in D \cup {n}
        BY <2>3
      <3>2. \A x \in D : x <= n
        BY <2>1, <2>3
      <3>3. n \in S /\ n <= n /\ D \subseteq S
        BY <2>1
      <3>. QED BY <3>1, <3>2, <3>3
    <2>5. Cardinality(D \cup {n}) = k
      <3>1. Cardinality(D \cup {n}) = Cardinality(D) + 1
        BY <2>1, <2>3, FS_AddElement
      <3>2. k \in Nat
        BY <1>1
      <3>. QED BY <2>1, <3>1, <3>2
    <2>6. Rank(S, n) = k
      BY <2>4, <2>5 DEF Rank
    <2>. QED BY <2>6
  <1>4. \A k \in 0..m : k \in P
    <2>. HIDE DEF P
    <2>. QED BY <1>1, <1>2, <1>3, UpTo
  <1>. QED BY <1>1, <1>4
-----------------------------------------------------------------------------
(* What the operators of WriteBatch and VersionSet return.                 *)

LEMMA CountType ==
    ASSUME NEW C, NEW i \in Nat
    PROVE  Count(C, i) \in 0..i
  <1>1. IsFiniteSet(1..i) /\ Cardinality(1..i) = i
    BY FS_Interval
  <1>2. /\ IsFiniteSet({j \in 1..i : C[j].op # "flush"})
        /\ Cardinality({j \in 1..i : C[j].op # "flush"}) <= i
    BY <1>1, FS_Subset
  <1>3. Cardinality({j \in 1..i : C[j].op # "flush"}) \in Nat
    BY <1>2, FS_CardinalityType
  <1>. QED BY <1>2, <1>3 DEF Count

\* The entries of calls are numbered from behind t.
LEMMA EntriesType ==
    ASSUME NEW C \in Seq(Call), NEW t \in Nat
    PROVE  /\ Entries(C, t) \subseteq Entry
           /\ \A e \in Entries(C, t) : e.seq \in t..(t + Len(C))
  <1>. SUFFICES ASSUME NEW i \in 1..Len(C)
                PROVE  LET e == [key |-> C[i].key, seq |-> t + Count(C, i),
                                 del |-> C[i].op = "del"]
                       IN  e \in Entry /\ e.seq \in t..(t + Len(C))
    BY DEF Entries
  <1>1. C[i] \in Call /\ i \in Nat /\ i <= Len(C) /\ Len(C) \in Nat
    OBVIOUS
  <1>2. Count(C, i) \in 0..i
    BY <1>1, CountType
  <1>3. t + Count(C, i) \in t..(t + Len(C)) /\ t + Count(C, i) \in Nat
    BY <1>1, <1>2
  <1>4. C[i].key \in Keys /\ (C[i].op = "del") \in BOOLEAN
    BY <1>1 DEF Call
  <1>. QED BY <1>3, <1>4 DEF Entry

LEMMA ValuesType ==
    ASSUME NEW E \in SUBSET Entry, NEW k
    PROVE  ValuesAt(E, k) \subseteq Nat
  BY DEF ValuesAt, Entry

LEMMA KeptType ==
    ASSUME kept \in [Keys -> SUBSET Nat], NEW E \in SUBSET Entry, NEW S, NEW k \in Keys
    PROVE  History!KeptOf(k, E, S) \subseteq Nat
  <1>1. \A D \in SUBSET Entry : ValuesAt(D, k) \subseteq Nat
    BY ValuesType
  <1>2. kept[k] \subseteq Nat
    OBVIOUS
  <1>. QED BY <1>1, <1>2 DEF History!KeptOf, History!ValuesAt, ValuesAt

\* A read shows a number.
LEMMA ShownType ==
    ASSUME NEW E \in SUBSET Entry
    PROVE  Shown(E) \in Nat
  <1>1. \A e \in E : Value(e) \in Nat
    BY DEF Value, Entry
  <1>2. Shown(E) \in {IF D = {} THEN 0 ELSE Value(CHOOSE e \in D : TRUE) : D \in {E}}
    BY DEF Shown
  <1>3. Shown(E) = IF E = {} THEN 0 ELSE Value(CHOOSE e \in E : TRUE)
    BY <1>2
  <1>4. E # {} => (CHOOSE e \in E : TRUE) \in E
    OBVIOUS
  <1>. QED BY <1>1, <1>3, <1>4

LEMMA SeenType ==
    ASSUME NEW D, NEW k, NEW s
    PROVE  Seen(D, k, s) \subseteq D
  BY DEF Seen

LEMMA VersionData ==
    ASSUME NEW v \in Version, NEW l \in Levels
    PROVE  v[l] \subseteq File /\ \A f \in v[l] : f.data \subseteq Entry
  BY DEF Version, File

LEMMA SeenInType ==
    ASSUME NEW v \in Version, NEW k, NEW s
    PROVE  SeenIn(v, k, s) \subseteq Entry
  <1>1. ASSUME NEW l \in Levels
        PROVE  SeenAt(v, l, k, s) \subseteq Entry
    <2>1. Opened(v, l, k, s) \subseteq v[l]
      BY DEF Opened, From
    <2>2. \A f \in v[l] : Seen(f.data, k, s) \subseteq Entry
      BY <1>1, VersionData, SeenType
    <2>. QED BY <2>1, <2>2 DEF SeenAt
  <1>2. ASSUME NEW e \in SeenIn(v, k, s)
        PROVE  e \in Entry
    <2>1. PICK at \in {[l \in Levels |-> SeenAt(v, l, k, s)]} :
              e \in UNION {at[l] : l \in {n \in Levels : \A m \in 0..(n - 1) : at[m] = {}}}
      BY <1>2 DEF SeenIn
    <2>2. PICK l \in Levels : e \in at[l]
      BY <2>1
    <2>. QED BY <1>1, <2>2
  <1>. QED BY <1>2

LEMMA GetType ==
    ASSUME mem \in SUBSET Entry, imm \in Seq(SUBSET Entry), current \in Version,
           NEW k, NEW s
    PROVE  Get(k, s) \in Nat
  <1>1. Seen(mem, k, s) \subseteq Entry
    BY SeenType
  <1>2. \A i \in DOMAIN imm : Seen(imm[i], k, s) \subseteq Entry
    BY SeenType
  <1>3. SeenIn(current, k, s) \subseteq Entry
    BY SeenInType
  <1>. DEFINE found == IF Seen(mem, k, s) # {} THEN Seen(mem, k, s)
                       ELSE IF UNION {Seen(imm[i], k, s) : i \in DOMAIN imm} # {}
                       THEN UNION {Seen(imm[i], k, s) : i \in DOMAIN imm}
                       ELSE SeenIn(current, k, s)
  <1>4. found \in SUBSET Entry
    BY <1>1, <1>2, <1>3
  <1>5. Get(k, s) = Shown(found)
    BY DEF Get
  <1>. HIDE DEF found
  <1>. QED BY <1>4, <1>5, ShownType

LEMMA EditedType ==
    ASSUME NEW v \in Version, NEW gone, NEW new, \A p \in new : p[2] \in File
    PROVE  Edited(v, gone, new) \in Version
  <1>1. \A l \in Levels : v[l] \subseteq File
    BY VersionData
  <1>2. \A l \in Levels : {f \in v[l] : <<l, f>> \notin gone}
                            \cup {p[2] : p \in {q \in new : q[1] = l}} \in SUBSET File
    BY <1>1
  <1>. QED BY <1>2 DEF Edited, Version

\* The inputs of a compaction are files of their levels.
LEMMA InputsType ==
    ASSUME NEW v, NEW l, NEW F, F \subseteq v[l], NEW in \in Inputs(v, l, F)
    PROVE  in[1] \subseteq v[l] /\ in[2] \subseteq v[l + 1]
  <1>1. \A G : G \subseteq v[l] => WithBoundary(v, l, G) \subseteq v[l]
    BY DEF WithBoundary
  <1>2. \A n, lo, hi : Overlapping(v, n, lo, hi) \subseteq v[n]
    BY DEF Overlapping
  <1>. QED BY <1>1, <1>2 DEF Inputs

LEMMA AutoType ==
    ASSUME NEW l, NEW in \in AutoInputs(current, l)
    PROVE  in[1] \subseteq current[l] /\ in[2] \subseteq current[l + 1]
  <1>1. \A n, lo, hi : Overlapping(current, n, lo, hi) \subseteq current[n]
    BY DEF Overlapping
  <1>2. PICK f \in current[l] :
            in \in Inputs(current, l, IF l = 0 THEN Overlapping(current, 0, Low({f}), High({f}))
                                      ELSE {f})
    BY DEF AutoInputs
  <1>. QED BY <1>1, <1>2, InputsType

LEMMA PicksType ==
    ASSUME NEW l, NEW in \in Picks(l)
    PROVE  in[1] \subseteq current[l] /\ in[2] \subseteq current[l + 1]
  <1>1. \A n, lo, hi : Overlapping(current, n, lo, hi) \subseteq current[n]
    BY DEF Overlapping
  <1>2. ASSUME NEW lo \in Keys, NEW hi \in Keys, in \in ManualInputs(current, l, lo, hi)
        PROVE  in[1] \subseteq current[l] /\ in[2] \subseteq current[l + 1]
    <2>1. PICK F : F \subseteq Overlapping(current, l, lo, hi) /\ in \in Inputs(current, l, F)
      <3>. DEFINE all == Overlapping(current, l, lo, hi)
                  upTo(f) == {g \in all : ~Before(First(f.data), First(g.data))}
      <3>1. PICK F \in (IF l = 0 THEN {all} ELSE {upTo(f) : f \in all}) \ {{}} :
                in \in Inputs(current, l, F)
        BY <1>2 DEF ManualInputs
      <3>2. F \subseteq all
        BY <3>1
      <3>. QED BY <3>1, <3>2
    <2>. QED BY <1>1, <2>1, InputsType
  <1>. QED BY <1>2, AutoType DEF Picks
-----------------------------------------------------------------------------
(* The inductive invariant.  TypeOK does not survive alone: the log being  *)
(* written is not deleted because log_number_ is not behind it, a group is *)
(* part of the queue, and there is a highest sequence number for recovery  *)
(* to find.                                                                *)

WriteTyped == /\ queue \in Seq(Call)
              /\ stage \in {"idle", "append", "sync", "apply"}
              /\ group \in Nat /\ group <= Len(queue)
              /\ mem \in SUBSET Entry
              /\ lastSeq \in Nat
              /\ limbo \in [Keys -> SUBSET Nat]
              /\ kept \in [Keys -> SUBSET Nat]

BackTyped == /\ current \in Version
             /\ minLog \in Nat
             /\ pending \in SUBSET Nat
             /\ flush \in Seq([new : SUBSET File, level : Levels])
             /\ comp \in Seq(Job)
             /\ tables \in SUBSET Nat
             /\ manifest \in SUBSET [files : Version, log : Nat, next : Nat, last : Nat]

RestTyped == /\ imm \in Seq(SUBSET Entry)
             /\ logNumber \in Nat /\ nextFile \in Nat
             /\ bgError \in BOOLEAN
             /\ snaps \in SUBSET Nat /\ iters \in SUBSET Version
             /\ forcing \in SUBSET Nat /\ forced \in Nat
             /\ open \in BOOLEAN
             /\ faults \in Nat /\ starts \in Nat

LogsTyped == /\ DOMAIN logs \in SUBSET Nat
             /\ \A n \in DOMAIN logs : logs[n] \in Log /\ logs[n].firm <= Len(logs[n].recs)
             /\ open => logNumber \in DOMAIN logs

Within(n, log, b) == n <= b /\ \A i \in DOMAIN log.recs : \A e \in log.recs[i] : e.seq <= b
LogsBounded == \E b \in Nat : \A n \in DOMAIN logs : Within(n, logs[n], b)

LogOrder == open => minLog <= logNumber /\ logNumber < nextFile

Typed == WriteTyped /\ BackTyped /\ RestTyped /\ LogsTyped /\ LogsBounded /\ LogOrder
TypeInv == IInv /\ Typed

LEMMA TypeInvTypes == TypeInv => TypeOK
  BY DEF TypeInv, Typed, WriteTyped, BackTyped, RestTyped, LogsTyped, TypeOK

LEMMA LogsStay ==
    ASSUME LogsTyped, LogsBounded, UNCHANGED <<logs, logNumber, open>>
    PROVE  LogsTyped' /\ LogsBounded'
  BY DEF LogsTyped, LogsBounded

\* A record is appended to the log being written.
LEMMA LogsAppend ==
    ASSUME LogsTyped, LogsBounded, open, UNCHANGED <<logNumber, open>>,
           NEW E \in SUBSET Entry, NEW t \in Nat, \A e \in E : e.seq <= t,
           logs' = [logs EXCEPT ![logNumber].recs = Append(@, E)]
    PROVE  LogsTyped' /\ LogsBounded'
  <1>1. PICK b \in Nat : \A n \in DOMAIN logs : Within(n, logs[n], b)
    BY DEF LogsBounded
  <1>2. PICK c \in Nat : c >= b /\ c >= t
    BY <1>1
  <1>3. /\ logNumber \in DOMAIN logs /\ DOMAIN logs' = DOMAIN logs
        /\ logs[logNumber] \in Log
        /\ logs'[logNumber] = [logs[logNumber] EXCEPT !.recs = Append(@, E)]
        /\ \A n \in DOMAIN logs \ {logNumber} : logs'[n] = logs[n]
    BY DEF LogsTyped
  <1>4. PICK r, f : r = logs[logNumber].recs /\ f = logs[logNumber].firm
    OBVIOUS
  <1>5. r \in Seq(SUBSET Entry) /\ f \in Nat /\ f <= Len(r)
    BY <1>3, <1>4 DEF Log, LogsTyped
  <1>6. logs'[logNumber] = [recs |-> Append(r, E), firm |-> f]
    BY <1>3, <1>4 DEF Log
  <1>7. Append(r, E) \in Seq(SUBSET Entry) /\ Len(Append(r, E)) = Len(r) + 1
    BY <1>5, AppendProperties
  <1>8. logs'[logNumber] \in Log /\ logs'[logNumber].firm <= Len(logs'[logNumber].recs)
    <2>1. f <= Len(Append(r, E))
      BY <1>5, <1>7
    <2>2. PICK a : a = Append(r, E)
      OBVIOUS
    <2>3. a \in Seq(SUBSET Entry) /\ logs'[logNumber] = [recs |-> a, firm |-> f] /\ f <= Len(a)
      BY <1>6, <1>7, <2>1, <2>2
    <2>. QED BY <1>5, <2>3 DEF Log
  <1>9. Within(logNumber, logs'[logNumber], c)
    <2>1. logNumber <= b /\ \A i \in 1..Len(r) : \A e \in r[i] : e.seq <= b
      BY <1>1, <1>3, <1>4, <1>5 DEF Within
    <2>2. \A i \in 1..(Len(r) + 1) : Append(r, E)[i] = IF i <= Len(r) THEN r[i] ELSE E
      BY <1>5, AppendProperties
    <2>3. DOMAIN Append(r, E) = 1..(Len(r) + 1)
      BY <1>5, <1>7
    <2>4. \A i \in 1..(Len(r) + 1) : Append(r, E)[i] \in SUBSET Entry
      BY <1>7, <2>3
    <2>5. \A i \in 1..(Len(r) + 1) : \A e \in Append(r, E)[i] : e.seq <= c
      <3>. SUFFICES ASSUME NEW i \in 1..(Len(r) + 1), NEW e \in Append(r, E)[i]
                    PROVE  e.seq <= c
        OBVIOUS
      <3>1. e.seq \in Nat
        BY <2>4 DEF Entry
      <3>2. e.seq <= b \/ e.seq <= t
        BY <1>5, <2>1, <2>2
      <3>. QED BY <1>2, <3>1, <3>2
    <2>6. logNumber \in Nat
      BY <1>3 DEF LogsTyped
    <2>. QED BY <1>2, <1>6, <2>1, <2>3, <2>5, <2>6 DEF Within
  <1>10. \A n \in DOMAIN logs \ {logNumber} : Within(n, logs'[n], c)
    <2>. SUFFICES ASSUME NEW n \in DOMAIN logs \ {logNumber}
                  PROVE  Within(n, logs[n], c)
      BY <1>3
    <2>1. n \in Nat /\ logs[n] \in Log /\ Within(n, logs[n], b)
      BY <1>1 DEF LogsTyped
    <2>2. \A i \in DOMAIN logs[n].recs : logs[n].recs[i] \in SUBSET Entry
      BY <2>1 DEF Log
    <2>. QED BY <1>2, <2>1, <2>2 DEF Within, Entry
  <1>11. LogsTyped'
    BY <1>3, <1>8 DEF LogsTyped
  <1>. QED BY <1>2, <1>3, <1>9, <1>10, <1>11 DEF LogsBounded

\* Logs are kept as they are, cut, or new and empty.
LEMMA LogsShrink ==
    ASSUME LogsTyped, LogsBounded, DOMAIN logs' \in SUBSET Nat, NEW new \in Nat,
           \A n \in DOMAIN logs' :
               \/ n \in DOMAIN logs /\ logs'[n] = logs[n]
               \/ /\ n \in DOMAIN logs
                  /\ \E c \in 0..Len(logs[n].recs) :
                        logs'[n] = [recs |-> SubSeq(logs[n].recs, 1, c), firm |-> c]
               \/ n = new /\ logs'[n] = [recs |-> <<>>, firm |-> 0],
           open' => logNumber' \in DOMAIN logs'
    PROVE  LogsTyped' /\ LogsBounded'
  <1>1. PICK b \in Nat : \A n \in DOMAIN logs : Within(n, logs[n], b)
    BY DEF LogsBounded
  <1>2. PICK c \in Nat : c >= b /\ c >= new
    OBVIOUS
  <1>3. ASSUME NEW n \in DOMAIN logs'
        PROVE  logs'[n] \in Log /\ logs'[n].firm <= Len(logs'[n].recs) /\ Within(n, logs'[n], c)
    <2>1. CASE n \in DOMAIN logs /\ logs'[n] = logs[n]
      <3>1. n \in Nat /\ logs[n] \in Log /\ Within(n, logs[n], b)
        BY <1>1, <2>1 DEF LogsTyped
      <3>2. \A i \in DOMAIN logs[n].recs : logs[n].recs[i] \in SUBSET Entry
        BY <3>1 DEF Log
      <3>3. Within(n, logs[n], c)
        BY <1>2, <3>1, <3>2 DEF Within, Entry
      <3>. QED BY <2>1, <3>3 DEF LogsTyped
    <2>2. ASSUME n \in DOMAIN logs, NEW m \in 0..Len(logs[n].recs),
                 logs'[n] = [recs |-> SubSeq(logs[n].recs, 1, m), firm |-> m]
          PROVE  /\ logs'[n] \in Log /\ logs'[n].firm <= Len(logs'[n].recs)
                 /\ Within(n, logs'[n], c)
      <3>1. PICK r : r = logs[n].recs
        OBVIOUS
      <3>2. r \in Seq(SUBSET Entry) /\ m \in 0..Len(r) /\ n \in Nat
        BY <2>2, <3>1 DEF LogsTyped, Log
      <3>3. PICK s : s = SubSeq(r, 1, m)
        OBVIOUS
      <3>4. s \in Seq(SUBSET Entry) /\ Len(s) = m /\ \A i \in 1..m : s[i] = r[i]
        <4>1. \A i \in 1..m : r[i] \in SUBSET Entry
          BY <3>2
        <4>. QED BY <3>2, <3>3, <4>1, SubSeqProperties
      <3>5. logs'[n] = [recs |-> s, firm |-> m]
        BY <2>2, <3>1, <3>3
      <3>6. n <= b /\ \A i \in 1..Len(r) : \A e \in r[i] : e.seq <= b
        BY <1>1, <2>2, <3>1, <3>2 DEF Within
      <3>7. \A i \in 1..m : \A e \in s[i] : e.seq <= c
        <4>. SUFFICES ASSUME NEW i \in 1..m, NEW e \in r[i]
                      PROVE  e.seq <= c
          BY <3>4
        <4>1. i \in 1..Len(r) /\ r[i] \in SUBSET Entry
          BY <3>2
        <4>2. e.seq \in Nat /\ e.seq <= b
          BY <3>6, <4>1 DEF Entry
        <4>. QED BY <1>2, <4>2
      <3>. QED BY <1>2, <3>2, <3>4, <3>5, <3>6, <3>7 DEF Log, Within
    <2>3. CASE n = new /\ logs'[n] = [recs |-> <<>>, firm |-> 0]
      <3>1. <<>> \in Seq(SUBSET Entry) /\ Len(<<>>) = 0 /\ DOMAIN <<>> = {}
        BY EmptySeq
      <3>. QED BY <1>2, <2>3, <3>1 DEF Log, Within
    <2>. QED BY <2>1, <2>2, <2>3
  <1>. QED BY <1>2, <1>3 DEF LogsTyped, LogsBounded
-----------------------------------------------------------------------------
(* The write path.                                                         *)

LEMMA BackStays ==
    ASSUME BackTyped, UNCHANGED backVars
    PROVE  BackTyped'
  BY DEF BackTyped, backVars

LEMMA ReturnTyped ==
    ASSUME queue \in Seq(Call), forcing \in SUBSET Nat, NEW n \in 0..Len(queue), NEW ok,
           Return(n, ok)
    PROVE  /\ queue' \in Seq(Call) /\ group' = 0 /\ stage' = "idle" /\ Len(queue') \in Nat
           /\ forcing' \in SUBSET Nat
  <1>1. Len(queue) \in Nat /\ \A i \in (n + 1)..Len(queue) : queue[i] \in Call
    OBVIOUS
  <1>2. PICK m, k, C : m = n + 1 /\ k = Len(queue) /\ C = Call
    OBVIOUS
  <1>3. m \in Int /\ k \in Int /\ \A i \in m..k : queue[i] \in C
    BY <1>1, <1>2
  <1>4. SubSeq(queue, m, k) \in Seq(C)
    BY <1>3, SubSeqProperties
  <1>5. queue' \in Seq(Call)
    BY <1>2, <1>4 DEF Return
  <1>6. \A i \in 1..n : queue[i].mark \in Nat
    <2>1. \A i \in 1..Len(queue) : queue[i] \in Call
      OBVIOUS
    <2>2. \A i \in 1..n : i \in 1..Len(queue)
      BY <1>1
    <2>. QED BY <2>1, <2>2 DEF Call
  <1>7. forcing' \in SUBSET Nat
    BY <1>6 DEF Return
  <1>. QED BY <1>5, <1>7 DEF Return

LEMMA CallsType ==
    ASSUME lastSeq \in Nat, NEW c \in Calls
    PROVE  c \in Call
  <1>1. (CHOOSE k \in Keys : TRUE) \in Keys
    BY KeyAssumption
  <1>2. PICK k : k = CHOOSE x \in Keys : TRUE
    OBVIOUS
  <1>3. CASE c \in [op : Ops \cap {"put", "del"}, key : Keys, sync : Syncs, mark : {0}]
    BY <1>3, WriteAssumption DEF Call
  <1>4. CASE c \in [op : Ops \cap {"flush"}, key : {k}, sync : {FALSE}, mark : {lastSeq}]
    BY <1>1, <1>2, <1>4 DEF Call
  <1>. QED BY <1>2, <1>3, <1>4 DEF Calls

LEMMA WriteTypes ==
    ASSUME Typed, NEW c \in Calls, Write(c)
    PROVE  Typed'
  <1>1. c \in Call
    BY CallsType DEF Typed, WriteTyped
  <1>2. /\ queue' = Append(queue, c)
        /\ UNCHANGED <<stage, group, mem, lastSeq, limbo, kept, backVars, readVars, forceVars, imm,
                       logNumber, nextFile, bgError, open, logs, faults, starts>>
    BY DEF Write
  <1>3. queue' \in Seq(Call) /\ Len(queue') = Len(queue) + 1 /\ Len(queue) \in Nat
    BY <1>1, <1>2, AppendProperties DEF Typed, WriteTyped
  <1>4. WriteTyped'
    BY <1>2, <1>3 DEF Typed, WriteTyped
  <1>5. RestTyped'
    BY <1>2 DEF Typed, RestTyped, readVars, forceVars
  <1>6. LogOrder'
    BY <1>2 DEF Typed, LogOrder, backVars
  <1>. QED
    BY <1>2, <1>4, <1>5, <1>6, BackStays, LogsStay DEF Typed

\* A fault counts.
LEMMA FaultType ==
    ASSUME NEW kind, faults \in Nat, Fault(kind) \/ UNCHANGED faults
    PROVE  faults' \in Nat
  BY DEF Fault

\* SwitchMemTable, on its part of the state.
LEMMA SwitchTypes ==
    ASSUME Typed, SwitchMemTable, UNCHANGED <<open, minLog>>
    PROVE  /\ imm' \in Seq(SUBSET Entry) /\ mem' \in SUBSET Entry
           /\ logNumber' \in Nat /\ nextFile' \in Nat
           /\ LogsTyped' /\ LogsBounded' /\ LogOrder'
  <1>1. /\ imm' = <<mem>> /\ mem' = {} /\ logNumber' = nextFile /\ nextFile' = nextFile + 1
        /\ logs' = [n \in DOMAIN logs \cup {nextFile} |->
                      IF n = nextFile THEN [recs |-> <<>>, firm |-> 0] ELSE logs[n]]
    BY DEF SwitchMemTable
  <1>2. mem \in SUBSET Entry /\ nextFile \in Nat /\ DOMAIN logs \in SUBSET Nat
    BY DEF Typed, WriteTyped, RestTyped, LogsTyped
  <1>3. DOMAIN logs' = DOMAIN logs \cup {nextFile}
    BY <1>1
  <1>4. \A n \in DOMAIN logs' : \/ n \in DOMAIN logs /\ logs'[n] = logs[n]
                                \/ n = nextFile /\ logs'[n] = [recs |-> <<>>, firm |-> 0]
    BY <1>1
  <1>5. LogsTyped' /\ LogsBounded'
    BY <1>1, <1>2, <1>3, <1>4, LogsShrink DEF Typed
  <1>6. LogOrder'
    BY <1>1, <1>2 DEF Typed, LogOrder, RestTyped, BackTyped
  <1>7. <<mem>> \in Seq(SUBSET Entry)
    BY <1>2
  <1>. QED BY <1>1, <1>2, <1>5, <1>6, <1>7

LEMMA RefuseTypes ==
    ASSUME Typed, Refuse
    PROVE  Typed'
  <1>1. queue # <<>> /\ Return(1, FALSE) /\ faults' \in Nat
    BY FaultType DEF Refuse, Typed, RestTyped
  <1>2. UNCHANGED <<mem, lastSeq, limbo, kept, backVars, readVars, forced, imm, logNumber,
                    nextFile, bgError, open, logs, starts>>
    BY DEF Refuse
  <1>3. queue \in Seq(Call) /\ forcing \in SUBSET Nat /\ 1 \in 0..Len(queue)
    BY <1>1 DEF Typed, WriteTyped, RestTyped
  <1>4. queue' \in Seq(Call) /\ group' = 0 /\ stage' = "idle" /\ Len(queue') \in Nat
        /\ forcing' \in SUBSET Nat
    BY <1>1, <1>3, ReturnTyped
  <1>5. WriteTyped'
    BY <1>2, <1>4 DEF Typed, WriteTyped
  <1>6. RestTyped' /\ LogOrder'
    BY <1>1, <1>2, <1>4 DEF Typed, RestTyped, LogOrder, readVars, backVars
  <1>. QED BY <1>2, <1>5, <1>6, BackStays, LogsStay DEF Typed

LEMMA LeadTypes ==
    ASSUME Typed, Lead
    PROVE  Typed'
  <1>1. /\ UNCHANGED <<queue, lastSeq, limbo, kept, backVars, readVars, forceVars, bgError, open,
                       faults, starts>>
        /\ group' \in 1..Len(queue) /\ stage' = "append"
    BY DEF Lead, GroupSizes
  <1>2. UNCHANGED <<mem, imm, logNumber, nextFile, logs>> \/ SwitchMemTable
    BY DEF Lead
  <1>3. UNCHANGED minLog
    BY <1>1 DEF backVars
  <1>4. /\ imm' \in Seq(SUBSET Entry) /\ mem' \in SUBSET Entry
        /\ logNumber' \in Nat /\ nextFile' \in Nat
        /\ LogsTyped' /\ LogsBounded' /\ LogOrder'
    <2>1. CASE UNCHANGED <<mem, imm, logNumber, nextFile, logs>>
      <3>1. LogsTyped' /\ LogsBounded'
        BY <1>1, <2>1, LogsStay DEF Typed
      <3>. QED BY <1>1, <1>3, <2>1, <3>1 DEF Typed, WriteTyped, RestTyped, LogOrder
    <2>2. CASE SwitchMemTable
      BY <1>1, <1>3, <2>2, SwitchTypes
    <2>. QED BY <1>2, <2>1, <2>2
  <1>5. WriteTyped'
    <2>1. Len(queue) \in Nat
      BY DEF Typed, WriteTyped
    <2>. QED BY <1>1, <1>4, <2>1 DEF Typed, WriteTyped
  <1>6. RestTyped'
    BY <1>1, <1>4 DEF Typed, RestTyped, readVars, forceVars
  <1>. QED BY <1>1, <1>4, <1>5, <1>6, BackStays DEF Typed

LEMMA LeadFlushTypes ==
    ASSUME Typed, LeadFlush
    PROVE  Typed'
  <1>1. /\ UNCHANGED <<lastSeq, limbo, kept, backVars, readVars, forced, bgError, open, faults, starts>>
        /\ queue # <<>> /\ SwitchMemTable /\ Return(1, TRUE)
    BY DEF LeadFlush
  <1>2. UNCHANGED minLog
    BY <1>1 DEF backVars
  <1>3. /\ imm' \in Seq(SUBSET Entry) /\ mem' \in SUBSET Entry
        /\ logNumber' \in Nat /\ nextFile' \in Nat
        /\ LogsTyped' /\ LogsBounded' /\ LogOrder'
    BY <1>1, <1>2, SwitchTypes
  <1>4. queue \in Seq(Call) /\ forcing \in SUBSET Nat /\ 1 \in 0..Len(queue)
    BY <1>1 DEF Typed, WriteTyped, RestTyped
  <1>5. queue' \in Seq(Call) /\ group' = 0 /\ stage' = "idle" /\ Len(queue') \in Nat
        /\ forcing' \in SUBSET Nat
    BY <1>1, <1>4, ReturnTyped
  <1>6. WriteTyped'
    BY <1>1, <1>3, <1>5 DEF Typed, WriteTyped
  <1>7. RestTyped'
    BY <1>1, <1>3, <1>5 DEF Typed, RestTyped, readVars
  <1>. QED BY <1>1, <1>3, <1>6, <1>7, BackStays DEF Typed

LEMMA BatchType ==
    ASSUME WriteTyped
    PROVE  /\ Batch \in Seq(Call) /\ Len(Batch) = group
           /\ Entries(Batch, lastSeq) \in SUBSET Entry
           /\ \A e \in Entries(Batch, lastSeq) : e.seq \in lastSeq..(lastSeq + group)
  <1>1. queue \in Seq(Call) /\ group \in 0..Len(queue) /\ lastSeq \in Nat
    BY DEF WriteTyped
  <1>2. PICK n, C, s : n = group /\ C = Call /\ s = SubSeq(queue, 1, n)
    OBVIOUS
  <1>3. 1 \in Int /\ n \in Int /\ \A i \in 1..n : queue[i] \in C
    BY <1>1, <1>2
  <1>4. s \in Seq(C) /\ Len(s) = n
    BY <1>1, <1>2, <1>3, SubSeqProperties
  <1>5. Batch = s
    BY <1>2 DEF Batch
  <1>6. /\ Entries(s, lastSeq) \subseteq Entry
        /\ \A e \in Entries(s, lastSeq) : e.seq \in lastSeq..(lastSeq + Len(s))
    BY <1>1, <1>2, <1>4, EntriesType
  <1>. QED BY <1>2, <1>4, <1>5, <1>6

LEMMA AddRecordTypes ==
    ASSUME TypeInv, AddRecord
    PROVE  Typed'
  <1>1. PICK E : E = Entries(Batch, lastSeq)
    OBVIOUS
  <1>2. /\ stage = "append"
        /\ logs' = [logs EXCEPT ![logNumber].recs = Append(@, E)]
        /\ stage' \in {"sync", "apply"}
        /\ limbo' = [k \in Keys |-> limbo[k] \cup ValuesAt(E, k)]
        /\ kept' = [k \in Keys |-> kept[k] \cup ValuesAt(E, k)]
        /\ UNCHANGED <<queue, group, mem, lastSeq, open, backVars, readVars, forceVars, imm,
                       logNumber, nextFile, bgError, faults, starts>>
    BY <1>1 DEF AddRecord
  <1>3. open
    BY <1>2 DEF TypeInv, Typed, RestTyped, IInv, ClosedIsIdle
  <1>4. E \in SUBSET Entry /\ lastSeq + group \in Nat /\ \A e \in E : e.seq <= lastSeq + group
    BY <1>1, BatchType DEF TypeInv, Typed, WriteTyped
  <1>5. LogsTyped' /\ LogsBounded'
    BY <1>2, <1>3, <1>4, LogsAppend DEF TypeInv, Typed
  <1>6. \A k \in Keys : ValuesAt(E, k) \subseteq Nat
    BY <1>4, ValuesType
  <1>7. WriteTyped'
    <2>1. limbo' \in [Keys -> SUBSET Nat]
      BY <1>2, <1>6 DEF TypeInv, Typed, WriteTyped
    <2>2. kept' \in [Keys -> SUBSET Nat]
      BY <1>2, <1>6 DEF TypeInv, Typed, WriteTyped
    <2>. QED BY <1>2, <2>1, <2>2 DEF TypeInv, Typed, WriteTyped
  <1>8. RestTyped' /\ LogOrder'
    BY <1>2 DEF TypeInv, Typed, RestTyped, LogOrder, readVars, forceVars, backVars
  <1>9. BackTyped'
    BY <1>2, BackStays DEF TypeInv, Typed
  <1>. QED BY <1>5, <1>7, <1>8, <1>9 DEF Typed

\* FailBatch and the two steps it is a part of.
LEMMA FailTypes ==
    ASSUME TypeInv, FailBatch, UNCHANGED <<open, logNumber>>, faults' \in Nat, bgError' \in BOOLEAN,
           LogsTyped', LogsBounded'
    PROVE  Typed'
  <1>1. /\ lastSeq' = lastSeq + Count(queue, group) /\ Return(group, FALSE)
        /\ UNCHANGED <<mem, limbo, kept, backVars, readVars, forced, imm, logNumber,
                       nextFile, open, starts>>
    BY DEF FailBatch
  <1>2. queue \in Seq(Call) /\ group \in 0..Len(queue) /\ forcing \in SUBSET Nat /\ group \in Nat
    BY DEF TypeInv, Typed, WriteTyped, RestTyped
  <1>3. queue' \in Seq(Call) /\ group' = 0 /\ stage' = "idle" /\ Len(queue') \in Nat
        /\ forcing' \in SUBSET Nat
    BY <1>1, <1>2, ReturnTyped
  <1>4. lastSeq' \in Nat
    <2>1. Count(queue, group) \in 0..group
      BY <1>2, CountType
    <2>. QED BY <1>1, <1>2, <2>1 DEF TypeInv, Typed, WriteTyped
  <1>5. WriteTyped'
    BY <1>1, <1>3, <1>4 DEF TypeInv, Typed, WriteTyped
  <1>6. RestTyped' /\ LogOrder'
    BY <1>1, <1>3 DEF TypeInv, Typed, RestTyped, LogOrder, readVars, backVars
  <1>7. BackTyped'
    BY <1>1, BackStays DEF TypeInv, Typed
  <1>. QED BY <1>5, <1>6, <1>7 DEF Typed

LEMMA AddRecordFailsTypes ==
    ASSUME TypeInv, AddRecordFails
    PROVE  Typed'
  <1>1. /\ stage = "append" /\ FailBatch /\ UNCHANGED <<bgError, open, logNumber>>
        /\ faults' \in Nat
        /\ \/ logs' = [logs EXCEPT ![logNumber].recs = Append(@, {})]
           \/ UNCHANGED logs
    BY FaultType DEF AddRecordFails, FailBatch, TypeInv, Typed, RestTyped
  <1>2. open
    BY <1>1 DEF TypeInv, Typed, RestTyped, IInv, ClosedIsIdle
  <1>3. LogsTyped' /\ LogsBounded'
    <2>1. CASE logs' = [logs EXCEPT ![logNumber].recs = Append(@, {})]
      <3>1. {} \in SUBSET Entry /\ 0 \in Nat /\ \A e \in {} : e.seq <= 0
        OBVIOUS
      <3>. QED BY <1>1, <1>2, <2>1, <3>1, LogsAppend DEF TypeInv, Typed
    <2>2. CASE UNCHANGED logs
      BY <1>1, <2>2, LogsStay DEF TypeInv, Typed
    <2>. QED BY <1>1, <2>1, <2>2
  <1>4. bgError' \in BOOLEAN
    BY <1>1 DEF TypeInv, Typed, RestTyped
  <1>. QED BY <1>1, <1>3, <1>4, FailTypes

LEMMA SyncFailsTypes ==
    ASSUME TypeInv, SyncFails
    PROVE  Typed'
  <1>1. FailBatch /\ UNCHANGED <<logs, open, logNumber>> /\ faults' \in Nat /\ bgError' \in BOOLEAN
    BY FaultType DEF SyncFails, FailBatch, RecordBackgroundError, TypeInv, Typed, RestTyped
  <1>2. LogsTyped' /\ LogsBounded'
    BY <1>1, LogsStay DEF TypeInv, Typed
  <1>. QED BY <1>1, <1>2, FailTypes

LEMMA SyncTypes ==
    ASSUME TypeInv, Sync
    PROVE  Typed'
  <1>1. /\ stage = "sync" /\ stage' = "apply"
        /\ logs' = [logs EXCEPT ![logNumber].firm = Len(logs[logNumber].recs)]
        /\ UNCHANGED <<queue, group, mem, lastSeq, limbo, kept, backVars, readVars, forceVars,
                       imm, logNumber, nextFile, bgError, open, faults, starts>>
    BY DEF Sync
  <1>2. open
    BY <1>1 DEF TypeInv, Typed, RestTyped, IInv, ClosedIsIdle
  <1>3. LogsTyped' /\ LogsBounded'
    <2>1. PICK r, f : /\ r \in Seq(SUBSET Entry) /\ f \in Nat
                      /\ logs[logNumber] = [recs |-> r, firm |-> f]
      BY <1>2 DEF TypeInv, Typed, LogsTyped, Log
    <2>2. /\ DOMAIN logs' = DOMAIN logs /\ logNumber \in DOMAIN logs
          /\ \A n \in DOMAIN logs \ {logNumber} : logs'[n] = logs[n]
          /\ logs'[logNumber] = [recs |-> r, firm |-> Len(r)]
      BY <1>1, <1>2, <2>1 DEF TypeInv, Typed, LogsTyped
    <2>3. Len(r) \in Nat
      BY <2>1
    <2>4. logs'[logNumber] \in Log /\ logs'[logNumber].firm <= Len(logs'[logNumber].recs)
      BY <2>1, <2>2, <2>3 DEF Log
    <2>5. LogsTyped'
      BY <1>1, <2>2, <2>4 DEF TypeInv, Typed, LogsTyped
    <2>6. \A n, b : Within(n, logs[n], b) /\ n \in DOMAIN logs => Within(n, logs'[n], b)
      BY <2>1, <2>2 DEF Within
    <2>7. LogsBounded'
      BY <2>2, <2>6 DEF TypeInv, Typed, LogsBounded
    <2>. QED BY <2>5, <2>7
  <1>4. WriteTyped' /\ RestTyped' /\ LogOrder'
    BY <1>1 DEF TypeInv, Typed, WriteTyped, RestTyped, LogOrder, readVars, forceVars, backVars
  <1>5. BackTyped'
    BY <1>1, BackStays DEF TypeInv, Typed
  <1>. QED BY <1>3, <1>4, <1>5 DEF Typed

LEMMA ApplyTypes ==
    ASSUME TypeInv, Apply
    PROVE  Typed'
  <1>1. PICK E, S : E = Entries(Batch, lastSeq) /\ S = SyncedEntries(Batch, lastSeq)
    OBVIOUS
  <1>2. /\ mem' = mem \cup E
        /\ lastSeq' = lastSeq + Count(queue, group)
        /\ limbo' = [k \in Keys |-> IF ValuesAt(E, k) = {} THEN limbo[k] ELSE {}]
        /\ kept' = [k \in Keys |-> History!KeptOf(k, E, S)]
        /\ Return(group, TRUE)
        /\ UNCHANGED <<backVars, readVars, forced, imm, logNumber, nextFile, bgError, open,
                       logs, faults, starts>>
    BY <1>1 DEF Apply
  <1>3. E \in SUBSET Entry
    BY <1>1, BatchType DEF TypeInv, Typed
  <1>4. queue \in Seq(Call) /\ group \in 0..Len(queue) /\ forcing \in SUBSET Nat /\ group \in Nat
        /\ lastSeq \in Nat
    BY DEF TypeInv, Typed, WriteTyped, RestTyped
  <1>5. queue' \in Seq(Call) /\ group' = 0 /\ stage' = "idle" /\ Len(queue') \in Nat
        /\ forcing' \in SUBSET Nat
    BY <1>2, <1>4, ReturnTyped
  <1>6. lastSeq' \in Nat
    <2>1. Count(queue, group) \in 0..group
      BY <1>4, CountType
    <2>. QED BY <1>2, <1>4, <2>1
  <1>7. limbo' \in [Keys -> SUBSET Nat]
    BY <1>2 DEF TypeInv, Typed, WriteTyped
  <1>8. kept' \in [Keys -> SUBSET Nat]
    <2>1. \A k \in Keys : History!KeptOf(k, E, S) \subseteq Nat
      BY <1>3, KeptType DEF TypeInv, Typed, WriteTyped
    <2>. QED BY <1>2, <2>1
  <1>9. mem' \in SUBSET Entry
    BY <1>2, <1>3 DEF TypeInv, Typed, WriteTyped
  <1>10. WriteTyped'
    BY <1>5, <1>6, <1>7, <1>8, <1>9 DEF WriteTyped
  <1>11. RestTyped' /\ LogOrder'
    BY <1>2, <1>5 DEF TypeInv, Typed, RestTyped, LogOrder, readVars, backVars
  <1>12. BackTyped' /\ LogsTyped' /\ LogsBounded'
    BY <1>2, BackStays, LogsStay DEF TypeInv, Typed
  <1>. QED BY <1>10, <1>11, <1>12 DEF Typed

LEMMA FlushedTypes ==
    ASSUME TypeInv, Flushed
    PROVE  Typed'
  <1>1. PICK m \in forcing :
            /\ forcing' = forcing \ {m}
            /\ forced' = IF imm = <<>> /\ m > forced THEN m ELSE forced
            /\ UNCHANGED <<writeVars, backVars, readVars, imm, logNumber, nextFile, bgError, open,
                           logs, faults, starts>>
    BY DEF Flushed
  <1>2. WriteTyped' /\ RestTyped' /\ LogOrder'
    BY <1>1 DEF TypeInv, Typed, WriteTyped, RestTyped, LogOrder, writeVars, readVars, backVars
  <1>3. BackTyped' /\ LogsTyped' /\ LogsBounded'
    BY <1>1, BackStays, LogsStay DEF TypeInv, Typed
  <1>. QED BY <1>2, <1>3 DEF Typed

LEMMA WriteStepTypes ==
    ASSUME TypeInv, WriteStep
    PROVE  Typed'
  BY RefuseTypes, LeadTypes, LeadFlushTypes, AddRecordTypes, AddRecordFailsTypes, SyncTypes,
     SyncFailsTypes, ApplyTypes, FlushedTypes DEF WriteStep, TypeInv
-----------------------------------------------------------------------------
(* The background thread.                                                  *)

\* A step of it, from what it changes.
LEMMA BackgroundTypes ==
    ASSUME Typed, UNCHANGED unchangedByBackground, BackTyped',
           imm' \in Seq(SUBSET Entry), nextFile' \in Nat, nextFile <= nextFile',
           bgError' \in BOOLEAN, faults' \in Nat, minLog' <= logNumber,
           \/ UNCHANGED logs
           \/ logs' = [n \in {m \in DOMAIN logs : m >= minLog'} |-> logs[n]]
    PROVE  Typed'
  <1>1. UNCHANGED <<writeVars, readVars, forceVars, logNumber, open, starts>>
    BY DEF unchangedByBackground
  <1>2. WriteTyped'
    BY <1>1 DEF Typed, WriteTyped, writeVars
  <1>3. RestTyped'
    BY <1>1 DEF Typed, RestTyped, readVars, forceVars
  <1>4. LogOrder'
    BY <1>1 DEF Typed, LogOrder, RestTyped
  <1>5. LogsTyped' /\ LogsBounded'
    <2>1. CASE UNCHANGED logs
      BY <1>1, <2>1, LogsStay DEF Typed
    <2>2. CASE logs' = [n \in {m \in DOMAIN logs : m >= minLog'} |-> logs[n]]
      <3>1. DOMAIN logs' = {m \in DOMAIN logs : m >= minLog'}
        BY <2>2
      <3>2. \A n \in DOMAIN logs' : n \in DOMAIN logs /\ logs'[n] = logs[n]
        BY <2>2
      <3>3. DOMAIN logs' \in SUBSET Nat
        BY <3>1 DEF Typed, LogsTyped
      <3>4. open' => logNumber' \in DOMAIN logs'
        BY <1>1, <3>1 DEF Typed, LogsTyped, RestTyped
      <3>. QED BY <3>2, <3>3, <3>4, LogsShrink DEF Typed
    <2>. QED BY <2>1, <2>2
  <1>. QED BY <1>2, <1>3, <1>4, <1>5 DEF Typed

\* A version edit, logged or not.
LEMMA LoggedType ==
    ASSUME BackTyped, RestTyped, WriteTyped, NEW gone, NEW new, \A p \in new : p[2] \in File,
           NEW log \in Nat
    PROVE  \A m \in manifest :
               Logged(m, gone, new, log) \in [files : Version, log : Nat, next : Nat, last : Nat]
  <1>. SUFFICES ASSUME NEW m \in manifest
                PROVE  Logged(m, gone, new, log)
                         \in [files : Version, log : Nat, next : Nat, last : Nat]
    OBVIOUS
  <1>1. m.files \in Version
    BY DEF BackTyped
  <1>2. Edited(m.files, gone, new) \in Version
    BY <1>1, EditedType
  <1>. QED BY <1>2 DEF Logged, RestTyped, WriteTyped

LEMMA EditTypes ==
    ASSUME BackTyped, RestTyped, WriteTyped, NEW gone, NEW new, \A p \in new : p[2] \in File,
           NEW log \in Nat, LogAndApply(gone, new, log) \/ LogFails(gone, new, log)
    PROVE  /\ current' \in Version /\ minLog' \in {log, minLog} /\ minLog' \in Nat
           /\ manifest' \in SUBSET [files : Version, log : Nat, next : Nat, last : Nat]
  <1>1. \A m \in manifest :
            Logged(m, gone, new, log) \in [files : Version, log : Nat, next : Nat, last : Nat]
    BY LoggedType
  <1>2. Edited(current, gone, new) \in Version
    BY EditedType DEF BackTyped
  <1>3. CASE LogAndApply(gone, new, log)
    BY <1>1, <1>2, <1>3 DEF LogAndApply, BackTyped
  <1>4. CASE LogFails(gone, new, log)
    BY <1>1, <1>4 DEF LogFails, BackTyped
  <1>. QED BY <1>3, <1>4

\* What is not deleted was there.
LEMMA DeleteTypes ==
    ASSUME tables \in SUBSET Nat, DeleteObsoleteFiles
    PROVE  /\ tables' \in SUBSET Nat
           /\ \/ UNCHANGED logs
              \/ logs' = [n \in {m \in DOMAIN logs : m >= minLog'} |-> logs[n]]
  BY DEF DeleteObsoleteFiles

LEMMA FlushTypes ==
    ASSUME TypeInv, WriteLevel0Table
    PROVE  Typed'
  <1>1. /\ imm # <<>> /\ nextFile' = nextFile + 1
        /\ UNCHANGED <<unchangedByBackground, current, minLog, pending, comp, manifest, imm, logs>>
    BY DEF WriteLevel0Table
  <1>2. PICK f : f = [num |-> nextFile, data |-> imm[1]]
    OBVIOUS
  <1>3. f \in File
    <2>1. imm[1] \in SUBSET Entry
      BY <1>1 DEF TypeInv, Typed, RestTyped
    <2>. QED BY <1>2, <2>1 DEF File, TypeInv, Typed, RestTyped
  <1>4. /\ \/ UNCHANGED flush
           \/ flush' = <<[new |-> {}, level |-> 0]>>
           \/ \E l \in Levels : flush' = <<[new |-> {f}, level |-> l]>>
        /\ UNCHANGED tables \/ tables' = tables \cup {nextFile}
        /\ bgError' \in BOOLEAN /\ faults' \in Nat
    <2>1. \A lo, hi : PickLevels(current, lo, hi) \subseteq Levels
      BY LevelAssumption DEF PickLevels, Levels
    <2>2. bgError \in BOOLEAN /\ faults \in Nat
      BY DEF TypeInv, Typed, RestTyped
    <2>3. \/ /\ imm[1] = {}
             /\ flush' = <<[new |-> {}, level |-> 0]>>
             /\ UNCHANGED <<tables, bgError, faults>>
          \/ /\ \E l \in PickLevels(current, Low({f}), High({f})) :
                    flush' = <<[new |-> {f}, level |-> l]>>
             /\ tables' = tables \cup {nextFile}
             /\ UNCHANGED <<bgError, faults>>
          \/ Fault("table") /\ RecordBackgroundError /\ UNCHANGED <<flush, tables>>
      BY <1>2 DEF WriteLevel0Table
    <2>4. CASE Fault("table") /\ RecordBackgroundError /\ UNCHANGED <<flush, tables>>
      <3>1. faults' \in Nat
        BY <2>2, <2>4, FaultType
      <3>. QED BY <2>4, <3>1 DEF RecordBackgroundError
    <2>. QED BY <2>1, <2>2, <2>3, <2>4
  <1>5. flush' \in Seq([new : SUBSET File, level : Levels])
    <2>1. [new |-> {}, level |-> 0] \in [new : SUBSET File, level : Levels]
      BY LevelAssumption DEF Levels
    <2>2. \A l \in Levels : [new |-> {f}, level |-> l] \in [new : SUBSET File, level : Levels]
      BY <1>3
    <2>3. \A R, r : r \in R => <<r>> \in Seq(R)
      OBVIOUS
    <2>4. flush \in Seq([new : SUBSET File, level : Levels])
      BY DEF TypeInv, Typed, BackTyped
    <2>5. PICK R : R = [new : SUBSET File, level : Levels]
      OBVIOUS
    <2>6. UNCHANGED flush \/ \E r \in R : flush' = <<r>>
      BY <1>4, <2>1, <2>2, <2>5, Zenon
    <2>7. flush' \in Seq(R)
      BY <2>3, <2>4, <2>5, <2>6, Zenon
    <2>. QED BY <2>5, <2>7
  <1>6. BackTyped'
    BY <1>1, <1>4, <1>5 DEF TypeInv, Typed, BackTyped, RestTyped
  <1>7. nextFile' \in Nat /\ nextFile <= nextFile'
    BY <1>1 DEF TypeInv, Typed, RestTyped
  <1>8. open
    BY <1>1 DEF TypeInv, IInv, ClosedIsIdle
  <1>9. minLog' <= logNumber
    BY <1>1, <1>8 DEF TypeInv, Typed, LogOrder
  <1>. QED
    BY <1>1, <1>4, <1>6, <1>7, <1>9, BackgroundTypes DEF TypeInv, Typed, RestTyped

LEMMA CommitTypes ==
    ASSUME TypeInv, CommitMemTable
    PROVE  Typed'
  <1>1. /\ flush # <<>> /\ flush' = <<>>
        /\ UNCHANGED <<unchangedByBackground, pending, comp, nextFile>>
    BY DEF CommitMemTable
  <1>2. PICK new : new = {<<flush[1].level, f>> : f \in flush[1].new}
    OBVIOUS
  <1>3. \A p \in new : p[2] \in File
    <2>1. flush[1] \in [new : SUBSET File, level : Levels]
      <3>1. \A R, q : q \in Seq(R) /\ q # <<>> => q[1] \in R
        OBVIOUS
      <3>2. flush \in Seq([new : SUBSET File, level : Levels])
        BY DEF TypeInv, Typed, BackTyped
      <3>. QED BY <1>1, <3>1, <3>2, Zenon
    <2>2. flush[1].new \in SUBSET File
      BY <2>1
    <2>. QED BY <1>2, <2>2
  <1>4. \/ /\ LogAndApply({}, new, logNumber)
           /\ imm' = <<>> /\ DeleteObsoleteFiles
           /\ UNCHANGED <<bgError, faults>>
        \/ /\ LogFails({}, new, logNumber)
           /\ Fault("manifest") /\ RecordBackgroundError
           /\ UNCHANGED <<imm, tables, logs>>
    BY <1>2 DEF CommitMemTable
  <1>5. /\ logNumber \in Nat /\ nextFile \in Nat /\ faults \in Nat /\ tables \in SUBSET Nat
        /\ imm \in Seq(SUBSET Entry) /\ bgError \in BOOLEAN /\ minLog \in Nat
    BY DEF TypeInv, Typed, RestTyped, BackTyped
  <1>6. /\ current' \in Version /\ minLog' \in {logNumber, minLog} /\ minLog' \in Nat
        /\ manifest' \in SUBSET [files : Version, log : Nat, next : Nat, last : Nat]
    BY <1>3, <1>4, <1>5, EditTypes DEF TypeInv, Typed
  <1>7. /\ tables' \in SUBSET Nat /\ imm' \in Seq(SUBSET Entry)
        /\ bgError' \in BOOLEAN /\ faults' \in Nat
        /\ \/ UNCHANGED logs
           \/ logs' = [n \in {m \in DOMAIN logs : m >= minLog'} |-> logs[n]]
    <2>1. CASE imm' = <<>> /\ DeleteObsoleteFiles /\ UNCHANGED <<bgError, faults>>
      BY <1>5, <2>1, DeleteTypes
    <2>2. CASE Fault("manifest") /\ RecordBackgroundError /\ UNCHANGED <<imm, tables, logs>>
      <3>1. faults' \in Nat
        BY <1>5, <2>2, FaultType
      <3>. QED BY <1>5, <2>2, <3>1 DEF RecordBackgroundError
    <2>. QED BY <1>4, <2>1, <2>2
  <1>8. BackTyped'
    BY <1>1, <1>6, <1>7 DEF TypeInv, Typed, BackTyped
  <1>9. open
    BY <1>1 DEF TypeInv, IInv, ClosedIsIdle
  <1>10. minLog' <= logNumber
    BY <1>5, <1>6, <1>9 DEF TypeInv, Typed, LogOrder
  <1>. QED
    BY <1>1, <1>5, <1>7, <1>8, <1>10, BackgroundTypes DEF TypeInv

\* The fields of the running compaction.
LEMMA JobType ==
    ASSUME BackTyped, comp # <<>>
    PROVE  /\ comp[1] \in Job
           /\ comp[1].level \in Levels /\ comp[1].in0 \in SUBSET File
           /\ comp[1].in1 \in SUBSET File /\ comp[1].base \in Version
           /\ comp[1].drop \in SUBSET Entry /\ comp[1].todo \in SUBSET Entry
           /\ comp[1].outs \in SUBSET File
  <1>1. \A R, q : q \in Seq(R) /\ q # <<>> => q[1] \in R
    OBVIOUS
  <1>2. comp \in Seq(Job)
    BY DEF BackTyped
  <1>3. comp[1] \in Job
    BY <1>1, <1>2, Zenon
  <1>. QED BY <1>3 DEF Job

LEMMA StartTypes ==
    ASSUME TypeInv, StartCompaction
    PROVE  Typed'
  <1>1. /\ Idle
        /\ UNCHANGED <<unchangedByBackground, current, minLog, pending, flush, tables, manifest, imm,
                       nextFile, bgError, logs, faults>>
    BY DEF StartCompaction
  <1>1a. PICK l \in Levels \ {NumLevels - 1} : \E in \in Picks(l) :
            comp' = <<[level |-> l, in0 |-> in[1], in1 |-> in[2], base |-> current,
                       drop |-> Dropped(current, l, Content(in[1] \cup in[2]), SmallestSnapshot),
                       todo |-> Content(in[1] \cup in[2]), outs |-> {}]>>
    BY DEF StartCompaction
  <1>2. PICK in \in Picks(l) :
            comp' = <<[level |-> l, in0 |-> in[1], in1 |-> in[2], base |-> current,
                       drop |-> Dropped(current, l, Content(in[1] \cup in[2]), SmallestSnapshot),
                       todo |-> Content(in[1] \cup in[2]), outs |-> {}]>>
    BY <1>1a
  <1>3. l \in Levels /\ l + 1 \in Levels /\ current \in Version
    BY LevelAssumption DEF Levels, TypeInv, Typed, BackTyped
  <1>4. in[1] \in SUBSET File /\ in[2] \in SUBSET File
    <2>1. current[l] \subseteq File /\ current[l + 1] \subseteq File
      BY <1>3, VersionData
    <2>2. in[1] \subseteq current[l] /\ in[2] \subseteq current[l + 1]
      BY PicksType
    <2>. QED BY <2>1, <2>2
  <1>5. PICK all : all = Content(in[1] \cup in[2])
    OBVIOUS
  <1>6. all \in SUBSET Entry
    BY <1>4, <1>5 DEF Content, File
  <1>7. PICK drop : drop = Dropped(current, l, all, SmallestSnapshot)
    OBVIOUS
  <1>8. drop \in SUBSET Entry
    BY <1>6, <1>7 DEF Dropped
  <1>9. PICK c : c = [level |-> l, in0 |-> in[1], in1 |-> in[2], base |-> current,
                      drop |-> drop, todo |-> all, outs |-> {}]
    OBVIOUS
  <1>10. c \in Job
    BY <1>3, <1>4, <1>6, <1>8, <1>9 DEF Job
  <1>11. comp' = <<c>>
    BY <1>2, <1>5, <1>7, <1>9
  <1>12. comp' \in Seq(Job)
    BY <1>10, <1>11
  <1>13. BackTyped'
    BY <1>1, <1>12 DEF TypeInv, Typed, BackTyped
  <1>14. minLog' <= logNumber
    BY <1>1 DEF Idle, TypeInv, Typed, LogOrder
  <1>. QED
    BY <1>1, <1>13, <1>14, BackgroundTypes DEF TypeInv, Typed, RestTyped

LEMMA MoveTypes ==
    ASSUME TypeInv, TrivialMove
    PROVE  Typed'
  <1>1. Idle /\ UNCHANGED <<unchangedByBackground, pending, flush, comp, tables, imm, nextFile, logs>>
    BY DEF TrivialMove
  <1>1a. PICK l \in Levels \ {NumLevels - 1} : \E in \in AutoInputs(current, l) :
            LET gone == {<<l, f>> : f \in in[1]}
                new == {<<l + 1, f>> : f \in in[1]}
            IN  \/ LogAndApply(gone, new, minLog) /\ UNCHANGED <<bgError, faults>>
                \/ LogFails(gone, new, minLog) /\ Fault("manifest") /\ RecordBackgroundError
    BY DEF TrivialMove
  <1>2. PICK in \in AutoInputs(current, l) :
            LET gone == {<<l, f>> : f \in in[1]}
                new == {<<l + 1, f>> : f \in in[1]}
            IN  \/ LogAndApply(gone, new, minLog) /\ UNCHANGED <<bgError, faults>>
                \/ LogFails(gone, new, minLog) /\ Fault("manifest") /\ RecordBackgroundError
    BY <1>1a
  <1>3. PICK gone, new : gone = {<<l, f>> : f \in in[1]} /\ new = {<<l + 1, f>> : f \in in[1]}
    OBVIOUS
  <1>4. \/ LogAndApply(gone, new, minLog) /\ UNCHANGED <<bgError, faults>>
        \/ LogFails(gone, new, minLog) /\ Fault("manifest") /\ RecordBackgroundError
    BY <1>2, <1>3
  <1>5. \A p \in new : p[2] \in File
    <2>1. current[l] \subseteq File
      BY VersionData DEF TypeInv, Typed, BackTyped
    <2>2. in[1] \subseteq current[l]
      BY AutoType
    <2>. QED BY <1>3, <2>1, <2>2
  <1>6. /\ faults \in Nat /\ bgError \in BOOLEAN /\ minLog \in Nat
    BY DEF TypeInv, Typed, RestTyped, BackTyped
  <1>7. /\ current' \in Version /\ minLog' = minLog /\ minLog' \in Nat
        /\ manifest' \in SUBSET [files : Version, log : Nat, next : Nat, last : Nat]
    BY <1>4, <1>5, <1>6, EditTypes DEF TypeInv, Typed
  <1>8. bgError' \in BOOLEAN /\ faults' \in Nat
    <2>1. CASE UNCHANGED <<bgError, faults>>
      BY <1>6, <2>1
    <2>2. CASE Fault("manifest") /\ RecordBackgroundError
      <3>1. faults' \in Nat
        BY <1>6, <2>2, FaultType
      <3>. QED BY <2>2, <3>1 DEF RecordBackgroundError
    <2>. QED BY <1>4, <2>1, <2>2
  <1>9. BackTyped'
    BY <1>1, <1>7 DEF TypeInv, Typed, BackTyped
  <1>10. minLog' <= logNumber
    BY <1>1, <1>7 DEF Idle, TypeInv, Typed, LogOrder
  <1>. QED
    BY <1>1, <1>8, <1>9, <1>10, BackgroundTypes DEF TypeInv, Typed, RestTyped

LEMMA OutputTypes ==
    ASSUME TypeInv, WriteOutput
    PROVE  Typed'
  <1>1. /\ comp # <<>>
        /\ UNCHANGED <<unchangedByBackground, current, minLog, flush, manifest, imm, logs>>
    BY DEF WriteOutput
  <1>2. PICK e \in comp[1].todo :
          LET done == {d \in comp[1].todo : ~Before(e, d)}
              f == [num |-> nextFile, data |-> done \ comp[1].drop]
          IN  IF f.data = {}
              THEN /\ comp' = <<[comp[1] EXCEPT !.todo = @ \ done]>>
                   /\ UNCHANGED <<pending, tables, nextFile, bgError, faults>>
              ELSE /\ nextFile' = nextFile + 1
                   /\ \/ /\ comp' = <<[comp[1] EXCEPT !.todo = @ \ done, !.outs = @ \cup {f}]>>
                         /\ pending' = pending \cup {nextFile}
                         /\ tables' = tables \cup {nextFile}
                         /\ UNCHANGED <<bgError, faults>>
                      \/ /\ Fault("table")
                         /\ RecordBackgroundError
                         /\ CleanupCompaction
                         /\ UNCHANGED tables
    BY DEF WriteOutput
  <1>3. PICK done, f : /\ done = {d \in comp[1].todo : ~Before(e, d)}
                       /\ f = [num |-> nextFile, data |-> done \ comp[1].drop]
    OBVIOUS
  <1>4. \/ /\ comp' = <<[comp[1] EXCEPT !.todo = @ \ done]>>
           /\ UNCHANGED <<pending, tables, nextFile, bgError, faults>>
        \/ /\ nextFile' = nextFile + 1
           /\ comp' = <<[comp[1] EXCEPT !.todo = @ \ done, !.outs = @ \cup {f}]>>
           /\ pending' = pending \cup {nextFile}
           /\ tables' = tables \cup {nextFile}
           /\ UNCHANGED <<bgError, faults>>
        \/ /\ nextFile' = nextFile + 1
           /\ Fault("table") /\ RecordBackgroundError /\ CleanupCompaction
           /\ UNCHANGED tables
    BY <1>2, <1>3, Zenon
  <1>5. /\ nextFile \in Nat /\ faults \in Nat /\ bgError \in BOOLEAN
        /\ pending \in SUBSET Nat /\ tables \in SUBSET Nat
    BY DEF TypeInv, Typed, RestTyped, BackTyped
  <1>6. PICK c : c = comp[1]
    OBVIOUS
  <1>7. c \in Job /\ c.todo \in SUBSET Entry /\ c.outs \in SUBSET File
    BY <1>1, <1>6, JobType DEF TypeInv, Typed
  <1>8. f \in File
    BY <1>3, <1>5, <1>6, <1>7 DEF File
  <1>9. /\ [c EXCEPT !.todo = @ \ done] \in Job
        /\ [c EXCEPT !.todo = @ \ done, !.outs = @ \cup {f}] \in Job
    BY <1>7, <1>8 DEF Job
  <1>10. comp' \in Seq(Job)
    <2>1. \A r \in Job : <<r>> \in Seq(Job)
      OBVIOUS
    <2>2. comp' = <<>> \/ \E r \in Job : comp' = <<r>>
      BY <1>4, <1>6, <1>9 DEF CleanupCompaction
    <2>3. <<>> \in Seq(Job)
      OBVIOUS
    <2>. QED BY <2>1, <2>2, <2>3, Zenon
  <1>11. pending' \in SUBSET Nat /\ tables' \in SUBSET Nat /\ nextFile' \in Nat
         /\ nextFile <= nextFile'
    BY <1>4, <1>5 DEF CleanupCompaction
  <1>12. bgError' \in BOOLEAN /\ faults' \in Nat
    <2>1. CASE UNCHANGED <<bgError, faults>>
      BY <1>5, <2>1
    <2>2. CASE Fault("table") /\ RecordBackgroundError
      <3>1. faults' \in Nat
        BY <1>5, <2>2, FaultType
      <3>. QED BY <2>2, <3>1 DEF RecordBackgroundError
    <2>. QED BY <1>4, <2>1, <2>2
  <1>13. BackTyped'
    BY <1>1, <1>10, <1>11 DEF TypeInv, Typed, BackTyped
  <1>14. open
    BY <1>1 DEF TypeInv, IInv, ClosedIsIdle
  <1>15. minLog' <= logNumber
    BY <1>1, <1>14 DEF TypeInv, Typed, LogOrder
  <1>. QED
    BY <1>1, <1>11, <1>12, <1>13, <1>15, BackgroundTypes DEF TypeInv, Typed, RestTyped

LEMMA InstallTypes ==
    ASSUME TypeInv, Install
    PROVE  Typed'
  <1>1. /\ comp # <<>> /\ comp' = <<>> /\ pending' = {}
        /\ UNCHANGED <<unchangedByBackground, flush, imm, nextFile>>
    BY DEF Install, CleanupCompaction
  <1>2. PICK gone, new :
            /\ gone = {<<comp[1].level, f>> : f \in comp[1].in0}
                        \cup {<<comp[1].level + 1, f>> : f \in comp[1].in1}
            /\ new = {<<comp[1].level + 1, f>> : f \in comp[1].outs}
    OBVIOUS
  <1>3. \/ /\ LogAndApply(gone, new, minLog)
           /\ DeleteObsoleteFiles
           /\ UNCHANGED <<bgError, faults>>
        \/ /\ LogFails(gone, new, minLog)
           /\ Fault("manifest") /\ RecordBackgroundError
           /\ UNCHANGED <<tables, logs>>
    BY <1>2 DEF Install
  <1>4. \A p \in new : p[2] \in File
    <2>1. comp[1].outs \in SUBSET File
      BY <1>1, JobType DEF TypeInv, Typed
    <2>. QED BY <1>2, <2>1
  <1>5. /\ nextFile \in Nat /\ faults \in Nat /\ tables \in SUBSET Nat
        /\ imm \in Seq(SUBSET Entry) /\ bgError \in BOOLEAN /\ minLog \in Nat
    BY DEF TypeInv, Typed, RestTyped, BackTyped
  <1>6. /\ current' \in Version /\ minLog' = minLog /\ minLog' \in Nat
        /\ manifest' \in SUBSET [files : Version, log : Nat, next : Nat, last : Nat]
    BY <1>3, <1>4, <1>5, EditTypes DEF TypeInv, Typed
  <1>7. /\ tables' \in SUBSET Nat /\ bgError' \in BOOLEAN /\ faults' \in Nat
        /\ \/ UNCHANGED logs
           \/ logs' = [n \in {m \in DOMAIN logs : m >= minLog'} |-> logs[n]]
    <2>1. CASE DeleteObsoleteFiles /\ UNCHANGED <<bgError, faults>>
      BY <1>5, <2>1, DeleteTypes
    <2>2. CASE Fault("manifest") /\ RecordBackgroundError /\ UNCHANGED <<tables, logs>>
      <3>1. faults' \in Nat
        BY <1>5, <2>2, FaultType
      <3>. QED BY <1>5, <2>2, <3>1 DEF RecordBackgroundError
    <2>. QED BY <1>3, <2>1, <2>2
  <1>8. <<>> \in Seq(Job)
    OBVIOUS
  <1>9. BackTyped'
    BY <1>1, <1>6, <1>7, <1>8 DEF TypeInv, Typed, BackTyped
  <1>10. open
    BY <1>1 DEF TypeInv, IInv, ClosedIsIdle
  <1>11. minLog' <= logNumber
    BY <1>6, <1>10 DEF TypeInv, Typed, LogOrder
  <1>. QED
    BY <1>1, <1>5, <1>7, <1>9, <1>11, BackgroundTypes DEF TypeInv

LEMMA BackgroundStepTypes ==
    ASSUME TypeInv, BackgroundStep
    PROVE  Typed'
  BY FlushTypes, CommitTypes, StartTypes, MoveTypes, OutputTypes, InstallTypes DEF BackgroundStep
-----------------------------------------------------------------------------
(* Snapshots and iterators, a stop and a recovery.                         *)

LEMMA ReaderTypes ==
    ASSUME Typed, GetSnapshot \/ ReleaseSnapshot \/ NewIterator \/ DeleteIterator
    PROVE  Typed'
  <1>1. /\ UNCHANGED unchangedByReaders
        /\ \/ UNCHANGED iters /\ (snaps' = snaps \cup {lastSeq} \/ snaps' \subseteq snaps)
           \/ UNCHANGED snaps /\ (iters' = iters \cup {current} \/ iters' \subseteq iters)
    BY DEF GetSnapshot, ReleaseSnapshot, NewIterator, DeleteIterator
  <1>2. snaps' \in SUBSET Nat /\ iters' \in SUBSET Version
    BY <1>1 DEF Typed, RestTyped, WriteTyped, BackTyped
  <1>3. WriteTyped' /\ BackTyped' /\ LogOrder'
    BY <1>1 DEF Typed, WriteTyped, BackTyped, LogOrder, unchangedByReaders, writeVars, backVars
  <1>4. RestTyped'
    BY <1>1, <1>2 DEF Typed, RestTyped, unchangedByReaders, forceVars
  <1>5. LogsTyped' /\ LogsBounded'
    BY <1>1, LogsStay DEF Typed, unchangedByReaders
  <1>. QED BY <1>3, <1>4, <1>5 DEF Typed

LEMMA StopTypes ==
    ASSUME Typed, Stop
    PROVE  Typed'
  <1>1. PICK machine \in BOOLEAN :
            /\ logs' \in Cut(machine)
            /\ kept' = IF machine THEN kept
                       ELSE [k \in Keys |-> {Get(k, lastSeq)} \cup limbo[k]]
    BY DEF Stop
  <1>2. kept' \in [Keys -> SUBSET Nat]
    <2>1. kept \in [Keys -> SUBSET Nat] /\ limbo \in [Keys -> SUBSET Nat]
      BY DEF Typed, WriteTyped
    <2>2. \A k \in Keys : Get(k, lastSeq) \in Nat
      BY GetType DEF Typed, WriteTyped, RestTyped, BackTyped
    <2>. QED BY <1>1, <2>1, <2>2
  <1>3. LogsTyped' /\ LogsBounded'
    <2>1. PICK c \in [DOMAIN logs -> 0..MaxSeq] :
              /\ \A n \in DOMAIN logs :
                    c[n] \in (IF machine THEN logs[n].firm ELSE Len(logs[n].recs))
                             ..Len(logs[n].recs)
              /\ logs' = [n \in DOMAIN logs |->
                            [recs |-> SubSeq(logs[n].recs, 1, c[n]), firm |-> c[n]]]
      BY <1>1 DEF Cut
    <2>2. DOMAIN logs' = DOMAIN logs /\ DOMAIN logs \in SUBSET Nat /\ 0 \in Nat
      BY <2>1 DEF Typed, LogsTyped
    <2>3. ASSUME NEW n \in DOMAIN logs
          PROVE  \E d \in 0..Len(logs[n].recs) :
                    logs'[n] = [recs |-> SubSeq(logs[n].recs, 1, d), firm |-> d]
      <3>1. Len(logs[n].recs) \in Nat /\ c[n] \in Nat
        BY WriteAssumption DEF Typed, LogsTyped, Log
      <3>2. c[n] <= Len(logs[n].recs)
        BY <2>1
      <3>3. PICK d : d = c[n]
        OBVIOUS
      <3>4. logs'[n] = [recs |-> SubSeq(logs[n].recs, 1, d), firm |-> d]
        BY <2>1, <3>3, Zenon
      <3>5. d \in 0..Len(logs[n].recs)
        BY <3>1, <3>2, <3>3
      <3>. QED BY <3>4, <3>5
    <2>4. ~open'
      BY DEF Stop
    <2>. QED BY <2>2, <2>3, <2>4, LogsShrink DEF Typed
  <1>4. NoFiles \in Version
    BY DEF NoFiles, Version
  <1>5. WriteTyped'
    <2>1. <<>> \in Seq(Call) /\ Len(<<>>) = 0
      OBVIOUS
    <2>. QED BY <1>2, <2>1 DEF Stop, WriteTyped
  <1>6. BackTyped'
    BY <1>4 DEF Stop, BackTyped, Typed
  <1>7. RestTyped'
    <2>1. /\ imm' = <<>> /\ logNumber' = 0 /\ nextFile' = 0 /\ bgError' = FALSE
          /\ snaps' = {} /\ iters' = {} /\ forcing' = {} /\ forced' = 0 /\ open' = FALSE
          /\ UNCHANGED <<faults, starts>>
      BY DEF Stop
    <2>2. imm' \in Seq(SUBSET Entry)
      BY <2>1
    <2>. QED BY <2>1, <2>2 DEF RestTyped, Typed
  <1>8. LogOrder'
    BY DEF Stop, LogOrder
  <1>. QED BY <1>3, <1>5, <1>6, <1>7, <1>8 DEF Typed

\* RecoverLogs, taken apart: the logs it reads, in their order, and what a
\* recovery has read and written behind log n when it had p.
Todo(m) == {n \in DOMAIN logs : n >= m.log}
Nth(m, i) == CHOOSE n \in Todo(m) : Cardinality({x \in Todo(m) : x <= n}) = i
Behind(p, n) ==
    LET D == Readable(logs[n].recs)
    IN  IF D = {} THEN [p EXCEPT !.next = Maximum(@, n + 1)]
        ELSE [files |-> Edited(p.files, {}, {<<0, [num |-> p.next, data |-> D]>>}),
              next |-> Maximum(p.next + 1, n + 1),
              last |-> Maximum(p.last, HighestSeq(D))]
IsRecovered(f, m, k) ==
    f = [i \in 0..k |-> IF i = 0 THEN [files |-> m.files, next |-> m.next + 1, last |-> m.last]
                        ELSE Behind(f[i - 1], Nth(m, i))]

LEMMA RecoveredExists ==
    ASSUME NEW m, NEW c \in Nat
    PROVE  \E f : IsRecovered(f, m, c)
  <1>. DEFINE base == [files |-> m.files, next |-> m.next + 1, last |-> m.last]
              Bad == {k \in Nat : ~ \E f : IsRecovered(f, m, k)}
  <1>1. SUFFICES ASSUME Bad # {} PROVE FALSE
    OBVIOUS
  <1>2. PICK k \in Bad : \A j \in Bad : k <= j
    <2>1. Bad \in SUBSET Nat
      OBVIOUS
    <2>. HIDE DEF Bad
    <2>. QED BY <1>1, <2>1, LeastNumber
  <1>3. k # 0
    <2>1. IsRecovered([i \in 0..0 |-> base], m, 0)
      BY DEF IsRecovered
    <2>. QED BY <1>2, <2>1
  <1>4. PICK f : IsRecovered(f, m, k - 1)
    BY <1>2, <1>3
  <1>5. PICK g : g = [i \in 0..k |-> IF i = k THEN Behind(f[k - 1], Nth(m, k)) ELSE f[i]]
    OBVIOUS
  <1>6. k \in Nat /\ \A i \in 0..(k - 1) : g[i] = f[i]
    BY <1>2, <1>5
  <1>7. \A i \in 0..(k - 1) : f[i] = IF i = 0 THEN base ELSE Behind(f[i - 1], Nth(m, i))
    BY <1>4 DEF IsRecovered
  <1>8. ASSUME NEW i \in 0..k
        PROVE  g[i] = IF i = 0 THEN base ELSE Behind(g[i - 1], Nth(m, i))
    <2>. HIDE DEF base
    <2>1. i # 0 => i - 1 \in 0..(k - 1) /\ g[i - 1] = f[i - 1]
      BY <1>6
    <2>2. CASE i = k
      BY <1>3, <1>5, <1>6, <2>1, <2>2
    <2>3. CASE i # k
      <3>1. i \in 0..(k - 1)
        BY <1>6, <2>3
      <3>. QED BY <1>6, <1>7, <2>1, <3>1
    <2>. QED BY <2>2, <2>3
  <1>9. IsRecovered(g, m, k)
    BY <1>5, <1>8 DEF IsRecovered
  <1>. QED BY <1>2, <1>9

LEMMA RecoverUnfolds ==
    ASSUME NEW m, Cardinality(Todo(m)) \in Nat
    PROVE  \E f : /\ RecoverLogs(m) = f[Cardinality(Todo(m))]
                  /\ f[0] = [files |-> m.files, next |-> m.next + 1, last |-> m.last]
                  /\ \A i \in 1..Cardinality(Todo(m)) : f[i] = Behind(f[i - 1], Nth(m, i))
  <1>. DEFINE c == Cardinality(Todo(m))
              f == CHOOSE g : IsRecovered(g, m, c)
  <1>1. IsRecovered(f, m, c)
    BY RecoveredExists
  <1>2. RecoverLogs(m) = f[c]
    BY DEF RecoverLogs, IsRecovered, Todo, Nth, Behind
  <1>. HIDE DEF f
  <1>3. c \in Nat /\ \A i \in 0..c :
            f[i] = IF i = 0 THEN [files |-> m.files, next |-> m.next + 1, last |-> m.last]
                   ELSE Behind(f[i - 1], Nth(m, i))
    BY <1>1 DEF IsRecovered
  <1>4. 0 \in 0..c /\ \A i \in 1..c : i \in 0..c /\ i # 0
    BY <1>3
  <1>. QED BY <1>2, <1>3, <1>4

\* What a recovery has read and written: the table files, the next number, the last one.
Found == [files : Version, next : Nat, last : Nat]

LEMMA ReadableType ==
    ASSUME LogsTyped, NEW n \in DOMAIN logs
    PROVE  /\ Readable(logs[n].recs) \in SUBSET Entry
           /\ \A e \in Readable(logs[n].recs) :
                  \E i \in DOMAIN logs[n].recs : e \in logs[n].recs[i]
  <1>1. \A i \in DOMAIN logs[n].recs : logs[n].recs[i] \in SUBSET Entry
    BY DEF LogsTyped, Log
  <1>. QED BY <1>1 DEF Readable

LEMMA HighestType ==
    ASSUME NEW D \in SUBSET Entry, D # {}, NEW b \in Nat, \A e \in D : e.seq <= b
    PROVE  /\ HighestSeq(D) \in Nat
           /\ HighestSeq(D) <= b
           /\ \A e \in D : e.seq <= HighestSeq(D)
  <1>. DEFINE S == {e.seq : e \in D}
  <1>1. S \in SUBSET (0..b) /\ S # {}
    BY DEF Entry
  <1>2. PICK s \in S : \A t \in S : t <= s
    <2>. HIDE DEF S
    <2>. QED BY <1>1, GreatestNumber
  <1>3. \A e \in D : e.seq <= s
    BY <1>2
  <1>4. HighestSeq(D) \in S /\ \A e \in D : e.seq <= HighestSeq(D)
    BY <1>2, <1>3 DEF HighestSeq
  <1>. QED BY <1>1, <1>4

LEMMA BehindType ==
    ASSUME LogsTyped, LogsBounded, NEW p \in Found, NEW n \in DOMAIN logs
    PROVE  Behind(p, n) \in Found
  <1>1. PICK b \in Nat : Within(n, logs[n], b)
    BY DEF LogsBounded
  <1>2. PICK D : D = Readable(logs[n].recs)
    OBVIOUS
  <1>3. D \in SUBSET Entry /\ \A e \in D : e.seq <= b
    BY <1>1, <1>2, ReadableType DEF Within
  <1>4. n \in Nat /\ p.files \in Version /\ p.next \in Nat /\ p.last \in Nat
    BY DEF LogsTyped, Found
  <1>5. \A x \in Nat, y \in Nat : Maximum(x, y) \in Nat
    BY DEF Maximum
  <1>6. CASE D = {}
    BY <1>2, <1>4, <1>5, <1>6 DEF Behind, Found
  <1>7. CASE D # {}
    <2>1. HighestSeq(D) \in Nat
      BY <1>3, <1>7, HighestType
    <2>2. PICK new : new = {<<0, [num |-> p.next, data |-> D]>>}
      OBVIOUS
    <2>3. \A q \in new : q[2] \in File
      BY <1>3, <1>4, <2>2 DEF File
    <2>4. Edited(p.files, {}, new) \in Version
      BY <1>4, <2>3, EditedType
    <2>5. Behind(p, n) = [files |-> Edited(p.files, {}, new),
                          next |-> Maximum(p.next + 1, n + 1),
                          last |-> Maximum(p.last, HighestSeq(D))]
      BY <1>2, <1>7, <2>2 DEF Behind
    <2>6. Maximum(p.next + 1, n + 1) \in Nat /\ Maximum(p.last, HighestSeq(D)) \in Nat
      <3>1. p.next + 1 \in Nat /\ n + 1 \in Nat
        BY <1>4
      <3>. QED BY <1>4, <1>5, <2>1, <3>1, Zenon
    <2>. QED BY <2>4, <2>5, <2>6 DEF Found
  <1>. QED BY <1>6, <1>7

\* The logs are finitely many, and the i-th of those to read is one of them.
LEMMA NthType ==
    ASSUME LogsTyped, LogsBounded, NEW m
    PROVE  /\ Cardinality(Todo(m)) \in Nat
           /\ \A i \in 1..Cardinality(Todo(m)) :
                  Nth(m, i) \in Todo(m) /\ Rank(Todo(m), Nth(m, i)) = i
  <1>1. PICK b \in Nat : \A n \in DOMAIN logs : Within(n, logs[n], b)
    BY DEF LogsBounded
  <1>2. Todo(m) \in SUBSET (0..b)
    BY <1>1 DEF Todo, LogsTyped, Within
  <1>3. IsFiniteSet(Todo(m)) /\ Cardinality(Todo(m)) \in Nat
    <2>1. IsFiniteSet(0..b)
      BY <1>1, FS_Interval
    <2>2. IsFiniteSet(Todo(m))
      BY <1>2, <2>1, FS_Subset
    <2>. QED BY <2>2, FS_CardinalityType
  <1>4. Todo(m) \in SUBSET Nat
    BY <1>1, <1>2
  <1>5. ASSUME NEW i \in 1..Cardinality(Todo(m))
        PROVE  Nth(m, i) \in Todo(m) /\ Rank(Todo(m), Nth(m, i)) = i
    <2>1. \E n \in Todo(m) : Rank(Todo(m), n) = i
      BY <1>3, <1>4, RankedBy
    <2>. QED BY <2>1 DEF Nth, Rank
  <1>. QED BY <1>3, <1>5

LEMMA RecoverType ==
    ASSUME LogsTyped, LogsBounded,
           NEW m \in [files : Version, log : Nat, next : Nat, last : Nat]
    PROVE  RecoverLogs(m) \in Found
  <1>1. PICK c : c = Cardinality(Todo(m))
    OBVIOUS
  <1>2. c \in Nat /\ \A i \in 1..c : Nth(m, i) \in DOMAIN logs
    BY <1>1, NthType DEF Todo
  <1>3. PICK f : /\ RecoverLogs(m) = f[c]
                 /\ f[0] = [files |-> m.files, next |-> m.next + 1, last |-> m.last]
                 /\ \A i \in 1..c : f[i] = Behind(f[i - 1], Nth(m, i))
    BY <1>1, <1>2, RecoverUnfolds
  <1>. DEFINE P == {i \in Nat : f[i] \in Found}
  <1>4. 0 \in P
    BY <1>3 DEF Found
  <1>5. \A i \in 1..c : i - 1 \in P => i \in P
    BY <1>2, <1>3, BehindType
  <1>6. \A i \in 0..c : i \in P
    <2>. HIDE DEF P
    <2>. QED BY <1>2, <1>4, <1>5, UpTo
  <1>. QED BY <1>2, <1>3, <1>6

LEMMA OpenTypes ==
    ASSUME Typed, Open
    PROVE  Typed'
  <1>1. PICK m \in manifest :
            /\ current' = RecoverLogs(m).files
            /\ lastSeq' = RecoverLogs(m).last
            /\ logNumber' = RecoverLogs(m).next /\ minLog' = RecoverLogs(m).next
            /\ nextFile' = RecoverLogs(m).next + 1
            /\ logs' = [n \in {RecoverLogs(m).next} |-> [recs |-> <<>>, firm |-> 0]]
            /\ tables' = Numbers(FilesOf(RecoverLogs(m).files))
            /\ manifest' = {[files |-> RecoverLogs(m).files, log |-> RecoverLogs(m).next,
                             next |-> RecoverLogs(m).next + 1, last |-> RecoverLogs(m).last]}
    BY DEF Open
  <1>2. PICK r : r = RecoverLogs(m)
    OBVIOUS
  <1>3. r.files \in Version /\ r.next \in Nat /\ r.last \in Nat
    <2>1. r \in Found
      BY <1>2, RecoverType DEF Typed, BackTyped
    <2>. QED BY <2>1 DEF Found
  <1>4. /\ kept' = [k \in Keys |-> {Shown(SeenIn(current', k, lastSeq'))}]
        /\ open' = TRUE /\ starts' = starts + 1
        /\ UNCHANGED <<queue, stage, group, mem, imm, pending, flush, comp, bgError, readVars,
                       forceVars, limbo, faults>>
    BY DEF Open
  <1>5. kept' \in [Keys -> SUBSET Nat]
    <2>1. PICK v : v = r.files
      OBVIOUS
    <2>2. v \in Version /\ current' = v
      BY <1>1, <1>2, <1>3, <2>1
    <2>3. \A k \in Keys : Shown(SeenIn(v, k, lastSeq')) \in Nat
      BY <2>2, SeenInType, ShownType
    <2>. QED BY <1>4, <2>2, <2>3
  <1>6. WriteTyped'
    BY <1>1, <1>2, <1>3, <1>4, <1>5 DEF Typed, WriteTyped
  <1>7. BackTyped'
    <2>1. Numbers(FilesOf(r.files)) \in SUBSET Nat
      BY <1>3, VersionData DEF Numbers, FilesOf, File
    <2>2. PICK n, T, v, t : /\ n = r.next /\ T = Numbers(FilesOf(r.files)) /\ v = r.files
                            /\ t = r.last
      OBVIOUS
    <2>3. n \in Nat /\ n + 1 \in Nat /\ T \in SUBSET Nat /\ v \in Version /\ t \in Nat
      BY <1>3, <2>1, <2>2
    <2>4. /\ current' = v /\ minLog' = n /\ tables' = T
          /\ manifest' = {[files |-> v, log |-> n, next |-> n + 1, last |-> t]}
      BY <1>1, <1>2, <2>2, Zenon
    <2>. QED BY <1>4, <2>3, <2>4 DEF Typed, BackTyped
  <1>8. RestTyped' /\ LogOrder'
    BY <1>1, <1>2, <1>3, <1>4 DEF Typed, RestTyped, LogOrder, readVars, forceVars
  <1>9. LogsTyped' /\ LogsBounded'
    <2>1. DOMAIN logs' = {r.next} /\ logs'[r.next] = [recs |-> <<>>, firm |-> 0]
      BY <1>1, <1>2
    <2>2. \A n \in DOMAIN logs' : n = r.next /\ logs'[n] = [recs |-> <<>>, firm |-> 0]
      BY <2>1
    <2>3. open' => logNumber' \in DOMAIN logs'
      BY <1>1, <1>2, <2>1
    <2>. QED BY <1>3, <2>1, <2>2, <2>3, LogsShrink DEF Typed
  <1>. QED BY <1>6, <1>7, <1>8, <1>9 DEF Typed
-----------------------------------------------------------------------------
LEMMA InitTyped == ASSUME Init PROVE TypeInv
  <1>1. IInv
    BY InitHolds
  <1>2. NoFiles \in Version
    BY DEF NoFiles, Version
  <1>3. WriteTyped
    <2>1. <<>> \in Seq(Call) /\ Len(<<>>) = 0
      OBVIOUS
    <2>. QED BY <2>1 DEF Init, WriteTyped
  <1>4. BackTyped
    <2>1. <<>> \in Seq(Job) /\ <<>> \in Seq([new : SUBSET File, level : Levels])
      OBVIOUS
    <2>. QED BY <1>2, <2>1 DEF Init, BackTyped
  <1>5. RestTyped
    <2>1. <<>> \in Seq(SUBSET Entry)
      OBVIOUS
    <2>. QED BY <2>1 DEF Init, RestTyped
  <1>6. DOMAIN logs = {3} /\ logs[3] = [recs |-> <<>>, firm |-> 0] /\ logNumber = 3
    BY DEF Init
  <1>7. LogsTyped
    <2>1. <<>> \in Seq(SUBSET Entry) /\ Len(<<>>) = 0
      OBVIOUS
    <2>2. [recs |-> <<>>, firm |-> 0] \in Log
      BY <2>1 DEF Log
    <2>3. DOMAIN logs \in SUBSET Nat /\ logs[3].firm <= Len(logs[3].recs)
      BY <1>6, <2>1
    <2>. QED BY <1>6, <2>2, <2>3 DEF LogsTyped
  <1>8. LogsBounded
    <2>1. DOMAIN <<>> = {}
      OBVIOUS
    <2>. QED BY <1>6, <2>1 DEF LogsBounded, Within
  <1>9. LogOrder
    BY DEF Init, LogOrder
  <1>. QED BY <1>1, <1>3, <1>4, <1>5, <1>7, <1>8, <1>9 DEF TypeInv, Typed

LEMMA TypeInvKept == ASSUME TypeInv, [Next]_vars PROVE TypeInv'
  <1>1. IInv'
    BY StepKeeps DEF TypeInv
  <1>2. CASE UNCHANGED vars
    <2>1. WriteTyped' /\ BackTyped' /\ RestTyped' /\ LogOrder'
      BY <1>2 DEF TypeInv, Typed, WriteTyped, BackTyped, RestTyped, LogOrder, vars, writeVars,
                  backVars, readVars, forceVars
    <2>2. LogsTyped' /\ LogsBounded'
      BY <1>2, LogsStay DEF TypeInv, Typed, vars
    <2>. QED BY <1>1, <2>1, <2>2 DEF TypeInv, Typed
  <1>3. ASSUME NEW c \in Calls, Write(c)
        PROVE  Typed'
    BY <1>3, WriteTypes DEF TypeInv
  <1>4. CASE WriteStep
    BY <1>1, <1>4, WriteStepTypes DEF TypeInv
  <1>5. CASE BackgroundStep
    BY <1>1, <1>5, BackgroundStepTypes DEF TypeInv
  <1>6. CASE GetSnapshot \/ ReleaseSnapshot \/ NewIterator \/ DeleteIterator
    BY <1>1, <1>6, ReaderTypes DEF TypeInv
  <1>7. CASE Stop
    BY <1>1, <1>7, StopTypes DEF TypeInv
  <1>8. CASE Open
    BY <1>1, <1>8, OpenTypes DEF TypeInv
  <1>. QED BY <1>1, <1>2, <1>3, <1>4, <1>5, <1>6, <1>7, <1>8 DEF Next, TypeInv

\* Every variable keeps its type, through calls, merges, failing file
\* operations, crashes and recoveries; the log being written is never deleted.
THEOREM StateIsTyped == Spec => []TypeOK
  <1>1. Spec => []TypeInv
    BY InitTyped, TypeInvKept, PTL DEF Spec
  <1>. QED BY <1>1, TypeInvTypes, PTL
-----------------------------------------------------------------------------
(* A forced flush, for calls that come one at a time: another call that    *)
(* waits when it comes takes it into its batch, and then nothing switches. *)

\* At most one call waits, and one that is being written is no forced flush.
Lone == /\ Len(queue) <= 1
        /\ stage # "idle" => Len(queue) = 1 /\ group = 1 /\ queue[1].op # "flush"

\* Everything in memory is older than the next call; what is in mem_ is
\* younger than the flushes that wait, and what is in memory than those that are done.
MarkIsLast == queue # <<>> /\ queue[1].op = "flush" => queue[1].mark = lastSeq
HeldIsOld == \A e \in Held : e.seq <= lastSeq
MarksHold == \A m \in forcing : m <= lastSeq /\ \A e \in mem : e.seq > m
ForcedHolds == forced <= lastSeq /\ ForcedIsFlushed
ClosedIsEmpty == ~open => mem = {} /\ forcing = {} /\ forced = 0

ForcedInv == /\ Lone /\ MarkIsLast /\ HeldIsOld /\ MarksHold /\ ForcedHolds /\ ClosedIsEmpty

\* What it speaks of.
flushVars == <<queue, stage, group, mem, lastSeq, forcing, forced, open>>

LEMMA HeldOf ==
    ASSUME imm' = <<>> \/ UNCHANGED imm
    PROVE  Held' \subseteq mem' \cup UNION {imm[i] : i \in DOMAIN imm}
  BY DEF Held

LEMMA ElsewhereForced ==
    ASSUME ForcedInv, UNCHANGED flushVars, imm' = <<>> \/ UNCHANGED imm
    PROVE  ForcedInv'
  <1>1. Held' \subseteq Held
    BY HeldOf DEF Held, flushVars
  <1>. QED
    BY <1>1 DEF ForcedInv, Lone, MarkIsLast, HeldIsOld, MarksHold, ForcedHolds, ForcedIsFlushed,
                ClosedIsEmpty, flushVars

LEMMA WriteForced ==
    ASSUME MaxQueue = 1, TypeInv, ForcedInv, NEW c \in Calls, Write(c)
    PROVE  ForcedInv'
  <1>1. /\ open /\ Len(queue) < 1 /\ queue' = Append(queue, c)
        /\ UNCHANGED <<stage, group, mem, lastSeq, forcing, forced, imm, open>>
    BY DEF Write, forceVars
  <1>2. queue = <<>>
    BY <1>1 DEF TypeInv, Typed, WriteTyped
  <1>3. queue' = <<c>> /\ Len(queue') = 1 /\ queue'[1] = c
    BY <1>1, <1>2
  <1>4. stage = "idle"
    BY <1>1 DEF ForcedInv, Lone
  <1>5. c.op = "flush" => c.mark = lastSeq
    BY DEF Calls
  <1>6. Held' = Held
    BY <1>1 DEF Held
  <1>. QED
    BY <1>1, <1>3, <1>4, <1>5, <1>6
       DEF ForcedInv, Lone, MarkIsLast, HeldIsOld, MarksHold, ForcedHolds, ForcedIsFlushed,
           ClosedIsEmpty

\* The only call returns.
LEMMA LoneReturns ==
    ASSUME Lone, queue \in Seq(Call), queue # <<>>, NEW ok, Return(1, ok)
    PROVE  /\ queue' = <<>> /\ stage' = "idle" /\ group' = 0
           /\ forcing' = forcing \cup (IF ok /\ queue[1].op = "flush" THEN {queue[1].mark} ELSE {})
  <1>1. Len(queue) = 1
    BY DEF Lone
  <1>2. SubSeq(queue, 2, 1) = <<>>
    BY <1>1
  <1>3. queue' = <<>>
    BY <1>1, <1>2 DEF Return
  <1>4. 1..1 = {1}
    OBVIOUS
  <1>5. forcing' = forcing \cup {queue[i].mark : i \in {j \in {1} : ok /\ queue[j].op = "flush"}}
    BY <1>4 DEF Return
  <1>. QED BY <1>3, <1>5 DEF Return

\* A call of a group of one: its entry, if any, is the next one.
LEMMA LoneEntries ==
    ASSUME TypeInv, Lone, stage # "idle"
    PROVE  /\ Count(queue, group) = 1
           /\ \A e \in Entries(Batch, lastSeq) : e.seq = lastSeq + 1
  <1>1. Len(queue) = 1 /\ group = 1 /\ queue[1].op # "flush" /\ queue \in Seq(Call)
    BY DEF Lone, TypeInv, Typed, WriteTyped
  <1>2. Batch = <<queue[1]>>
    <2>1. PICK q, C : q = queue /\ C = Call
      OBVIOUS
    <2>2. q \in Seq(C) /\ Len(q) = 1 /\ 1 \in 1..1
      BY <1>1, <2>1
    <2>3. PICK r : r = SubSeq(q, 1, 1)
      OBVIOUS
    <2>4. r \in Seq(C) /\ Len(r) = 1 /\ r[1] = q[1]
      <3>1. 1 \in Int /\ \A i \in 1..1 : q[i] \in C
        BY <2>2
      <3>. QED BY <2>2, <2>3, <3>1, SubSeqProperties
    <2>5. r = <<q[1]>>
      <3>1. \A D, s : s \in Seq(D) /\ Len(s) = 1 => s = <<s[1]>>
        OBVIOUS
      <3>. QED BY <2>4, <3>1, Zenon
    <2>. QED BY <1>1, <2>1, <2>3, <2>5 DEF Batch
  <1>3. 1..1 = {1}
    OBVIOUS
  <1>4. Count(queue, 1) = 1
    <2>1. {j \in 1..1 : queue[j].op # "flush"} = {1}
      BY <1>1, <1>3
    <2>. QED BY <2>1, FS_Singleton DEF Count
  <1>5. PICK c : c = queue[1]
    OBVIOUS
  <1>6. Count(<<c>>, 1) = 1
    <2>1. {j \in 1..1 : <<c>>[j].op # "flush"} = {1}
      BY <1>1, <1>3, <1>5
    <2>. QED BY <2>1, FS_Singleton DEF Count
  <1>7. \A e \in Entries(<<c>>, lastSeq) : e.seq = lastSeq + 1
    <2>1. Len(<<c>>) = 1
      OBVIOUS
    <2>2. \A e \in Entries(<<c>>, lastSeq) : \E i \in 1..1 : e.seq = lastSeq + Count(<<c>>, i)
      BY <2>1 DEF Entries
    <2>. QED BY <1>3, <1>6, <2>2
  <1>. QED BY <1>1, <1>2, <1>4, <1>5, <1>7

LEMMA RefuseForced ==
    ASSUME TypeInv, ForcedInv, Refuse
    PROVE  ForcedInv'
  <1>1. /\ queue # <<>> /\ Return(1, FALSE)
        /\ UNCHANGED <<mem, lastSeq, forced, imm, open>>
    BY DEF Refuse
  <1>2. queue' = <<>> /\ stage' = "idle" /\ forcing' = forcing
    BY <1>1, LoneReturns DEF ForcedInv, TypeInv, Typed, WriteTyped
  <1>3. Held' = Held /\ Len(queue') = 0
    BY <1>1, <1>2 DEF Held
  <1>. QED
    BY <1>1, <1>2, <1>3
       DEF ForcedInv, Lone, MarkIsLast, HeldIsOld, MarksHold, ForcedHolds, ForcedIsFlushed,
           ClosedIsEmpty

\* Entries change place when the memtable is switched.
LEMMA SwitchedHeld ==
    ASSUME SwitchMemTable
    PROVE  mem' = {} /\ Held' \subseteq Held
  <1>1. imm' = <<mem>> /\ mem' = {}
    BY DEF SwitchMemTable
  <1>2. \A M : DOMAIN <<M>> = {1} /\ <<M>>[1] = M
    OBVIOUS
  <1>3. Held' = mem
    BY <1>1, <1>2 DEF Held
  <1>. QED BY <1>1, <1>3 DEF Held

LEMMA LeadForced ==
    ASSUME TypeInv, ForcedInv, Lead
    PROVE  ForcedInv'
  <1>1. /\ queue # <<>> /\ queue[1].op # "flush" /\ open' = open
        /\ UNCHANGED <<queue, lastSeq, forcing, forced>>
        /\ UNCHANGED <<mem, imm>> \/ SwitchMemTable
        /\ group' \in 1..Len(queue)
    BY DEF Lead, Leader, GroupSizes, forceVars
  <1>2. Len(queue) = 1 /\ group' = 1
    <2>1. queue \in Seq(Call) /\ Len(queue) <= 1
      BY DEF ForcedInv, Lone, TypeInv, Typed, WriteTyped
    <2>2. \A C, q : q \in Seq(C) /\ q # <<>> => Len(q) \in Nat /\ Len(q) > 0
      OBVIOUS
    <2>3. Len(queue) \in Nat /\ Len(queue) > 0
      BY <1>1, <2>1, <2>2, Zenon
    <2>4. Len(queue) = 1
      <3>1. \A n \in Nat : n > 0 /\ n <= 1 => n = 1
        OBVIOUS
      <3>. QED BY <2>1, <2>3, <3>1, Zenon
    <2>. QED BY <1>1, <2>4
  <1>3. Held' \subseteq Held /\ mem' \subseteq mem
    BY <1>1, SwitchedHeld DEF Held
  <1>. QED
    BY <1>1, <1>2, <1>3
       DEF ForcedInv, Lone, MarkIsLast, HeldIsOld, MarksHold, ForcedHolds, ForcedIsFlushed,
           ClosedIsEmpty

\* A forced flush waits with nothing but older entries in memory, all in imm_.
LEMMA LeadFlushForced ==
    ASSUME TypeInv, ForcedInv, LeadFlush
    PROVE  ForcedInv'
  <1>1. /\ queue # <<>> /\ queue[1].op = "flush" /\ SwitchMemTable /\ Return(1, TRUE)
        /\ UNCHANGED <<lastSeq, forced, open>>
    BY DEF LeadFlush, Leader
  <1>2. queue' = <<>> /\ stage' = "idle" /\ forcing' = forcing \cup {queue[1].mark}
    BY <1>1, LoneReturns DEF ForcedInv, TypeInv, Typed, WriteTyped
  <1>3. Held' \subseteq Held /\ mem' = {} /\ Len(queue') = 0
    BY <1>1, <1>2, SwitchedHeld
  <1>4. queue[1].mark = lastSeq /\ lastSeq \in Nat /\ open
    BY <1>1 DEF ForcedInv, MarkIsLast, TypeInv, Typed, WriteTyped, RestTyped, IInv, ClosedIsIdle
  <1>5. Lone' /\ MarkIsLast' /\ ClosedIsEmpty'
    BY <1>1, <1>2, <1>3, <1>4 DEF Lone, MarkIsLast, ClosedIsEmpty
  <1>6. HeldIsOld' /\ MarksHold'
    BY <1>1, <1>2, <1>3, <1>4 DEF ForcedInv, HeldIsOld, MarksHold
  <1>7. ForcedHolds'
    BY <1>1, <1>3 DEF ForcedInv, ForcedHolds, ForcedIsFlushed
  <1>. QED BY <1>5, <1>6, <1>7 DEF ForcedInv

LEMMA FailForced ==
    ASSUME TypeInv, ForcedInv, FailBatch, stage # "idle", UNCHANGED open
    PROVE  ForcedInv'
  <1>1. /\ lastSeq' = lastSeq + Count(queue, group) /\ Return(group, FALSE)
        /\ UNCHANGED <<mem, forced, imm>>
    BY DEF FailBatch
  <1>2. lastSeq' = lastSeq + 1 /\ lastSeq \in Nat /\ group = 1 /\ queue # <<>>
    BY <1>1, LoneEntries DEF ForcedInv, Lone, TypeInv, Typed, WriteTyped
  <1>3. queue' = <<>> /\ stage' = "idle" /\ forcing' = forcing
    BY <1>1, <1>2, LoneReturns DEF ForcedInv, TypeInv, Typed, WriteTyped
  <1>4. Held' = Held /\ Len(queue') = 0
    BY <1>1, <1>3 DEF Held
  <1>5. open
    BY DEF TypeInv, Typed, RestTyped, IInv, ClosedIsIdle
  <1>6. Lone' /\ MarkIsLast' /\ ClosedIsEmpty'
    BY <1>3, <1>4, <1>5 DEF Lone, MarkIsLast, ClosedIsEmpty
  <1>7. HeldIsOld' /\ MarksHold' /\ ForcedHolds'
    <2>1. \A e \in Held : e.seq \in Nat
      BY DEF Held, TypeInv, Typed, WriteTyped, RestTyped, Entry
    <2>2. forcing \subseteq Nat /\ forced \in Nat
      BY DEF TypeInv, Typed, RestTyped
    <2>. QED
      BY <1>1, <1>2, <1>3, <1>4, <2>1, <2>2
         DEF ForcedInv, HeldIsOld, MarksHold, ForcedHolds, ForcedIsFlushed
  <1>. QED BY <1>6, <1>7 DEF ForcedInv

LEMMA ApplyForced ==
    ASSUME TypeInv, ForcedInv, Apply
    PROVE  ForcedInv'
  <1>1. PICK E : E = Entries(Batch, lastSeq)
    OBVIOUS
  <1>2. /\ stage # "idle" /\ mem' = mem \cup E
        /\ lastSeq' = lastSeq + Count(queue, group) /\ Return(group, TRUE)
        /\ UNCHANGED <<forced, imm, open>>
    BY <1>1 DEF Apply
  <1>3. /\ lastSeq' = lastSeq + 1 /\ lastSeq \in Nat /\ group = 1 /\ queue # <<>>
        /\ queue[1].op # "flush" /\ \A e \in E : e.seq = lastSeq + 1
    BY <1>1, <1>2, LoneEntries DEF ForcedInv, Lone, TypeInv, Typed, WriteTyped
  <1>4. queue' = <<>> /\ stage' = "idle" /\ forcing' = forcing
    BY <1>2, <1>3, LoneReturns DEF ForcedInv, TypeInv, Typed, WriteTyped
  <1>5. Held' = Held \cup E /\ Len(queue') = 0
    BY <1>2, <1>4 DEF Held
  <1>6. open
    BY <1>2 DEF TypeInv, Typed, RestTyped, IInv, ClosedIsIdle
  <1>7. Lone' /\ MarkIsLast' /\ ClosedIsEmpty'
    BY <1>2, <1>4, <1>5, <1>6 DEF Lone, MarkIsLast, ClosedIsEmpty
  <1>8. HeldIsOld' /\ MarksHold' /\ ForcedHolds'
    <2>1. \A e \in Held : e.seq \in Nat
      BY DEF Held, TypeInv, Typed, WriteTyped, RestTyped, Entry
    <2>2. forcing \subseteq Nat /\ forced \in Nat
      BY DEF TypeInv, Typed, RestTyped
    <2>3. HeldIsOld'
      BY <1>3, <1>5, <2>1 DEF ForcedInv, HeldIsOld
    <2>4. MarksHold'
      BY <1>2, <1>3, <1>4, <2>2 DEF ForcedInv, MarksHold
    <2>5. ForcedHolds'
      BY <1>2, <1>3, <1>5, <2>2 DEF ForcedInv, ForcedHolds, ForcedIsFlushed
    <2>. QED BY <2>3, <2>4, <2>5
  <1>. QED BY <1>7, <1>8 DEF ForcedInv

\* The one that waited returns: if imm_ is gone, what it was to flush is in no memtable.
LEMMA FlushedForced ==
    ASSUME TypeInv, ForcedInv, Flushed
    PROVE  ForcedInv'
  <1>1. PICK m \in forcing :
            /\ forcing' = forcing \ {m}
            /\ forced' = IF imm = <<>> /\ m > forced THEN m ELSE forced
            /\ UNCHANGED <<queue, stage, group, mem, lastSeq, imm, open>>
    BY DEF Flushed, writeVars
  <1>2. Held' = Held /\ (imm = <<>> => Held = mem)
    BY <1>1 DEF Held
  <1>3. open
    BY <1>1 DEF TypeInv, Typed, RestTyped, ForcedInv, ClosedIsEmpty
  <1>4. Lone' /\ MarkIsLast' /\ ClosedIsEmpty' /\ HeldIsOld' /\ MarksHold'
    BY <1>1, <1>2, <1>3 DEF ForcedInv, Lone, MarkIsLast, ClosedIsEmpty, HeldIsOld, MarksHold
  <1>5. ForcedHolds'
    BY <1>1, <1>2 DEF ForcedInv, MarksHold, ForcedHolds, ForcedIsFlushed
  <1>. QED BY <1>4, <1>5 DEF ForcedInv

LEMMA WriteStepForced ==
    ASSUME TypeInv, ForcedInv, WriteStep
    PROVE  ForcedInv'
  <1>1. CASE AddRecord \/ Sync
    <2>1. /\ stage # "idle" /\ stage' # "idle"
          /\ UNCHANGED <<queue, group, mem, lastSeq, forcing, forced, open, imm>>
      BY <1>1 DEF AddRecord, Sync, forceVars
    <2>2. Held' = Held
      BY <2>1 DEF Held
    <2>. QED
      BY <2>1, <2>2
         DEF ForcedInv, Lone, MarkIsLast, HeldIsOld, MarksHold, ForcedHolds, ForcedIsFlushed,
             ClosedIsEmpty
  <1>2. CASE AddRecordFails \/ SyncFails
    <2>1. FailBatch /\ stage # "idle"
      BY <1>2 DEF AddRecordFails, SyncFails
    <2>2. UNCHANGED open
      BY <2>1 DEF FailBatch
    <2>. QED BY <2>1, <2>2, FailForced
  <1>. QED
    BY <1>1, <1>2, RefuseForced, LeadForced, LeadFlushForced, ApplyForced, FlushedForced
       DEF WriteStep

LEMMA ForcedInvKept ==
    ASSUME MaxQueue = 1, TypeInv, ForcedInv, [Next]_vars
    PROVE  ForcedInv'
  <1>1. CASE UNCHANGED vars
    BY <1>1, ElsewhereForced DEF vars, flushVars, writeVars, forceVars
  <1>2. ASSUME NEW c \in Calls, Write(c)
        PROVE  ForcedInv'
    BY <1>2, WriteForced
  <1>3. CASE WriteStep
    BY <1>3, WriteStepForced
  <1>4. CASE BackgroundStep
    <2>1. UNCHANGED unchangedByBackground /\ (imm' = <<>> \/ UNCHANGED imm)
      BY <1>4 DEF BackgroundStep, WriteLevel0Table, CommitMemTable, StartCompaction, TrivialMove,
                  WriteOutput, Install
    <2>. QED
      BY <2>1, ElsewhereForced DEF unchangedByBackground, flushVars, writeVars, forceVars
  <1>5. CASE GetSnapshot \/ ReleaseSnapshot \/ NewIterator \/ DeleteIterator
    <2>1. UNCHANGED unchangedByReaders
      BY <1>5 DEF GetSnapshot, ReleaseSnapshot, NewIterator, DeleteIterator
    <2>. QED
      BY <2>1, ElsewhereForced DEF unchangedByReaders, flushVars, writeVars, forceVars
  <1>6. CASE Stop
    <2>1. /\ queue' = <<>> /\ stage' = "idle" /\ mem' = {} /\ imm' = <<>> /\ lastSeq' = 0
          /\ forcing' = {} /\ forced' = 0
      BY <1>6 DEF Stop
    <2>2. Held' = {} /\ Len(queue') = 0
      BY <2>1 DEF Held
    <2>. QED
      BY <2>1, <2>2
         DEF ForcedInv, Lone, MarkIsLast, HeldIsOld, MarksHold, ForcedHolds, ForcedIsFlushed,
             ClosedIsEmpty
  <1>7. CASE Open
    <2>1. /\ ~open /\ open' = TRUE
          /\ UNCHANGED <<queue, stage, group, mem, imm, forcing, forced>>
      BY <1>7 DEF Open, forceVars
    <2>2. mem = {} /\ imm = <<>> /\ forcing = {} /\ forced = 0 /\ queue = <<>> /\ stage = "idle"
      BY <2>1 DEF TypeInv, IInv, ClosedIsIdle, ForcedInv, ClosedIsEmpty
    <2>3. Held' = {} /\ Len(queue') = 0
      BY <2>1, <2>2 DEF Held
    <2>4. lastSeq' \in Nat
      BY <1>7, OpenTypes DEF TypeInv, Typed, WriteTyped
    <2>. QED
      BY <2>1, <2>2, <2>3, <2>4
         DEF ForcedInv, Lone, MarkIsLast, HeldIsOld, MarksHold, ForcedHolds, ForcedIsFlushed,
             ClosedIsEmpty
  <1>. QED BY <1>1, <1>2, <1>3, <1>4, <1>5, <1>6, <1>7 DEF Next

\* TEST_CompactMemTable does what it says (db_impl.h:56), as long as it is
\* called alone: when it returns, nothing written before it is left in memory.
THEOREM ForcedFlushes ==
    ASSUME MaxQueue = 1
    PROVE  Spec => []ForcedIsFlushed
  <1>1. Init => TypeInv /\ ForcedInv
    <2>1. ASSUME Init PROVE ForcedInv
      <3>1. Held = {} /\ Len(queue) = 0
        BY <2>1 DEF Init, Held
      <3>. QED
        BY <2>1, <3>1
           DEF Init, ForcedInv, Lone, MarkIsLast, HeldIsOld, MarksHold, ForcedHolds,
               ForcedIsFlushed, ClosedIsEmpty
    <2>. QED BY <2>1, InitTyped
  <1>2. TypeInv /\ ForcedInv /\ [Next]_vars => TypeInv' /\ ForcedInv'
    BY TypeInvKept, ForcedInvKept
  <1>3. ForcedInv => ForcedIsFlushed
    BY DEF ForcedInv, ForcedHolds
  <1>. QED BY <1>1, <1>2, <1>3, PTL DEF Spec

-----------------------------------------------------------------------------
(* Finite sets.                                                            *)

LEMMA ImageFinite ==
    ASSUME NEW S, IsFiniteSet(S), NEW f
    PROVE  IsFiniteSet({f[x] : x \in S})
  <1>. DEFINE g == [x \in S |-> f[x]]
              T == {f[x] : x \in S}
  <1>1. g \in Surjection(S, T)
    BY DEF Surjection
  <1>. HIDE DEF g, T
  <1>2. IsFiniteSet(T)
    BY <1>1, FS_Surjection
  <1>. QED BY <1>2 DEF T

LEMMA PartFinite ==
    ASSUME NEW S, IsFiniteSet(S), NEW T, T \subseteq S
    PROVE  IsFiniteSet(T)
  BY FS_Subset
-----------------------------------------------------------------------------
(* The order of entries.                                                   *)

LEMMA EntryFields ==
    ASSUME NEW e \in Entry
    PROVE  e.key \in Keys /\ e.key \in Int /\ e.seq \in Nat
  BY KeyAssumption DEF Entry

LEMMA BeforeOrder ==
    ASSUME NEW a \in Entry, NEW b \in Entry, NEW c \in Entry
    PROVE  /\ ~Before(a, a)
           /\ Before(a, b) /\ Before(b, c) => Before(a, c)
           /\ Before(a, c) => Before(a, b) \/ Before(b, c)
           /\ Before(a, b) => a.key <= b.key /\ ~Before(b, a)
           /\ a.key < b.key => Before(a, b)
  <1>1. /\ a.key \in Int /\ b.key \in Int /\ c.key \in Int
        /\ a.seq \in Nat /\ b.seq \in Nat /\ c.seq \in Nat
    BY EntryFields
  <1>. QED BY <1>1 DEF Before

\* Finitely many entries have a first and a last one.
LEMMA FirstExists ==
    ASSUME NEW D \in SUBSET Entry, IsFiniteSet(D), D # {}
    PROVE  First(D) \in D /\ \A d \in D : ~Before(d, First(D))
  <1>. DEFINE P == {n \in Nat : \A S \in SUBSET Entry :
                       IsFiniteSet(S) /\ Cardinality(S) = n /\ n > 0
                         => \E e \in S : \A d \in S : ~Before(d, e)}
              m == Cardinality(D)
  <1>1. m \in Nat /\ m > 0
    BY FS_CardinalityType, FS_EmptySet
  <1>2. 0 \in P
    OBVIOUS
  <1>3. ASSUME NEW n \in 1..m, n - 1 \in P
        PROVE  n \in P
    <2>1. SUFFICES ASSUME NEW S \in SUBSET Entry, IsFiniteSet(S), Cardinality(S) = n
                   PROVE  \E e \in S : \A d \in S : ~Before(d, e)
      BY <1>1
    <2>2. PICK x \in S : TRUE
      BY <2>1, FS_EmptySet
    <2>3. IsFiniteSet(S \ {x}) /\ Cardinality(S \ {x}) = n - 1
      BY <2>1, <2>2, FS_RemoveElement
    <2>4. CASE n = 1
      <3>1. S \ {x} = {}
        BY <2>3, <2>4, FS_EmptySet
      <3>2. \A d \in S : d = x
        BY <3>1
      <3>. QED BY <2>2, <3>2, BeforeOrder
    <2>5. CASE n # 1
      <3>1. PICK e \in S \ {x} : \A d \in S \ {x} : ~Before(d, e)
        <4>1. n - 1 \in Nat /\ n - 1 > 0
          BY <1>1, <2>5
        <4>2. S \ {x} \in SUBSET Entry
          OBVIOUS
        <4>. QED BY <1>3, <2>3, <4>1, <4>2
      <3>2. CASE Before(x, e)
        <4>1. \A d \in S : ~Before(d, x)
          BY <2>2, <3>1, <3>2, BeforeOrder
        <4>. QED BY <2>2, <4>1
      <3>3. CASE ~Before(x, e)
        BY <3>1, <3>3
      <3>. QED BY <3>2, <3>3
    <2>. QED BY <2>4, <2>5
  <1>4. \A n \in 0..m : n \in P
    <2>. HIDE DEF P, m
    <2>. QED BY <1>1, <1>2, <1>3, UpTo
  <1>5. \E e \in D : \A d \in D : ~Before(d, e)
    BY <1>1, <1>4
  <1>. QED BY <1>5 DEF First

LEMMA LastExists ==
    ASSUME NEW D \in SUBSET Entry, IsFiniteSet(D), D # {}
    PROVE  Last(D) \in D /\ \A d \in D : ~Before(Last(D), d)
  <1>. DEFINE P == {n \in Nat : \A S \in SUBSET Entry :
                       IsFiniteSet(S) /\ Cardinality(S) = n /\ n > 0
                         => \E e \in S : \A d \in S : ~Before(e, d)}
              m == Cardinality(D)
  <1>1. m \in Nat /\ m > 0
    BY FS_CardinalityType, FS_EmptySet
  <1>2. 0 \in P
    OBVIOUS
  <1>3. ASSUME NEW n \in 1..m, n - 1 \in P
        PROVE  n \in P
    <2>1. SUFFICES ASSUME NEW S \in SUBSET Entry, IsFiniteSet(S), Cardinality(S) = n
                   PROVE  \E e \in S : \A d \in S : ~Before(e, d)
      BY <1>1
    <2>2. PICK x \in S : TRUE
      BY <2>1, FS_EmptySet
    <2>3. IsFiniteSet(S \ {x}) /\ Cardinality(S \ {x}) = n - 1
      BY <2>1, <2>2, FS_RemoveElement
    <2>4. CASE n = 1
      <3>1. S \ {x} = {}
        BY <2>3, <2>4, FS_EmptySet
      <3>2. \A d \in S : d = x
        BY <3>1
      <3>. QED BY <2>2, <3>2, BeforeOrder
    <2>5. CASE n # 1
      <3>1. PICK e \in S \ {x} : \A d \in S \ {x} : ~Before(e, d)
        <4>1. n - 1 \in Nat /\ n - 1 > 0
          BY <1>1, <2>5
        <4>2. S \ {x} \in SUBSET Entry
          OBVIOUS
        <4>. QED BY <1>3, <2>3, <4>1, <4>2
      <3>2. CASE Before(e, x)
        <4>1. \A d \in S : ~Before(x, d)
          BY <2>2, <3>1, <3>2, BeforeOrder
        <4>. QED BY <2>2, <4>1
      <3>3. CASE ~Before(e, x)
        BY <3>1, <3>3
      <3>. QED BY <3>2, <3>3
    <2>. QED BY <2>4, <2>5
  <1>4. \A n \in 0..m : n \in P
    <2>. HIDE DEF P, m
    <2>. QED BY <1>1, <1>2, <1>3, UpTo
  <1>5. \E e \in D : \A d \in D : ~Before(e, d)
    BY <1>1, <1>4
  <1>. QED BY <1>5 DEF Last
-----------------------------------------------------------------------------
(* Files, and sets of them that leave no gap.                              *)

\* A table file holds something, and not everything.
GoodFiles(F) == F \subseteq File /\ \A f \in F : f.data # {} /\ IsFiniteSet(f.data)
GoodSet(F) == GoodFiles(F) /\ IsFiniteSet(F)

\* All entries of D come before all of E; D is on one side of E.
Apart(D, E) == \A a \in D, b \in E : Before(a, b)
Beside(D, E) == Apart(D, E) \/ Apart(E, D)

\* Whatever overlaps none of the files is on one side of all of them.
NoGap(F) == \A lo \in Int, hi \in Int :
               lo <= hi /\ (\A f \in F : ~Touches(f, lo, hi))
                 => (\A f \in F : High({f}) < lo) \/ (\A f \in F : hi < Low({f}))

\* The range of a set of files is that of what they hold.
LEMMA RangeOf ==
    ASSUME NEW F, GoodSet(F), F # {}
    PROVE  /\ Content(F) \in SUBSET Entry /\ IsFiniteSet(Content(F)) /\ Content(F) # {}
           /\ Low(F) \in Int /\ High(F) \in Int /\ Low(F) \in Keys /\ High(F) \in Keys
           /\ \A f \in F : \A e \in f.data : Low(F) <= e.key /\ e.key <= High(F)
           /\ \E f \in F : \E e \in f.data : e.key = Low(F)
           /\ \E f \in F : \E e \in f.data : e.key = High(F)
  <1>1. Content(F) \in SUBSET Entry /\ Content(F) # {}
    BY DEF GoodSet, GoodFiles, Content, File
  <1>2. IsFiniteSet(Content(F))
    <2>. DEFINE data == [f \in F |-> f.data]
    <2>1. IsFiniteSet({data[f] : f \in F})
      <3>. HIDE DEF data
      <3>. QED BY ImageFinite DEF GoodSet
    <2>2. {data[f] : f \in F} = {f.data : f \in F}
      OBVIOUS
    <2>3. IsFiniteSet({f.data : f \in F}) /\ \A D \in {f.data : f \in F} : IsFiniteSet(D)
      BY <2>1, <2>2 DEF GoodSet, GoodFiles
    <2>. QED BY <2>3, FS_UNION DEF Content
  <1>3. PICK lo, hi : lo = First(Content(F)) /\ hi = Last(Content(F))
    OBVIOUS
  <1>4. /\ lo \in Content(F) /\ \A d \in Content(F) : ~Before(d, lo)
        /\ hi \in Content(F) /\ \A d \in Content(F) : ~Before(hi, d)
    BY <1>1, <1>2, <1>3, FirstExists, LastExists
  <1>5. Low(F) = lo.key /\ High(F) = hi.key
    BY <1>3 DEF Low, High
  <1>6. lo \in Entry /\ hi \in Entry
    BY <1>1, <1>4
  <1>7. \A e \in Content(F) : lo.key <= e.key /\ e.key <= hi.key
    <2>. SUFFICES ASSUME NEW e \in Content(F)
                  PROVE  lo.key <= e.key /\ e.key <= hi.key
      OBVIOUS
    <2>1. e \in Entry /\ ~Before(e, lo) /\ ~Before(hi, e)
      BY <1>1, <1>4
    <2>2. e.key \in Int /\ lo.key \in Int /\ hi.key \in Int
      BY <1>6, <2>1, EntryFields
    <2>. QED BY <1>6, <2>1, <2>2, BeforeOrder
  <1>8. \A f \in F : f.data \subseteq Content(F)
    BY DEF Content
  <1>9. (\E f \in F : lo \in f.data) /\ (\E f \in F : hi \in f.data)
    BY <1>4 DEF Content
  <1>. QED BY <1>1, <1>2, <1>5, <1>6, <1>7, <1>8, <1>9, EntryFields

\* That of one file.
LEMMA RangeOne ==
    ASSUME NEW f \in File, f.data # {}, IsFiniteSet(f.data)
    PROVE  /\ GoodSet({f})
           /\ Low({f}) \in Int /\ High({f}) \in Int /\ Low({f}) <= High({f})
           /\ \A e \in f.data : Low({f}) <= e.key /\ e.key <= High({f})
           /\ \E e \in f.data : e.key = Low({f})
           /\ \E e \in f.data : e.key = High({f})
  <1>1. GoodSet({f})
    BY FS_Singleton DEF GoodSet, GoodFiles
  <1>2. /\ Low({f}) \in Int /\ High({f}) \in Int
        /\ \A e \in f.data : Low({f}) <= e.key /\ e.key <= High({f})
        /\ \E e \in f.data : e.key = Low({f})
        /\ \E e \in f.data : e.key = High({f})
    BY <1>1, RangeOf
  <1>. QED BY <1>1, <1>2

LEMMA OneHasNoGap ==
    ASSUME NEW f \in File, f.data # {}, IsFiniteSet(f.data)
    PROVE  NoGap({f})
  <1>1. PICK a, b : a = Low({f}) /\ b = High({f})
    OBVIOUS
  <1>2. a \in Int /\ b \in Int
    BY <1>1, RangeOne
  <1>. QED BY <1>1, <1>2 DEF NoGap, Touches

\* Files that overlap some of those without a gap can join them.
LEMMA NoGapGrows ==
    ASSUME NEW K, GoodFiles(K), NoGap(K), NEW F \in SUBSET K, F # {}, IsFiniteSet(F),
           NEW G, GoodFiles(G), \A g \in G : Touches(g, Low(F), High(F))
    PROVE  NoGap(K \cup G)
  <1>1. PICK a, b : a = Low(F) /\ b = High(F)
    OBVIOUS
  <1>2. /\ a \in Int /\ b \in Int
        /\ \E f \in F : \E e \in f.data : e.key = a
        /\ \E f \in F : \E e \in f.data : e.key = b
    <2>1. GoodSet(F)
      BY DEF GoodSet, GoodFiles
    <2>. QED BY <1>1, <2>1, RangeOf
  <1>3. SUFFICES ASSUME NEW lo \in Int, NEW hi \in Int, lo <= hi,
                        \A f \in K \cup G : ~Touches(f, lo, hi)
                 PROVE  \/ \A f \in K \cup G : High({f}) < lo
                        \/ \A f \in K \cup G : hi < Low({f})
    BY DEF NoGap
  <1>4. \A f \in K \cup G : /\ Low({f}) \in Int /\ High({f}) \in Int
                            /\ \A e \in f.data : Low({f}) <= e.key /\ e.key <= High({f})
    BY RangeOne DEF GoodFiles
  <1>5. \A g \in G : Low({g}) <= b /\ a <= High({g})
    BY <1>1 DEF Touches
  <1>6. ASSUME NEW g \in G PROVE High({g}) < lo \/ hi < Low({g})
    <2>1. ~Touches(g, lo, hi) /\ Low({g}) \in Int /\ High({g}) \in Int
      BY <1>3, <1>4
    <2>. QED BY <2>1 DEF Touches
  <1>7. CASE \A f \in K : High({f}) < lo
    <2>1. b < lo
      <3>1. PICK f \in F : \E e \in f.data : e.key = b
        BY <1>2
      <3>2. b <= High({f}) /\ High({f}) < lo /\ High({f}) \in Int
        BY <1>4, <1>7, <3>1
      <3>. QED BY <1>2, <3>2
    <2>2. ASSUME NEW g \in G PROVE High({g}) < lo
      <3>1. Low({g}) <= b /\ Low({g}) \in Int
        BY <1>4, <1>5
      <3>. QED BY <1>2, <1>3, <1>6, <2>1, <3>1
    <2>. QED BY <1>7, <2>2
  <1>8. CASE \A f \in K : hi < Low({f})
    <2>1. hi < a
      <3>1. PICK f \in F : \E e \in f.data : e.key = a
        BY <1>2
      <3>2. Low({f}) <= a /\ hi < Low({f}) /\ Low({f}) \in Int
        BY <1>4, <1>8, <3>1
      <3>. QED BY <1>2, <3>2
    <2>2. ASSUME NEW g \in G PROVE hi < Low({g})
      <3>1. a <= High({g}) /\ High({g}) \in Int
        BY <1>4, <1>5
      <3>. QED BY <1>2, <1>3, <1>6, <2>1, <3>1
    <2>. QED BY <1>8, <2>2
  <1>9. (\A f \in K : High({f}) < lo) \/ (\A f \in K : hi < Low({f}))
    BY <1>3 DEF NoGap
  <1>. QED BY <1>7, <1>8, <1>9
-----------------------------------------------------------------------------
(* GetOverlappingInputs.                                                   *)

Reached(v, l, X) ==
    {f \in v[l] : f \in X \/ (l = 0 /\ X # {} /\ Touches(f, Low(X), High(X)))}
IsReach(r, v, l, lo, hi, k) ==
    r = [n \in 0..k |-> IF n = 0 THEN {f \in v[l] : Touches(f, lo, hi)}
                        ELSE Reached(v, l, r[n - 1])]

LEMMA ReachExists ==
    ASSUME NEW v, NEW l, NEW lo, NEW hi, NEW c \in Nat
    PROVE  \E r : IsReach(r, v, l, lo, hi, c)
  <1>1. PICK base : base = {f \in v[l] : Touches(f, lo, hi)}
    OBVIOUS
  <1>. DEFINE P == {k \in Nat : \E r : IsReach(r, v, l, lo, hi, k)}
  <1>2. 0 \in P
    <2>1. IsReach([n \in 0..0 |-> base], v, l, lo, hi, 0)
      BY <1>1 DEF IsReach
    <2>. QED BY <2>1
  <1>3. ASSUME NEW k \in 1..c, k - 1 \in P
        PROVE  k \in P
    <2>1. PICK f : IsReach(f, v, l, lo, hi, k - 1)
      BY <1>3
    <2>2. PICK g : g = [n \in 0..k |-> IF n = k THEN Reached(v, l, f[k - 1]) ELSE f[n]]
      OBVIOUS
    <2>3. k \in Nat /\ k # 0 /\ \A i \in 0..(k - 1) : g[i] = f[i]
      BY <2>2
    <2>4. \A i \in 0..(k - 1) : f[i] = IF i = 0 THEN base ELSE Reached(v, l, f[i - 1])
      BY <1>1, <2>1 DEF IsReach
    <2>5. ASSUME NEW i \in 0..k
          PROVE  g[i] = IF i = 0 THEN base ELSE Reached(v, l, g[i - 1])
      <3>1. i # 0 => i - 1 \in 0..(k - 1) /\ g[i - 1] = f[i - 1]
        BY <2>3
      <3>2. CASE i = k
        BY <2>2, <2>3, <3>1, <3>2
      <3>3. CASE i # k
        <4>1. i \in 0..(k - 1)
          BY <2>3, <3>3
        <4>. QED BY <2>3, <2>4, <3>1, <4>1
      <3>. QED BY <3>2, <3>3
    <2>6. IsReach(g, v, l, lo, hi, k)
      BY <1>1, <2>2, <2>5 DEF IsReach
    <2>. QED BY <2>3, <2>6
  <1>4. \A n \in 0..c : n \in P
    <2>. HIDE DEF P
    <2>. QED BY <1>2, <1>3, UpTo
  <1>. QED BY <1>4

LEMMA OverlappingUnfolds ==
    ASSUME NEW v, NEW l, NEW lo, NEW hi, NEW c \in Nat, c = Cardinality(v[l])
    PROVE  \E r : /\ Overlapping(v, l, lo, hi) = {f \in v[l] : f \in r[c]}
                  /\ r[0] = {f \in v[l] : Touches(f, lo, hi)}
                  /\ \A n \in 1..c : r[n] = Reached(v, l, r[n - 1])
  <1>. DEFINE r == CHOOSE g : IsReach(g, v, l, lo, hi, c)
  <1>1. IsReach(r, v, l, lo, hi, c)
    BY ReachExists
  <1>2. Overlapping(v, l, lo, hi) = {f \in v[l] : f \in r[c]}
    BY DEF Overlapping, IsReach, Reached
  <1>. HIDE DEF r
  <1>3. \A n \in 0..c : r[n] = IF n = 0 THEN {f \in v[l] : Touches(f, lo, hi)}
                               ELSE Reached(v, l, r[n - 1])
    BY <1>1 DEF IsReach
  <1>4. 0 \in 0..c /\ \A n \in 1..c : n \in 0..c /\ n # 0
    OBVIOUS
  <1>. QED BY <1>2, <1>3, <1>4

\* It finds the files that overlap the range, and above level 0 no others.
LEMMA OverlappingFinds ==
    ASSUME NEW v, NEW l, IsFiniteSet(v[l]), NEW lo, NEW hi
    PROVE  /\ Overlapping(v, l, lo, hi) \subseteq v[l]
           /\ \A f \in v[l] : Touches(f, lo, hi) => f \in Overlapping(v, l, lo, hi)
           /\ l # 0 => \A f \in Overlapping(v, l, lo, hi) : Touches(f, lo, hi)
  <1>1. PICK c \in Nat : c = Cardinality(v[l])
    BY FS_CardinalityType
  <1>2. PICK r : /\ Overlapping(v, l, lo, hi) = {f \in v[l] : f \in r[c]}
                 /\ r[0] = {f \in v[l] : Touches(f, lo, hi)}
                 /\ \A n \in 1..c : r[n] = Reached(v, l, r[n - 1])
    BY <1>1, OverlappingUnfolds
  <1>. DEFINE P == {n \in Nat : /\ \A f \in v[l] : Touches(f, lo, hi) => f \in r[n]
                                /\ l # 0 => \A f \in r[n] : Touches(f, lo, hi)}
  <1>3. 0 \in P
    BY <1>2
  <1>4. ASSUME NEW n \in 1..c, n - 1 \in P
        PROVE  n \in P
    <2>1. r[n] = Reached(v, l, r[n - 1])
      BY <1>2
    <2>. QED BY <1>4, <2>1 DEF Reached
  <1>5. \A n \in 0..c : n \in P
    <2>. HIDE DEF P
    <2>. QED BY <1>3, <1>4, UpTo
  <1>6. c \in P
    BY <1>5
  <1>. QED BY <1>2, <1>6

\* What it finds in the range of files without a gap leaves none.
LEMMA OverlappingHasNoGap ==
    ASSUME NEW v, NEW l, GoodSet(v[l]), NEW K, GoodFiles(K), NoGap(K),
           NEW F \in SUBSET K, F # {}, IsFiniteSet(F)
    PROVE  NoGap(K \cup Overlapping(v, l, Low(F), High(F)))
  <1>1. PICK c \in Nat : c = Cardinality(v[l])
    BY FS_CardinalityType DEF GoodSet
  <1>. PICK lo, hi : lo = Low(F) /\ hi = High(F)
    OBVIOUS
  <1>2. PICK r : /\ Overlapping(v, l, lo, hi) = {f \in v[l] : f \in r[c]}
                 /\ r[0] = {f \in v[l] : Touches(f, lo, hi)}
                 /\ \A n \in 1..c : r[n] = Reached(v, l, r[n - 1])
    BY <1>1, OverlappingUnfolds
  <1>. DEFINE P == {n \in Nat : r[n] \subseteq v[l] /\ NoGap(K \cup r[n])}
  <1>3. 0 \in P
    <2>1. r[0] \subseteq v[l] /\ GoodFiles(r[0]) /\ \A g \in r[0] : Touches(g, lo, hi)
      BY <1>2 DEF GoodSet, GoodFiles
    <2>. QED BY <2>1, NoGapGrows
  <1>4. ASSUME NEW n \in 1..c, n - 1 \in P
        PROVE  n \in P
    <2>1. PICK X : X = r[n - 1]
      OBVIOUS
    <2>2. r[n] = Reached(v, l, X) /\ X \subseteq v[l] /\ NoGap(K \cup X)
      BY <1>2, <1>4, <2>1
    <2>3. GoodFiles(X) /\ GoodFiles(K \cup X) /\ IsFiniteSet(X)
      BY <2>2, FS_Subset DEF GoodSet, GoodFiles
    <2>4. CASE l = 0 /\ X # {}
      <3>1. PICK G : G = {f \in v[l] : Touches(f, Low(X), High(X))}
        OBVIOUS
      <3>2. GoodFiles(G) /\ \A g \in G : Touches(g, Low(X), High(X))
        BY <3>1 DEF GoodSet, GoodFiles
      <3>3. NoGap((K \cup X) \cup G)
        BY <2>2, <2>3, <2>4, <3>2, NoGapGrows
      <3>4. r[n] = X \cup G
        BY <2>2, <2>4, <3>1 DEF Reached
      <3>5. (K \cup X) \cup G = K \cup r[n]
        BY <3>4
      <3>6. r[n] \subseteq v[l]
        BY <2>2 DEF Reached
      <3>. QED BY <3>3, <3>5, <3>6
    <2>5. CASE ~(l = 0 /\ X # {})
      <3>1. r[n] = X
        BY <2>2, <2>5 DEF Reached
      <3>. QED BY <2>2, <3>1
    <2>. QED BY <2>4, <2>5
  <1>5. \A n \in 0..c : n \in P
    <2>. HIDE DEF P
    <2>. QED BY <1>3, <1>4, UpTo
  <1>6. c \in P
    BY <1>5
  <1>7. {f \in v[l] : f \in r[c]} = r[c]
    BY <1>6
  <1>. QED BY <1>2, <1>6, <1>7
-----------------------------------------------------------------------------
(* AddBoundaryInputs, and the inputs of a compaction.                      *)

Boundary(v, l, G) == {f \in v[l] : /\ First(f.data).key = High(G)
                                   /\ Before(Last(Content(G)), First(f.data))}
Grown(v, l, G) == G \cup {f \in Boundary(v, l, G) :
                             \A g \in Boundary(v, l, G) : ~Before(First(g.data), First(f.data))}
IsGrowth(r, v, l, F, k) ==
    r = [n \in 0..k |-> IF n = 0 THEN F ELSE Grown(v, l, r[n - 1])]

LEMMA GrowthExists ==
    ASSUME NEW v, NEW l, NEW F, NEW c \in Nat
    PROVE  \E r : IsGrowth(r, v, l, F, c)
  <1>. DEFINE P == {k \in Nat : \E r : IsGrowth(r, v, l, F, k)}
  <1>2. 0 \in P
    <2>1. IsGrowth([n \in 0..0 |-> F], v, l, F, 0)
      BY DEF IsGrowth
    <2>. QED BY <2>1
  <1>3. ASSUME NEW k \in 1..c, k - 1 \in P
        PROVE  k \in P
    <2>1. PICK f : IsGrowth(f, v, l, F, k - 1)
      BY <1>3
    <2>2. PICK g : g = [n \in 0..k |-> IF n = k THEN Grown(v, l, f[k - 1]) ELSE f[n]]
      OBVIOUS
    <2>3. k \in Nat /\ k # 0 /\ \A i \in 0..(k - 1) : g[i] = f[i]
      BY <2>2
    <2>4. \A i \in 0..(k - 1) : f[i] = IF i = 0 THEN F ELSE Grown(v, l, f[i - 1])
      BY <2>1 DEF IsGrowth
    <2>5. ASSUME NEW i \in 0..k
          PROVE  g[i] = IF i = 0 THEN F ELSE Grown(v, l, g[i - 1])
      <3>1. i # 0 => i - 1 \in 0..(k - 1) /\ g[i - 1] = f[i - 1]
        BY <2>3
      <3>2. CASE i = k
        BY <2>2, <2>3, <3>1, <3>2
      <3>3. CASE i # k
        <4>1. i \in 0..(k - 1)
          BY <2>3, <3>3
        <4>. QED BY <2>3, <2>4, <3>1, <4>1
      <3>. QED BY <3>2, <3>3
    <2>6. IsGrowth(g, v, l, F, k)
      BY <2>2, <2>5 DEF IsGrowth
    <2>. QED BY <2>3, <2>6
  <1>4. \A n \in 0..c : n \in P
    <2>. HIDE DEF P
    <2>. QED BY <1>2, <1>3, UpTo
  <1>. QED BY <1>4

GrowsInto(r, v, l, F, c) ==
    /\ WithBoundary(v, l, F) = F \cup {f \in v[l] : F # {} /\ f \in r[c]}
    /\ r[0] = F
    /\ \A n \in 1..c : r[n] = Grown(v, l, r[n - 1])

LEMMA WithBoundaryUnfolds ==
    ASSUME NEW v, NEW l, NEW F, NEW c \in Nat, c = Cardinality(v[l])
    PROVE  \E r : GrowsInto(r, v, l, F, c)
  <1>. DEFINE r == CHOOSE g : IsGrowth(g, v, l, F, c)
  <1>1. IsGrowth(r, v, l, F, c)
    BY GrowthExists
  <1>2. WithBoundary(v, l, F) = F \cup {f \in v[l] : F # {} /\ f \in r[c]}
    BY DEF WithBoundary, IsGrowth, Grown, Boundary
  <1>. HIDE DEF r
  <1>3. \A n \in 0..c : r[n] = IF n = 0 THEN F ELSE Grown(v, l, r[n - 1])
    BY <1>1 DEF IsGrowth
  <1>4. 0 \in 0..c /\ \A n \in 1..c : n \in 0..c /\ n # 0
    OBVIOUS
  <1>. QED BY <1>2, <1>3, <1>4 DEF GrowsInto

\* A file whose first key is the last one of others overlaps them.
LEMMA BoundaryTouches ==
    ASSUME NEW v, NEW l, GoodSet(v[l]), NEW G \in SUBSET v[l], G # {},
           NEW f \in Boundary(v, l, G)
    PROVE  Touches(f, Low(G), High(G))
  <1>1. GoodSet(G) /\ f \in File /\ f.data # {} /\ IsFiniteSet(f.data)
    BY FS_Subset DEF GoodSet, GoodFiles, Boundary
  <1>2. Content({f}) = f.data
    BY DEF Content
  <1>3. Low({f}) = High(G)
    BY <1>2 DEF Low, Boundary
  <1>4. PICK a, b, d : a = Low(G) /\ b = High(G) /\ d = High({f})
    OBVIOUS
  <1>5. a \in Int /\ b \in Int /\ d \in Int
    BY <1>1, <1>4, RangeOf, RangeOne
  <1>6. b <= d
    BY <1>1, <1>3, <1>4, RangeOne
  <1>7. a <= b
    <2>1. PICK g \in G : \E e \in g.data : e.key = a
      BY <1>1, <1>4, RangeOf
    <2>2. PICK e \in g.data : e.key = a
      BY <2>1
    <2>3. e.key <= b
      BY <1>1, <1>4, <2>1, <2>2, RangeOf
    <2>. QED BY <2>2, <2>3
  <1>. QED BY <1>3, <1>4, <1>5, <1>6, <1>7 DEF Touches

LEMMA WithBoundaryHasNoGap ==
    ASSUME NEW v, NEW l, GoodSet(v[l]), NEW F \in SUBSET v[l], F # {},
           NEW K, GoodFiles(K), NoGap(K), F \subseteq K
    PROVE  /\ F \subseteq WithBoundary(v, l, F) /\ WithBoundary(v, l, F) \subseteq v[l]
           /\ NoGap(K \cup WithBoundary(v, l, F))
  <1>1. PICK c \in Nat : c = Cardinality(v[l])
    BY FS_CardinalityType DEF GoodSet
  <1>2. PICK r : GrowsInto(r, v, l, F, c)
    BY <1>1, WithBoundaryUnfolds
  <1>. DEFINE P == {n \in Nat : r[n] \subseteq v[l] /\ F \subseteq r[n] /\ NoGap(K \cup r[n])}
  <1>3. 0 \in P
    <2>1. K \cup F = K
      OBVIOUS
    <2>. QED BY <1>2, <2>1 DEF GrowsInto
  <1>4. ASSUME NEW n \in 1..c, n - 1 \in P
        PROVE  n \in P
    <2>1. PICK X : X = r[n - 1]
      OBVIOUS
    <2>2. r[n] = Grown(v, l, X) /\ X \subseteq v[l] /\ F \subseteq X /\ NoGap(K \cup X)
      BY <1>2, <1>4, <2>1 DEF GrowsInto
    <2>3. GoodFiles(X) /\ GoodFiles(K \cup X) /\ IsFiniteSet(X) /\ X # {}
      BY <2>2, FS_Subset DEF GoodSet, GoodFiles
    <2>4. PICK G : G \subseteq Boundary(v, l, X) /\ r[n] = X \cup G
      BY <2>2 DEF Grown
    <2>5. G \subseteq v[l]
      BY <2>4 DEF Boundary
    <2>6. GoodFiles(G)
      BY <2>5 DEF GoodSet, GoodFiles
    <2>7. \A g \in G : Touches(g, Low(X), High(X))
      BY <2>2, <2>3, <2>4, BoundaryTouches
    <2>8. NoGap((K \cup X) \cup G)
      BY <2>2, <2>3, <2>6, <2>7, NoGapGrows
    <2>9. (K \cup X) \cup G = K \cup r[n]
      BY <2>4
    <2>. QED BY <2>2, <2>4, <2>5, <2>8, <2>9
  <1>5. \A n \in 0..c : n \in P
    <2>. HIDE DEF P
    <2>. QED BY <1>3, <1>4, UpTo
  <1>6. c \in P
    BY <1>5
  <1>7. WithBoundary(v, l, F) = r[c]
    BY <1>2, <1>6 DEF GrowsInto
  <1>. QED BY <1>6, <1>7

\* The inputs on level l are some files, and those on the next level are the files
\* that overlap them; together they leave no gap.
InputsFit(v, l, in) == /\ in[1] \subseteq v[l] /\ in[1] # {}
                       /\ in[2] = {g \in v[l + 1] : Touches(g, Low(in[1]), High(in[1]))}
                       /\ NoGap(in[1] \cup in[2])
Good(v) == \A l \in Levels : GoodSet(v[l])

LEMMA NextInputs ==
    ASSUME NEW v, NEW l \in Levels, l + 1 \in Levels, Good(v),
           NEW K, GoodFiles(K), NoGap(K), NEW F \in SUBSET K, F \subseteq v[l], F # {}
    PROVE  /\ Overlapping(v, l + 1, Low(F), High(F))
                = {g \in v[l + 1] : Touches(g, Low(F), High(F))}
           /\ NoGap(K \cup Overlapping(v, l + 1, Low(F), High(F)))
  <1>1. GoodSet(v[l]) /\ GoodSet(v[l + 1]) /\ l + 1 # 0
    BY DEF Good, Levels
  <1>2. IsFiniteSet(F)
    BY <1>1, FS_Subset DEF GoodSet
  <1>3. PICK lo, hi, m : lo = Low(F) /\ hi = High(F) /\ m = l + 1
    OBVIOUS
  <1>4. /\ Overlapping(v, m, lo, hi) \subseteq v[m]
        /\ \A f \in v[m] : Touches(f, lo, hi) => f \in Overlapping(v, m, lo, hi)
        /\ \A f \in Overlapping(v, m, lo, hi) : Touches(f, lo, hi)
    BY <1>1, <1>3, OverlappingFinds DEF GoodSet
  <1>5. NoGap(K \cup Overlapping(v, m, Low(F), High(F)))
    BY <1>1, <1>2, <1>3, OverlappingHasNoGap
  <1>. QED BY <1>3, <1>4, <1>5

LEMMA InputsHaveNoGap ==
    ASSUME NEW v, NEW l \in Levels, l + 1 \in Levels, Good(v),
           NEW F \in SUBSET v[l], F # {}, NoGap(F), NEW in \in Inputs(v, l, F)
    PROVE  InputsFit(v, l, in)
  <1>1. GoodSet(v[l]) /\ GoodSet(v[l + 1])
    BY DEF Good
  <1>2. PICK in0 : in0 = WithBoundary(v, l, F)
    OBVIOUS
  <1>3. F \subseteq in0 /\ in0 \subseteq v[l] /\ NoGap(in0) /\ in0 # {} /\ GoodFiles(in0)
    <2>1. GoodFiles(F)
      BY <1>1 DEF GoodSet, GoodFiles
    <2>2. F \subseteq in0 /\ in0 \subseteq v[l] /\ NoGap(F \cup in0)
      BY <1>1, <1>2, <2>1, WithBoundaryHasNoGap
    <2>3. F \cup in0 = in0
      BY <2>2
    <2>. QED BY <1>1, <2>2, <2>3 DEF GoodSet, GoodFiles
  <1>4. PICK in1 : in1 = Overlapping(v, l + 1, Low(in0), High(in0))
    OBVIOUS
  <1>5. in1 = {g \in v[l + 1] : Touches(g, Low(in0), High(in0))} /\ NoGap(in0 \cup in1)
    BY <1>3, <1>4, NextInputs
  <1>6. PICK all : all = in0 \cup in1
    OBVIOUS
  <1>7. GoodSet(all) /\ all # {}
    <2>1. IsFiniteSet(in0) /\ IsFiniteSet(in1)
      BY <1>1, <1>3, <1>5, FS_Subset DEF GoodSet
    <2>2. IsFiniteSet(all)
      BY <1>6, <2>1, FS_Union
    <2>3. GoodFiles(in1)
      BY <1>1, <1>5 DEF GoodSet, GoodFiles
    <2>. QED BY <1>3, <1>6, <2>2, <2>3 DEF GoodSet, GoodFiles
  <1>8. PICK found, wide0, wide1 :
            /\ found = Overlapping(v, l, Low(all), High(all))
            /\ wide0 = WithBoundary(v, l, found)
            /\ wide1 = Overlapping(v, l + 1, Low(wide0), High(wide0))
    OBVIOUS
  <1>9. in \in {<<in0, in1>>, <<wide0, wide1>>}
    BY <1>2, <1>4, <1>6, <1>8 DEF Inputs
  <1>10. CASE in = <<in0, in1>>
    BY <1>3, <1>5, <1>10 DEF InputsFit
  <1>11. CASE in = <<wide0, wide1>>
    <2>1. found \subseteq v[l] /\ in0 \subseteq found /\ NoGap(all \cup found)
      <3>1. PICK lo, hi : lo = Low(all) /\ hi = High(all)
        OBVIOUS
      <3>2. \A f \in in0 : Touches(f, lo, hi)
        <4>1. SUFFICES ASSUME NEW f \in in0 PROVE Touches(f, lo, hi)
          OBVIOUS
        <4>2. f \in File /\ f.data # {} /\ IsFiniteSet(f.data) /\ f \in all
          BY <1>3, <1>6 DEF GoodFiles
        <4>3. /\ Low({f}) \in Int /\ High({f}) \in Int
              /\ \A e \in f.data : Low({f}) <= e.key /\ e.key <= High({f})
          BY <4>2, RangeOne
        <4>4. lo \in Int /\ hi \in Int /\ \A e \in f.data : lo <= e.key /\ e.key <= hi
          BY <1>7, <3>1, <4>2, RangeOf
        <4>5. PICK e \in f.data : TRUE
          BY <4>2
        <4>6. e.key \in Int
          BY <4>2, <4>5, EntryFields DEF File
        <4>7. Low({f}) <= e.key /\ e.key <= High({f}) /\ lo <= e.key /\ e.key <= hi
          BY <4>3, <4>4, <4>5
        <4>. QED BY <4>3, <4>4, <4>6, <4>7 DEF Touches
      <3>3. found \subseteq v[l] /\ \A f \in v[l] : Touches(f, lo, hi) => f \in found
        BY <1>1, <1>8, <3>1, OverlappingFinds DEF GoodSet
      <3>4. NoGap(all)
        BY <1>5, <1>6
      <3>5. NoGap(all \cup found)
        BY <1>1, <1>7, <1>8, <3>4, OverlappingHasNoGap DEF GoodSet
      <3>. QED BY <1>3, <3>2, <3>3, <3>5
    <2>2. found # {} /\ GoodFiles(all \cup found)
      BY <1>1, <1>3, <1>7, <2>1 DEF GoodSet, GoodFiles
    <2>3. PICK K : K = (all \cup found) \cup wide0
      OBVIOUS
    <2>4. found \subseteq wide0 /\ wide0 \subseteq v[l] /\ NoGap(K)
      BY <1>1, <1>8, <2>1, <2>2, <2>3, WithBoundaryHasNoGap
    <2>5. K = all \cup wide0 /\ wide0 # {} /\ wide0 \subseteq K
      BY <2>2, <2>3, <2>4
    <2>6. GoodFiles(K)
      BY <1>1, <1>7, <2>4, <2>5 DEF GoodSet, GoodFiles
    <2>7. wide1 = {g \in v[l + 1] : Touches(g, Low(wide0), High(wide0))} /\ NoGap(K \cup wide1)
      BY <1>8, <2>4, <2>5, <2>6, NextInputs
    <2>8. in1 \subseteq wide1
      <3>1. SUFFICES ASSUME NEW g \in in1 PROVE g \in wide1
        OBVIOUS
      <3>2. GoodSet(in0) /\ GoodSet(wide0) /\ in0 \subseteq wide0
        BY <1>1, <1>3, <2>1, <2>4, FS_Subset DEF GoodSet, GoodFiles
      <3>3. PICK a, b, c, d : a = Low(in0) /\ b = High(in0) /\ c = Low(wide0) /\ d = High(wide0)
        OBVIOUS
      <3>4. a \in Int /\ b \in Int /\ c \in Int /\ d \in Int
        BY <1>3, <2>5, <3>2, <3>3, RangeOf
      <3>5. c <= a
        <4>1. PICK f \in in0 : \E e \in f.data : e.key = a
          BY <1>3, <3>2, <3>3, RangeOf
        <4>2. PICK e \in f.data : e.key = a
          BY <4>1
        <4>3. f \in wide0
          BY <3>2, <4>1
        <4>4. c <= e.key
          BY <2>5, <3>2, <3>3, <4>2, <4>3, RangeOf
        <4>. QED BY <4>2, <4>4
      <3>6. b <= d
        <4>1. PICK f \in in0 : \E e \in f.data : e.key = b
          BY <1>3, <3>2, <3>3, RangeOf
        <4>2. PICK e \in f.data : e.key = b
          BY <4>1
        <4>3. f \in wide0
          BY <3>2, <4>1
        <4>4. e.key <= d
          BY <2>5, <3>2, <3>3, <4>2, <4>3, RangeOf
        <4>. QED BY <4>2, <4>4
      <3>7. g \in v[l + 1] /\ Touches(g, a, b)
        BY <1>5, <3>1, <3>3
      <3>8. g \in File /\ g.data # {} /\ IsFiniteSet(g.data)
        BY <1>1, <3>7 DEF GoodSet, GoodFiles
      <3>9. Low({g}) \in Int /\ High({g}) \in Int
        BY <3>8, RangeOne
      <3>10. Touches(g, c, d)
        BY <3>4, <3>5, <3>6, <3>7, <3>9 DEF Touches
      <3>. QED BY <2>7, <3>3, <3>7, <3>10
    <2>9. K \cup wide1 = wide0 \cup wide1
      BY <1>6, <2>1, <2>4, <2>5, <2>8
    <2>. QED BY <1>11, <2>4, <2>5, <2>7, <2>9 DEF InputsFit
  <1>. QED BY <1>9, <1>10, <1>11

\* What PickCompaction takes.
LEMMA AutoInputsFit ==
    ASSUME NEW v, NEW l \in Levels, l + 1 \in Levels, Good(v), NEW in \in AutoInputs(v, l)
    PROVE  InputsFit(v, l, in)
  <1>1. PICK f \in v[l] :
            in \in Inputs(v, l, IF l = 0 THEN Overlapping(v, 0, Low({f}), High({f})) ELSE {f})
    BY DEF AutoInputs
  <1>2. GoodSet(v[l])
    BY DEF Good
  <1>3. f \in File /\ f.data # {} /\ IsFiniteSet(f.data)
    BY <1>2 DEF GoodSet, GoodFiles
  <1>4. NoGap({f}) /\ GoodSet({f})
    BY <1>3, OneHasNoGap, RangeOne
  <1>5. CASE l = 0
    <2>1. PICK F : F = Overlapping(v, 0, Low({f}), High({f}))
      OBVIOUS
    <2>2. PICK lo, hi : lo = Low({f}) /\ hi = High({f})
      OBVIOUS
    <2>3. Touches(f, lo, hi)
      BY <1>3, <2>2, RangeOne DEF Touches
    <2>4. F \subseteq v[l] /\ f \in F
      BY <1>2, <1>5, <2>1, <2>2, <2>3, OverlappingFinds DEF GoodSet
    <2>5. NoGap({f} \cup F)
      BY <1>2, <1>4, <1>5, <2>1, OverlappingHasNoGap DEF GoodSet
    <2>6. {f} \cup F = F /\ F # {}
      BY <2>4
    <2>7. in \in Inputs(v, l, F)
      BY <1>1, <1>5, <2>1
    <2>. QED BY <2>4, <2>5, <2>6, <2>7, InputsHaveNoGap
  <1>6. CASE l # 0
    <2>1. in \in Inputs(v, l, {f}) /\ {f} \subseteq v[l] /\ {f} # {}
      BY <1>1, <1>6
    <2>. QED BY <1>4, <2>1, InputsHaveNoGap
  <1>. QED BY <1>5, <1>6
-----------------------------------------------------------------------------
(* Levels in order.                                                        *)

InOrder(F) == \A f \in F, g \in F : f # g => Beside(f.data, g.data)
Sorted(v) == \A l \in Levels \ {0} : InOrder(v[l])

LEMMA SortedLevels ==
    ASSUME NEW v, Good(v), Sorted(v)
    PROVE  LevelsSorted(v)
  <1>1. SUFFICES ASSUME NEW l \in Levels \ {0}, NEW f \in v[l], NEW g \in v[l], f # g
                 PROVE  \/ Before(Last(f.data), First(g.data))
                        \/ Before(Last(g.data), First(f.data))
    BY DEF LevelsSorted
  <1>2. Beside(f.data, g.data)
    BY <1>1 DEF Sorted, InOrder
  <1>3. /\ f.data \in SUBSET Entry /\ f.data # {} /\ IsFiniteSet(f.data)
        /\ g.data \in SUBSET Entry /\ g.data # {} /\ IsFiniteSet(g.data)
    BY <1>1 DEF Good, GoodSet, GoodFiles, File
  <1>4. /\ First(f.data) \in f.data /\ Last(f.data) \in f.data
        /\ First(g.data) \in g.data /\ Last(g.data) \in g.data
    BY <1>3, FirstExists, LastExists
  <1>. QED BY <1>2, <1>4 DEF Beside, Apart

LEMMA ApartByKeys ==
    ASSUME NEW D \in SUBSET Entry, NEW E \in SUBSET Entry,
           NEW a \in Int, NEW b \in Int, a < b,
           \A d \in D : d.key <= a, \A e \in E : b <= e.key
    PROVE  Apart(D, E)
  <1>1. SUFFICES ASSUME NEW d \in D, NEW e \in E PROVE Before(d, e)
    BY DEF Apart
  <1>2. d.key \in Int /\ e.key \in Int
    BY EntryFields
  <1>3. d.key < e.key
    BY <1>2
  <1>. QED BY <1>3, BeforeOrder

LEMMA BesideParts ==
    ASSUME NEW D, NEW E, Beside(D, E), NEW A \in SUBSET D, NEW B \in SUBSET E
    PROVE  Beside(A, B) /\ Beside(B, A)
  BY DEF Beside, Apart

\* A file that overlaps none of those without a gap is on one side of all they hold.
LEMMA GapIsBeside ==
    ASSUME NEW F, GoodFiles(F), NoGap(F), NEW f \in File, f.data # {}, IsFiniteSet(f.data),
           \A h \in F : ~Touches(h, Low({f}), High({f}))
    PROVE  Beside(f.data, Content(F))
  <1>1. PICK a, b : a = Low({f}) /\ b = High({f})
    OBVIOUS
  <1>2. a \in Int /\ b \in Int /\ a <= b /\ \A e \in f.data : a <= e.key /\ e.key <= b
    BY <1>1, RangeOne
  <1>3. (\A h \in F : High({h}) < a) \/ (\A h \in F : b < Low({h}))
    BY <1>1, <1>2 DEF NoGap
  <1>4. ASSUME NEW h \in F
        PROVE  /\ h.data \in SUBSET Entry
               /\ Low({h}) \in Int /\ High({h}) \in Int
               /\ \A e \in h.data : Low({h}) <= e.key /\ e.key <= High({h})
    BY RangeOne DEF GoodFiles, File
  <1>5. f.data \in SUBSET Entry
    BY DEF File
  <1>6. CASE \A h \in F : High({h}) < a
    <2>1. ASSUME NEW h \in F PROVE Apart(h.data, f.data)
      <3>1. PICK c : c = High({h})
        OBVIOUS
      <3>2. c \in Int /\ c < a /\ \A e \in h.data : e.key <= c
        BY <1>4, <1>6, <3>1
      <3>3. h.data \in SUBSET Entry
        BY <1>4
      <3>. QED BY <1>2, <1>5, <3>2, <3>3, ApartByKeys
    <2>. QED BY <2>1 DEF Beside, Apart, Content
  <1>7. CASE \A h \in F : b < Low({h})
    <2>1. ASSUME NEW h \in F PROVE Apart(f.data, h.data)
      <3>1. PICK c : c = Low({h})
        OBVIOUS
      <3>2. c \in Int /\ b < c /\ \A e \in h.data : c <= e.key
        BY <1>4, <1>7, <3>1
      <3>3. h.data \in SUBSET Entry
        BY <1>4
      <3>. QED BY <1>2, <1>5, <3>2, <3>3, ApartByKeys
    <2>. QED BY <2>1 DEF Beside, Apart, Content
  <1>. QED BY <1>3, <1>6, <1>7

LEMMA ApartFiles ==
    ASSUME NEW f \in File, f.data # {}, IsFiniteSet(f.data),
           NEW g \in File, g.data # {}, IsFiniteSet(g.data),
           ~Touches(f, Low({g}), High({g}))
    PROVE  Beside(f.data, g.data)
  <1>1. GoodFiles({f}) /\ NoGap({f})
    BY RangeOne, OneHasNoGap DEF GoodSet
  <1>2. Beside(g.data, Content({f}))
    BY <1>1, GapIsBeside
  <1>3. Content({f}) = f.data
    BY DEF Content
  <1>. QED BY <1>2, <1>3 DEF Beside

\* The files of the next level that a compaction leaves are on one side of it.
LEMMA RestIsBeside ==
    ASSUME NEW v, NEW l \in Levels, l + 1 \in Levels, Good(v), Sorted(v),
           NEW in, InputsFit(v, l, in), NEW g \in v[l + 1], g \notin in[2]
    PROVE  Beside(g.data, Content(in[1] \cup in[2]))
  <1>1. PICK I, J : I = in[1] /\ J = in[2]
    OBVIOUS
  <1>2. PICK a, b : a = Low(I) /\ b = High(I)
    OBVIOUS
  <1>3. /\ I \subseteq v[l] /\ I # {}
        /\ J = {h \in v[l + 1] : Touches(h, a, b)}
        /\ ~Touches(g, a, b)
    BY <1>1, <1>2 DEF InputsFit
  <1>4. /\ GoodSet(I) /\ GoodSet(v[l + 1]) /\ InOrder(v[l + 1])
    <2>1. l + 1 # 0
      BY DEF Levels
    <2>. QED BY <1>3, <2>1, FS_Subset DEF Good, GoodSet, GoodFiles, Sorted
  <1>5. a \in Int /\ b \in Int /\ \A f \in I : \A e \in f.data : a <= e.key /\ e.key <= b
    BY <1>2, <1>3, <1>4, RangeOf
  <1>6. PICK c, d : c = Low({g}) /\ d = High({g})
    OBVIOUS
  <1>7. /\ g.data \in SUBSET Entry /\ c \in Int /\ d \in Int
        /\ \A e \in g.data : c <= e.key /\ e.key <= d
        /\ (\E e \in g.data : e.key = c) /\ (\E e \in g.data : e.key = d)
    <2>1. g \in File /\ g.data # {} /\ IsFiniteSet(g.data)
      BY <1>4 DEF GoodSet, GoodFiles
    <2>. QED BY <1>6, <2>1, RangeOne DEF File
  <1>8. d < a \/ b < c
    BY <1>3, <1>5, <1>6, <1>7 DEF Touches
  <1>9. Content(I) \in SUBSET Entry /\ \A e \in Content(I) : a <= e.key /\ e.key <= b
    BY <1>3, <1>4, <1>5, RangeOf DEF Content
  <1>10. ASSUME NEW h \in J
         PROVE  /\ h.data \in SUBSET Entry /\ Beside(g.data, h.data)
                /\ \E e \in h.data : e.key <= b
                /\ \E e \in h.data : a <= e.key
    <2>1. h \in v[l + 1] /\ Touches(h, a, b) /\ h # g
      BY <1>3
    <2>2. h \in File /\ h.data # {} /\ IsFiniteSet(h.data)
      BY <1>4, <2>1 DEF GoodSet, GoodFiles
    <2>3. Low({h}) <= b /\ a <= High({h})
      BY <2>1 DEF Touches
    <2>4. (\E e \in h.data : e.key = Low({h})) /\ (\E e \in h.data : e.key = High({h}))
      BY <2>2, RangeOne
    <2>5. (\E e \in h.data : e.key <= b) /\ (\E e \in h.data : a <= e.key)
      BY <2>3, <2>4
    <2>6. Beside(g.data, h.data)
      BY <1>4, <2>1 DEF InOrder
    <2>. QED BY <2>2, <2>5, <2>6 DEF File
  <1>11. CASE d < a
    <2>1. Apart(g.data, Content(I))
      BY <1>5, <1>7, <1>9, <1>11, ApartByKeys
    <2>2. ASSUME NEW h \in J PROVE Apart(g.data, h.data)
      <3>1. SUFFICES ASSUME Apart(h.data, g.data) PROVE FALSE
        BY <1>10 DEF Beside
      <3>2. PICK x \in g.data : x.key = c
        BY <1>7
      <3>3. PICK y \in h.data : a <= y.key
        BY <1>10
      <3>4. x \in Entry /\ y \in Entry /\ x.key \in Int /\ y.key \in Int /\ x.key <= d
        BY <1>7, <1>10, <3>2, <3>3, EntryFields
      <3>5. y.key <= x.key
        <4>1. Before(y, x)
          BY <3>1, <3>2, <3>3 DEF Apart
        <4>. QED BY <3>4, <4>1, BeforeOrder
      <3>. QED BY <1>5, <1>7, <1>11, <3>3, <3>4, <3>5
    <2>3. Apart(g.data, Content(I \cup J))
      BY <2>1, <2>2 DEF Apart, Content
    <2>. QED BY <1>1, <2>3 DEF Beside
  <1>12. CASE b < c
    <2>1. Apart(Content(I), g.data)
      BY <1>5, <1>7, <1>9, <1>12, ApartByKeys
    <2>2. ASSUME NEW h \in J PROVE Apart(h.data, g.data)
      <3>1. SUFFICES ASSUME Apart(g.data, h.data) PROVE FALSE
        BY <1>10 DEF Beside
      <3>2. PICK x \in g.data : x.key = c
        BY <1>7
      <3>3. PICK y \in h.data : y.key <= b
        BY <1>10
      <3>4. x \in Entry /\ y \in Entry /\ x.key \in Int /\ y.key \in Int
        BY <1>7, <1>10, <3>2, <3>3, EntryFields
      <3>5. x.key <= y.key
        <4>1. Before(x, y)
          BY <3>1, <3>2, <3>3 DEF Apart
        <4>. QED BY <3>4, <4>1, BeforeOrder
      <3>. QED BY <1>5, <1>7, <1>12, <3>2, <3>3, <3>4, <3>5
    <2>3. Apart(Content(I \cup J), g.data)
      BY <2>1, <2>2 DEF Apart, Content
    <2>. QED BY <1>1, <2>3 DEF Beside
  <1>. QED BY <1>8, <1>11, <1>12
-----------------------------------------------------------------------------
(* Version edits.                                                          *)

\* The edit that puts the files of N on level m.
At(m, N) == {<<m, f>> : f \in N}

LEMMA EditedAt ==
    ASSUME NEW v, NEW gone, NEW m, NEW N, NEW l \in Levels
    PROVE  Edited(v, gone, At(m, N))[l]
             = {f \in v[l] : <<l, f>> \notin gone} \cup (IF l = m THEN N ELSE {})
  <1>1. PICK new : new = At(m, N)
    OBVIOUS
  <1>2. {p[2] : p \in {q \in new : q[1] = l}} = IF l = m THEN N ELSE {}
    <2>1. ASSUME NEW p \in new, p[1] = l PROVE l = m /\ p[2] \in N
      <3>1. PICK f \in N : p = <<m, f>>
        BY <1>1, <2>1 DEF At
      <3>. QED BY <2>1, <3>1
    <2>2. ASSUME l = m, NEW f \in N PROVE \E p \in new : p[1] = l /\ p[2] = f
      <3>1. <<m, f>> \in new /\ <<m, f>>[1] = l /\ <<m, f>>[2] = f
        BY <1>1, <2>2 DEF At
      <3>. QED BY <3>1
    <2>. QED BY <2>1, <2>2
  <1>3. Edited(v, gone, new)[l]
          = {f \in v[l] : <<l, f>> \notin gone} \cup {p[2] : p \in {q \in new : q[1] = l}}
    BY DEF Edited
  <1>. QED BY <1>1, <1>2, <1>3

\* New files in order, and beside those that stay, keep a version in order.
LEMMA EditKeepsOrder ==
    ASSUME NEW v, Good(v), Sorted(v), NEW gone, NEW m, NEW N, GoodSet(N),
           m # 0 => /\ InOrder(N)
                    /\ \A f \in N, g \in v[m] : <<m, g>> \notin gone => Beside(g.data, f.data)
    PROVE  /\ Good(Edited(v, gone, At(m, N)))
           /\ Sorted(Edited(v, gone, At(m, N)))
  <1>0. \A l \in Levels : Edited(v, gone, At(m, N))[l]
            = {f \in v[l] : <<l, f>> \notin gone} \cup (IF l = m THEN N ELSE {})
    BY EditedAt
  <1>1. PICK w : w = Edited(v, gone, At(m, N))
    OBVIOUS
  <1>2. \A l \in Levels : w[l] = {f \in v[l] : <<l, f>> \notin gone} \cup (IF l = m THEN N ELSE {})
    BY <1>0, <1>1, Zenon
  <1>3. Good(w)
    <2>1. SUFFICES ASSUME NEW l \in Levels PROVE GoodSet(w[l])
      BY DEF Good
    <2>2. GoodSet(v[l])
      BY DEF Good
    <2>3. PICK A, B : A = {f \in v[l] : <<l, f>> \notin gone} /\ B = IF l = m THEN N ELSE {}
      OBVIOUS
    <2>4. IsFiniteSet(A) /\ IsFiniteSet(B)
      BY <2>2, <2>3, FS_Subset, FS_EmptySet DEF GoodSet
    <2>5. w[l] = A \cup B
      BY <1>2, <2>3
    <2>6. IsFiniteSet(w[l])
      BY <2>4, <2>5, FS_Union
    <2>7. GoodFiles(w[l])
      BY <2>2, <2>3, <2>5 DEF GoodSet, GoodFiles
    <2>. QED BY <2>6, <2>7 DEF GoodSet
  <1>4. Sorted(w)
    <2>1. SUFFICES ASSUME NEW l \in Levels \ {0}, NEW f \in w[l], NEW g \in w[l], f # g
                   PROVE  Beside(f.data, g.data)
      BY DEF Sorted, InOrder
    <2>2. \A x \in v[l], y \in v[l] : x # y => Beside(x.data, y.data)
      BY DEF Sorted, InOrder
    <2>3. CASE l = m
      <3>1. w[l] = {x \in v[l] : <<l, x>> \notin gone} \cup N
        BY <1>2, <2>3
      <3>2. \A x \in N, y \in N : x # y => Beside(x.data, y.data)
        BY <2>3 DEF InOrder
      <3>3. \A x \in N, y \in v[l] : <<l, y>> \notin gone
                => Beside(x.data, y.data) /\ Beside(y.data, x.data)
        BY <2>3 DEF Beside
      <3>. QED BY <2>1, <2>2, <3>1, <3>2, <3>3, Zenon
    <2>4. CASE l # m
      <3>1. w[l] = {x \in v[l] : <<l, x>> \notin gone}
        BY <1>2, <2>4
      <3>. QED BY <2>1, <2>2, <3>1
    <2>. QED BY <2>3, <2>4
  <1>. QED BY <1>1, <1>3, <1>4
-----------------------------------------------------------------------------
(* What is in memory and in the logs is finite.                            *)

MemFinite == IsFiniteSet(mem) /\ \A i \in DOMAIN imm : IsFiniteSet(imm[i])
Finite(log) == \A i \in DOMAIN log.recs : IsFiniteSet(log.recs[i])
LogsFinite == \A n \in DOMAIN logs : Finite(logs[n])

LEMMA EntriesFinite ==
    ASSUME NEW C \in Seq(Call), NEW t
    PROVE  IsFiniteSet(Entries(C, t))
  <1>1. PICK I : I = {j \in 1..Len(C) : C[j].op # "flush"}
    OBVIOUS
  <1>2. IsFiniteSet(I)
    <2>1. IsFiniteSet(1..Len(C)) /\ I \subseteq 1..Len(C)
      BY <1>1, FS_Interval
    <2>. QED BY <2>1, FS_Subset
  <1>3. PICK f : f = [i \in I |-> [key |-> C[i].key, seq |-> t + Count(C, i),
                                   del |-> C[i].op = "del"]]
    OBVIOUS
  <1>4. Entries(C, t) = {f[i] : i \in I}
    BY <1>1, <1>3 DEF Entries
  <1>. QED BY <1>2, <1>4, ImageFinite

LEMMA DataStays ==
    ASSUME MemFinite, LogsFinite, UNCHANGED mem, imm' = <<>> \/ UNCHANGED imm,
           \A n \in DOMAIN logs' : n \in DOMAIN logs /\ logs'[n].recs = logs[n].recs
    PROVE  MemFinite' /\ LogsFinite'
  <1>1. MemFinite'
    BY DEF MemFinite
  <1>2. LogsFinite'
    BY DEF LogsFinite, Finite
  <1>. QED BY <1>1, <1>2

LEMMA SwitchData ==
    ASSUME MemFinite, LogsFinite, SwitchMemTable
    PROVE  MemFinite' /\ LogsFinite'
  <1>1. /\ imm' = <<mem>> /\ mem' = {}
        /\ logs' = [n \in DOMAIN logs \cup {nextFile} |->
                      IF n = nextFile THEN [recs |-> <<>>, firm |-> 0] ELSE logs[n]]
    BY DEF SwitchMemTable
  <1>2. MemFinite'
    BY <1>1, FS_EmptySet DEF MemFinite
  <1>3. LogsFinite'
    <2>1. ASSUME NEW n \in DOMAIN logs' PROVE Finite(logs'[n])
      <3>1. CASE n = nextFile
        <4>1. logs'[n].recs = <<>>
          BY <1>1, <3>1
        <4>. QED BY <4>1 DEF Finite
      <3>2. CASE n # nextFile
        <4>1. n \in DOMAIN logs /\ logs'[n] = logs[n]
          BY <1>1, <3>2
        <4>. QED BY <4>1 DEF LogsFinite
      <3>. QED BY <3>1, <3>2
    <2>. QED BY <2>1 DEF LogsFinite
  <1>. QED BY <1>2, <1>3

LEMMA AppendData ==
    ASSUME MemFinite, LogsFinite, LogsTyped, UNCHANGED <<mem, imm>>, NEW E, IsFiniteSet(E),
           logNumber \in DOMAIN logs,
           logs' = [logs EXCEPT ![logNumber].recs = Append(@, E)]
    PROVE  MemFinite' /\ LogsFinite'
  <1>1. MemFinite'
    BY DEF MemFinite
  <1>2. ASSUME NEW n \in DOMAIN logs' PROVE Finite(logs'[n])
    <2>1. n \in DOMAIN logs
      OBVIOUS
    <2>2. CASE n # logNumber
      BY <2>1, <2>2 DEF LogsFinite
    <2>3. CASE n = logNumber
      <3>1. PICK r : r = logs[n].recs
        OBVIOUS
      <3>2. r \in Seq(SUBSET Entry) /\ \A i \in 1..Len(r) : IsFiniteSet(r[i])
        BY <2>1, <3>1 DEF LogsTyped, Log, LogsFinite, Finite
      <3>3. logs'[n].recs = Append(r, E)
        BY <2>1, <2>3, <3>1 DEF LogsTyped, Log
      <3>4. PICK s : s = Append(r, E)
        OBVIOUS
      <3>5. DOMAIN s = 1..(Len(r) + 1) /\ \A i \in 1..(Len(r) + 1) : s[i] = r[i] \/ s[i] = E
        BY <3>2, <3>4
      <3>6. \A i \in 1..(Len(r) + 1) : s[i] = IF i <= Len(r) THEN r[i] ELSE E
        BY <3>2, <3>4
      <3>7. \A i \in DOMAIN s : IsFiniteSet(s[i])
        BY <3>2, <3>5, <3>6
      <3>. QED BY <3>3, <3>4, <3>7 DEF Finite
    <2>. QED BY <2>2, <2>3
  <1>. QED BY <1>1, <1>2 DEF LogsFinite

LEMMA WriteStepData ==
    ASSUME TypeInv, MemFinite, LogsFinite, WriteStep
    PROVE  MemFinite' /\ LogsFinite'
  <1>. USE DEF TypeInv
  <1>1. CASE UNCHANGED <<mem, imm, logs>>
    BY <1>1, DataStays
  <1>2. CASE Refuse
    BY <1>1, <1>2 DEF Refuse
  <1>3. CASE Lead
    <2>1. UNCHANGED <<mem, imm, logNumber, nextFile, logs>> \/ SwitchMemTable
      BY <1>3 DEF Lead
    <2>. QED BY <1>1, <2>1, SwitchData
  <1>4. CASE LeadFlush
    BY <1>4, SwitchData DEF LeadFlush
  <1>5. stage # "idle" => open /\ logNumber \in DOMAIN logs
    BY DEF IInv, ClosedIsIdle, Typed, RestTyped, LogsTyped
  <1>6. Batch \in Seq(Call)
    BY BatchType DEF Typed, WriteTyped
  <1>7. CASE AddRecord
    <2>1. IsFiniteSet(Entries(Batch, lastSeq))
      BY <1>6, EntriesFinite
    <2>2. /\ stage = "append" /\ UNCHANGED <<mem, imm>>
          /\ logs' = [logs EXCEPT ![logNumber].recs = Append(@, Entries(Batch, lastSeq))]
      BY <1>7 DEF AddRecord
    <2>. QED BY <1>5, <2>1, <2>2, AppendData DEF Typed
  <1>8. CASE AddRecordFails
    <2>1. /\ stage = "append" /\ UNCHANGED <<mem, imm>>
          /\ UNCHANGED logs \/ logs' = [logs EXCEPT ![logNumber].recs = Append(@, {})]
      BY <1>8 DEF AddRecordFails, FailBatch
    <2>. QED BY <1>1, <1>5, <2>1, FS_EmptySet, AppendData DEF Typed
  <1>9. CASE Sync
    <2>1. /\ UNCHANGED <<mem, imm>>
          /\ logs' = [logs EXCEPT ![logNumber].firm = Len(logs[logNumber].recs)]
      BY <1>9 DEF Sync
    <2>2. \A n \in DOMAIN logs' : n \in DOMAIN logs /\ logs'[n].recs = logs[n].recs
      BY <2>1 DEF Typed, LogsTyped, Log
    <2>. QED BY <2>1, <2>2, DataStays
  <1>10. CASE SyncFails
    BY <1>1, <1>10 DEF SyncFails, FailBatch
  <1>11. CASE Apply
    <2>1. IsFiniteSet(Entries(Batch, lastSeq))
      BY <1>6, EntriesFinite
    <2>2. mem' = mem \cup Entries(Batch, lastSeq) /\ UNCHANGED <<imm, logs>>
      BY <1>11 DEF Apply
    <2>3. IsFiniteSet(mem')
      BY <2>1, <2>2, FS_Union DEF MemFinite
    <2>. QED BY <2>2, <2>3 DEF MemFinite, LogsFinite
  <1>12. CASE Flushed
    BY <1>1, <1>12 DEF Flushed, writeVars
  <1>. QED
    BY <1>2, <1>3, <1>4, <1>7, <1>8, <1>9, <1>10, <1>11, <1>12 DEF WriteStep
-----------------------------------------------------------------------------
(* The inductive invariant.  A flush under way goes below files that it    *)
(* overlaps none of; the inputs of the running compaction leave no gap, so *)
(* it finds no place among them; and the outputs follow each other.        *)

CurrentFits == Good(current) /\ Sorted(current)
RecordsFit == \A m \in manifest : /\ Good(m.files) /\ Sorted(m.files)
                                  /\ open => m.files = current

FlushFit(v, w) == /\ GoodSet(w.new) /\ InOrder(w.new)
                  /\ w.level > 0 => \A n \in 0..w.level : \A f \in w.new, g \in v[n] :
                                       ~Touches(g, Low({f}), High({f}))
FlushFits == flush # <<>> => FlushFit(current, flush[1])

JobFit(v, c) ==
    /\ c.level + 1 \in Levels
    /\ c.in0 \subseteq v[c.level] /\ c.in0 # {}
    /\ c.in1 \subseteq v[c.level + 1]
    /\ NoGap(c.in0 \cup c.in1)
    /\ \A g \in v[c.level + 1] \ c.in1 : Beside(g.data, Content(c.in0 \cup c.in1))
    /\ c.todo \subseteq Content(c.in0 \cup c.in1)
    /\ GoodSet(c.outs) /\ InOrder(c.outs)
    /\ \A f \in c.outs : f.data \subseteq Content(c.in0 \cup c.in1) /\ Apart(f.data, c.todo)
CompFits == comp # <<>> => JobFit(current, comp[1])

Placed == CurrentFits /\ RecordsFit /\ FlushFits /\ CompFits
LevelInv == MemFinite /\ LogsFinite /\ Placed

LEMMA PlacedStays ==
    ASSUME Placed, UNCHANGED <<current, manifest, flush, comp, open>>
    PROVE  Placed'
  BY DEF Placed, CurrentFits, RecordsFit, FlushFits, CompFits

\* The job under way flushes one memtable.
LEMMA FlushType ==
    ASSUME BackTyped, flush # <<>>
    PROVE  flush[1].level \in Levels /\ flush[1].new \in SUBSET File
  <1>1. \A R, q : q \in Seq(R) /\ q # <<>> => q[1] \in R
    OBVIOUS
  <1>2. flush \in Seq([new : SUBSET File, level : Levels])
    BY DEF BackTyped
  <1>3. flush[1] \in [new : SUBSET File, level : Levels]
    BY <1>1, <1>2, Zenon
  <1>. QED BY <1>3

\* WriteLevel0Table
LEMMA FlushPlaces ==
    ASSUME TypeInv, LevelInv, WriteLevel0Table
    PROVE  Placed'
  <1>1. /\ imm # <<>> /\ UNCHANGED <<current, manifest, comp, open>>
    BY DEF WriteLevel0Table, unchangedByBackground
  <1>2. PICK f : f = [num |-> nextFile, data |-> imm[1]]
    OBVIOUS
  <1>3. CASE UNCHANGED flush
    BY <1>1, <1>3, PlacedStays DEF LevelInv
  <1>4. CASE flush' = <<[new |-> {}, level |-> 0]>>
    <2>1. flush'[1].new = {} /\ flush'[1].level = 0
      BY <1>4
    <2>2. FlushFit(current, flush'[1])
      BY <2>1, FS_EmptySet DEF FlushFit, GoodSet, GoodFiles, InOrder
    <2>. QED BY <1>1, <2>2 DEF LevelInv, Placed, CurrentFits, RecordsFit, FlushFits, CompFits
  <1>5. ASSUME imm[1] # {}, NEW l \in PickLevels(current, Low({f}), High({f})),
               flush' = <<[new |-> {f}, level |-> l]>>
        PROVE  Placed'
    <2>1. f \in File /\ f.data # {} /\ IsFiniteSet(f.data)
      <3>1. imm[1] \in SUBSET Entry /\ 1 \in DOMAIN imm
        BY <1>1 DEF TypeInv, Typed, RestTyped
      <3>2. nextFile \in Nat /\ IsFiniteSet(imm[1])
        BY <3>1 DEF TypeInv, Typed, RestTyped, LevelInv, MemFinite
      <3>. QED BY <1>2, <1>5, <3>1, <3>2 DEF File
    <2>2. GoodSet({f}) /\ InOrder({f})
      BY <2>1, RangeOne DEF InOrder
    <2>3. l > 0 => \A n \in 0..l : \A g \in current[n] : ~Touches(g, Low({f}), High({f}))
      BY <1>5 DEF PickLevels, OverlapInLevel
    <2>4. flush'[1].new = {f} /\ flush'[1].level = l
      BY <1>5
    <2>5. FlushFit(current, flush'[1])
      BY <2>2, <2>3, <2>4 DEF FlushFit
    <2>. QED BY <1>1, <2>5 DEF LevelInv, Placed, CurrentFits, RecordsFit, FlushFits, CompFits
  <1>6. \/ UNCHANGED flush
        \/ flush' = <<[new |-> {}, level |-> 0]>>
        \/ /\ imm[1] # {}
           /\ \E l \in PickLevels(current, Low({f}), High({f})) :
                 flush' = <<[new |-> {f}, level |-> l]>>
    BY <1>2 DEF WriteLevel0Table
  <1>. QED BY <1>3, <1>4, <1>5, <1>6

\* A version edit that is logged: current and what recovery finds change alike.
LEMMA EditPlaces ==
    ASSUME CurrentFits, RecordsFit, open, NEW gone, NEW n, NEW N, NEW log,
           LogAndApply(gone, At(n, N), log), GoodSet(N),
           n # 0 => /\ InOrder(N)
                    /\ \A f \in N, g \in current[n] : <<n, g>> \notin gone
                                                        => Beside(g.data, f.data)
    PROVE  CurrentFits' /\ RecordsFit'
  <1>1. PICK w : w = Edited(current, gone, At(n, N))
    OBVIOUS
  <1>2. Good(w) /\ Sorted(w)
    BY <1>1, EditKeepsOrder DEF CurrentFits
  <1>3. current' = w
    BY <1>1 DEF LogAndApply
  <1>4. ASSUME NEW m \in manifest' PROVE m.files = w
    <2>1. PICK o \in manifest : m = Logged(o, gone, At(n, N), log)
      BY DEF LogAndApply
    <2>2. o.files = current
      BY DEF RecordsFit
    <2>. QED BY <1>1, <2>1, <2>2 DEF Logged
  <1>. QED BY <1>2, <1>3, <1>4 DEF CurrentFits, RecordsFit

\* CommitMemTable
LEMMA CommitPlaces ==
    ASSUME "manifest" \notin Faults, TypeInv, LevelInv, CommitMemTable
    PROVE  Placed'
  <1>1. /\ flush # <<>> /\ flush' = <<>> /\ UNCHANGED <<comp, open>>
        /\ LogAndApply({}, {<<flush[1].level, f>> : f \in flush[1].new}, logNumber)
    BY DEF CommitMemTable, unchangedByBackground, Fault
  <1>2. PICK n, N : n = flush[1].level /\ N = flush[1].new
    OBVIOUS
  <1>3. LogAndApply({}, At(n, N), logNumber)
    BY <1>1, <1>2 DEF At
  <1>4. /\ n \in Levels /\ n \in Nat
        /\ GoodSet(N) /\ InOrder(N)
        /\ n > 0 => \A k \in 0..n : \A f \in N, g \in current[k] :
                       ~Touches(g, Low({f}), High({f}))
    <2>1. n \in Levels /\ n \in Nat
      BY <1>1, <1>2, FlushType, LevelAssumption DEF TypeInv, Typed, Levels
    <2>. QED BY <1>1, <1>2, <2>1 DEF LevelInv, Placed, FlushFits, FlushFit
  <1>5. open
    BY <1>1 DEF TypeInv, IInv, ClosedIsIdle
  <1>6. CurrentFits' /\ RecordsFit'
    <2>1. ASSUME n # 0, NEW f \in N, NEW g \in current[n] PROVE Beside(g.data, f.data)
      <3>1. GoodSet(current[n])
        BY <1>4 DEF LevelInv, Placed, CurrentFits, Good
      <3>2. ~Touches(g, Low({f}), High({f}))
        BY <1>4, <2>1
      <3>. QED BY <1>4, <3>1, <3>2, ApartFiles DEF GoodSet, GoodFiles
    <2>. QED BY <1>3, <1>4, <1>5, <2>1, EditPlaces DEF LevelInv, Placed
  <1>7. CompFits'
    <2>1. SUFFICES ASSUME comp # <<>> PROVE JobFit(current', comp[1])
      BY <1>1 DEF CompFits
    <2>2. PICK c : c = comp[1]
      OBVIOUS
    <2>3. JobFit(current, c)
      BY <2>1, <2>2 DEF LevelInv, Placed, CompFits
    <2>4. c.level \in Levels
      BY <2>1, <2>2, JobType DEF TypeInv, Typed
    <2>5. PICK all : all = c.in0 \cup c.in1
      OBVIOUS
    <2>6. \A l \in Levels : current'[l] = current[l] \cup (IF l = n THEN N ELSE {})
      <3>1. PICK gone : gone = {}
        OBVIOUS
      <3>2. \A l \in Levels : Edited(current, gone, At(n, N))[l]
                = {f \in current[l] : <<l, f>> \notin gone} \cup (IF l = n THEN N ELSE {})
        BY EditedAt
      <3>3. current' = Edited(current, gone, At(n, N))
        BY <1>3, <3>1 DEF LogAndApply
      <3>. QED BY <3>1, <3>2, <3>3
    <2>7. ASSUME NEW g \in N, n = c.level + 1 PROVE Beside(g.data, Content(all))
      <3>1. n > 0 /\ n \in 0..n /\ c.level \in 0..n
        BY <1>4, <2>4, <2>7 DEF Levels
      <3>2. GoodFiles(all)
        BY <2>3, <2>4, <2>5 DEF JobFit, LevelInv, Placed, CurrentFits, Good, GoodSet, GoodFiles
      <3>3. g \in File /\ g.data # {} /\ IsFiniteSet(g.data)
        BY <1>4 DEF GoodSet, GoodFiles
      <3>4. \A h \in all : ~Touches(h, Low({g}), High({g}))
        BY <1>4, <2>3, <2>5, <2>7, <3>1 DEF JobFit
      <3>5. NoGap(all)
        BY <2>3, <2>5 DEF JobFit
      <3>. QED BY <3>2, <3>3, <3>4, <3>5, GapIsBeside
    <2>8. \A g \in current'[c.level + 1] \ c.in1 : Beside(g.data, Content(all))
      BY <2>3, <2>5, <2>6, <2>7 DEF JobFit
    <2>9. c.in0 \subseteq current'[c.level] /\ c.in1 \subseteq current'[c.level + 1]
      BY <2>3, <2>4, <2>6 DEF JobFit
    <2>. QED BY <2>2, <2>3, <2>5, <2>8, <2>9 DEF JobFit
  <1>. QED BY <1>1, <1>6, <1>7 DEF Placed, FlushFits

\* DoCompactionWork before its loop.
LEMMA StartPlaces ==
    ASSUME Manual = FALSE, TypeInv, LevelInv, StartCompaction
    PROVE  Placed'
  <1>1. UNCHANGED <<current, manifest, flush, open>>
    BY DEF StartCompaction, unchangedByBackground
  <1>2. PICK l \in Levels \ {NumLevels - 1} : \E in \in Picks(l) :
            comp' = <<[level |-> l, in0 |-> in[1], in1 |-> in[2], base |-> current,
                       drop |-> Dropped(current, l, Content(in[1] \cup in[2]), SmallestSnapshot),
                       todo |-> Content(in[1] \cup in[2]), outs |-> {}]>>
    BY DEF StartCompaction
  <1>3. PICK in \in Picks(l) :
            comp' = <<[level |-> l, in0 |-> in[1], in1 |-> in[2], base |-> current,
                       drop |-> Dropped(current, l, Content(in[1] \cup in[2]), SmallestSnapshot),
                       todo |-> Content(in[1] \cup in[2]), outs |-> {}]>>
    BY <1>2
  <1>4. PICK c : c = comp'[1]
    OBVIOUS
  <1>5. /\ c.level = l /\ c.in0 = in[1] /\ c.in1 = in[2] /\ c.outs = {}
        /\ c.todo = Content(in[1] \cup in[2])
    BY <1>3, <1>4
  <1>6. l \in Levels /\ l + 1 \in Levels
    BY LevelAssumption DEF Levels
  <1>7. in \in AutoInputs(current, l)
    BY <1>3 DEF Picks
  <1>8. Good(current) /\ Sorted(current)
    BY DEF LevelInv, Placed, CurrentFits
  <1>9. InputsFit(current, l, in)
    BY <1>6, <1>7, <1>8, AutoInputsFit
  <1>10. \A g \in current[l + 1] \ in[2] : Beside(g.data, Content(in[1] \cup in[2]))
    BY <1>6, <1>8, <1>9, RestIsBeside
  <1>11. in[2] \subseteq current[l + 1]
    BY <1>9 DEF InputsFit
  <1>12. GoodSet({}) /\ InOrder({})
    BY FS_EmptySet DEF GoodSet, GoodFiles, InOrder
  <1>13. JobFit(current, c)
    BY <1>5, <1>6, <1>9, <1>10, <1>11, <1>12 DEF JobFit, InputsFit
  <1>. QED
    BY <1>1, <1>4, <1>13 DEF LevelInv, Placed, CurrentFits, RecordsFit, FlushFits, CompFits

\* BackgroundCompaction, when the file only changes level.
LEMMA MovePlaces ==
    ASSUME "manifest" \notin Faults, TypeInv, LevelInv, TrivialMove
    PROVE  Placed'
  <1>1. Idle /\ UNCHANGED <<flush, comp, open>>
    BY DEF TrivialMove, unchangedByBackground
  <1>2. PICK l \in Levels \ {NumLevels - 1} : \E in \in AutoInputs(current, l) :
            /\ IsTrivialMove(in)
            /\ LogAndApply({<<l, f>> : f \in in[1]}, {<<l + 1, f>> : f \in in[1]}, minLog)
    BY DEF TrivialMove, Fault
  <1>3. PICK in \in AutoInputs(current, l) :
            /\ IsTrivialMove(in)
            /\ LogAndApply({<<l, f>> : f \in in[1]}, {<<l + 1, f>> : f \in in[1]}, minLog)
    BY <1>2
  <1>4. l \in Levels /\ l + 1 \in Levels /\ l + 1 # l /\ l + 1 # 0
    BY LevelAssumption DEF Levels
  <1>5. Good(current) /\ Sorted(current)
    BY DEF LevelInv, Placed, CurrentFits
  <1>6. InputsFit(current, l, in)
    BY <1>3, <1>4, <1>5, AutoInputsFit
  <1>7. PICK gone, n, N : gone = {<<l, f>> : f \in in[1]} /\ n = l + 1 /\ N = in[1]
    OBVIOUS
  <1>8. LogAndApply(gone, At(n, N), minLog)
    BY <1>3, <1>7 DEF At
  <1>9. GoodSet(N)
    <2>1. GoodSet(current[l]) /\ N \subseteq current[l]
      BY <1>4, <1>5, <1>6, <1>7 DEF Good, InputsFit
    <2>. QED BY <2>1, FS_Subset DEF GoodSet, GoodFiles
  <1>10. PICK f : N = {f}
    BY <1>3, <1>7, <1>9, FS_Singleton DEF IsTrivialMove, GoodSet
  <1>11. in[2] = {}
    BY <1>3 DEF IsTrivialMove
  <1>12. ASSUME NEW g \in current[n] PROVE Beside(g.data, f.data)
    <2>1. Beside(g.data, Content(in[1] \cup in[2]))
      BY <1>4, <1>5, <1>6, <1>7, <1>11, RestIsBeside
    <2>2. Content(in[1] \cup in[2]) = f.data
      BY <1>7, <1>10, <1>11 DEF Content
    <2>. QED BY <2>1, <2>2
  <1>13. InOrder(N) /\ \A x \in N, g \in current[n] : <<n, g>> \notin gone
                                                        => Beside(g.data, x.data)
    BY <1>10, <1>12 DEF InOrder
  <1>14. CurrentFits' /\ RecordsFit'
    <2>1. open /\ CurrentFits /\ RecordsFit
      BY <1>1 DEF Idle, LevelInv, Placed
    <2>. QED BY <1>8, <1>9, <1>13, <2>1, EditPlaces
  <1>. QED BY <1>1, <1>14 DEF Placed, FlushFits, CompFits, Idle

\* DoCompactionWork, up to the end of an output file.
LEMMA OutputPlaces ==
    ASSUME TypeInv, LevelInv, WriteOutput
    PROVE  Placed'
  <1>1. comp # <<>> /\ UNCHANGED <<current, manifest, flush, open>>
    BY DEF WriteOutput, unchangedByBackground
  <1>2. PICK c : c = comp[1]
    OBVIOUS
  <1>3. /\ JobFit(current, c) /\ c.level \in Levels /\ c.in0 \in SUBSET File /\ c.in1 \in SUBSET File
        /\ c.todo \in SUBSET Entry /\ IsJob(c)
    BY <1>1, <1>2, JobType
       DEF TypeInv, Typed, LevelInv, Placed, CompFits, IInv, OneAtATime, Job1
  <1>4. PICK e \in c.todo : \E done, f :
            /\ done = {d \in c.todo : ~Before(e, d)}
            /\ f = [num |-> nextFile, data |-> done \ c.drop]
            /\ \/ comp' = <<[c EXCEPT !.todo = @ \ done]>>
               \/ f.data # {} /\ comp' = <<[c EXCEPT !.todo = @ \ done, !.outs = @ \cup {f}]>>
               \/ comp' = <<>>
    BY <1>2 DEF WriteOutput, CleanupCompaction
  <1>5. PICK done, f :
            /\ done = {d \in c.todo : ~Before(e, d)}
            /\ f = [num |-> nextFile, data |-> done \ c.drop]
            /\ \/ comp' = <<[c EXCEPT !.todo = @ \ done]>>
               \/ f.data # {} /\ comp' = <<[c EXCEPT !.todo = @ \ done, !.outs = @ \cup {f}]>>
               \/ comp' = <<>>
    BY <1>4
  <1>6. PICK all, rest : all = Content(c.in0 \cup c.in1) /\ rest = c.todo \ done
    OBVIOUS
  <1>7. c.todo \subseteq all /\ rest \subseteq c.todo /\ done \subseteq c.todo
    BY <1>3, <1>5, <1>6 DEF JobFit
  <1>8. IsFiniteSet(all)
    <2>1. GoodSet(c.in0) /\ GoodSet(c.in1)
      BY <1>3, FS_Subset DEF JobFit, LevelInv, Placed, CurrentFits, Good, GoodSet, GoodFiles
    <2>2. GoodSet(c.in0 \cup c.in1)
      BY <2>1, FS_Union DEF GoodSet, GoodFiles
    <2>3. c.in0 \cup c.in1 # {}
      BY <1>3 DEF JobFit
    <2>. QED BY <1>6, <2>2, <2>3, RangeOf
  <1>9. Apart(done, rest)
    <2>1. SUFFICES ASSUME NEW d \in done, NEW x \in rest PROVE Before(d, x)
      BY DEF Apart
    <2>2. d \in Entry /\ x \in Entry /\ e \in Entry /\ ~Before(e, d) /\ Before(e, x)
      BY <1>3, <1>5, <1>6
    <2>. QED BY <2>2, BeforeOrder
  <1>10. \A g \in c.outs : Apart(g.data, rest) /\ Apart(g.data, done)
    BY <1>3, <1>7 DEF JobFit, Apart
  <1>11. CASE comp' = <<[c EXCEPT !.todo = @ \ done]>>
    <2>1. PICK w : w = comp'[1]
      OBVIOUS
    <2>2. /\ w.level = c.level /\ w.in0 = c.in0 /\ w.in1 = c.in1 /\ w.outs = c.outs
          /\ w.todo = rest
      BY <1>3, <1>6, <1>11, <2>1 DEF IsJob
    <2>3. JobFit(current, w)
      BY <1>3, <1>6, <1>7, <1>10, <2>2 DEF JobFit
    <2>. QED
      BY <1>1, <2>1, <2>3 DEF LevelInv, Placed, CurrentFits, RecordsFit, FlushFits, CompFits
  <1>12. CASE f.data # {} /\ comp' = <<[c EXCEPT !.todo = @ \ done, !.outs = @ \cup {f}]>>
    <2>1. PICK w : w = comp'[1]
      OBVIOUS
    <2>2. /\ w.level = c.level /\ w.in0 = c.in0 /\ w.in1 = c.in1 /\ w.outs = c.outs \cup {f}
          /\ w.todo = rest
      BY <1>3, <1>6, <1>12, <2>1 DEF IsJob
    <2>3. f.data \subseteq done /\ f \in File /\ IsFiniteSet(f.data)
      <3>1. f.data = done \ c.drop /\ f.num = nextFile
        BY <1>5
      <3>2. nextFile \in Nat /\ f.data \subseteq done /\ f.data \in SUBSET Entry
        BY <1>3, <1>7, <3>1 DEF TypeInv, Typed, RestTyped
      <3>3. IsFiniteSet(f.data)
        BY <1>7, <1>8, <3>2, FS_Subset
      <3>. QED BY <1>5, <3>1, <3>2, <3>3 DEF File
    <2>4. GoodSet(w.outs)
      <3>1. GoodSet({f}) /\ GoodSet(c.outs)
        BY <1>3, <1>12, <2>3, RangeOne DEF JobFit
      <3>. QED BY <2>2, <3>1, FS_Union DEF GoodSet, GoodFiles
    <2>5. \A g \in c.outs : Apart(g.data, f.data)
      BY <1>10, <2>3 DEF Apart
    <2>6. InOrder(w.outs)
      BY <1>3, <2>2, <2>5 DEF JobFit, InOrder, Beside
    <2>7. f.data \subseteq all /\ Apart(f.data, rest)
      BY <1>7, <1>9, <2>3 DEF Apart
    <2>8. JobFit(current, w)
      BY <1>3, <1>6, <1>7, <1>10, <2>2, <2>4, <2>6, <2>7 DEF JobFit
    <2>. QED
      BY <1>1, <2>1, <2>8 DEF LevelInv, Placed, CurrentFits, RecordsFit, FlushFits, CompFits
  <1>13. CASE comp' = <<>>
    BY <1>1, <1>13 DEF LevelInv, Placed, CurrentFits, RecordsFit, FlushFits, CompFits
  <1>. QED BY <1>5, <1>11, <1>12, <1>13

\* InstallCompactionResults
LEMMA InstallPlaces ==
    ASSUME "manifest" \notin Faults, TypeInv, LevelInv, Install
    PROVE  Placed'
  <1>1. /\ comp # <<>> /\ flush = <<>> /\ comp' = <<>> /\ UNCHANGED <<flush, open>>
        /\ LogAndApply({<<comp[1].level, f>> : f \in comp[1].in0}
                           \cup {<<comp[1].level + 1, f>> : f \in comp[1].in1},
                       {<<comp[1].level + 1, f>> : f \in comp[1].outs}, minLog)
    BY DEF Install, CleanupCompaction, unchangedByBackground, Fault
  <1>2. PICK c : c = comp[1]
    OBVIOUS
  <1>3. JobFit(current, c)
    BY <1>1, <1>2 DEF LevelInv, Placed, CompFits
  <1>4. PICK gone, n, N : /\ gone = {<<c.level, f>> : f \in c.in0} \cup {<<c.level + 1, f>> : f \in c.in1}
                          /\ n = c.level + 1 /\ N = c.outs
    OBVIOUS
  <1>5. LogAndApply(gone, At(n, N), minLog)
    BY <1>1, <1>2, <1>4 DEF At
  <1>6. open
    BY <1>1 DEF TypeInv, IInv, ClosedIsIdle
  <1>7. GoodSet(N) /\ InOrder(N)
    BY <1>3, <1>4 DEF JobFit
  <1>8. ASSUME NEW f \in N, NEW g \in current[n], <<n, g>> \notin gone
        PROVE  Beside(g.data, f.data)
    <2>1. g \notin c.in1
      BY <1>4, <1>8
    <2>2. Beside(g.data, Content(c.in0 \cup c.in1)) /\ f.data \subseteq Content(c.in0 \cup c.in1)
      BY <1>3, <1>4, <2>1 DEF JobFit
    <2>. QED BY <2>2, BesideParts
  <1>9. CurrentFits' /\ RecordsFit'
    BY <1>5, <1>6, <1>7, <1>8, EditPlaces DEF LevelInv, Placed
  <1>. QED BY <1>1, <1>9 DEF Placed, FlushFits, CompFits

\* Recovery adds tables to level 0 only.
LEMMA ReadableFinite ==
    ASSUME LogsTyped, LogsFinite, NEW n \in DOMAIN logs
    PROVE  IsFiniteSet(Readable(logs[n].recs))
  <1>1. PICK r : r = logs[n].recs
    OBVIOUS
  <1>2. r \in Seq(SUBSET Entry) /\ \A i \in DOMAIN r : IsFiniteSet(r[i])
    BY <1>1 DEF LogsTyped, Log, LogsFinite, Finite
  <1>3. PICK I : I = {j \in DOMAIN r : \A h \in 1..j : r[h] # {}}
    OBVIOUS
  <1>4. IsFiniteSet(I)
    <2>1. DOMAIN r = 1..Len(r) /\ Len(r) \in Nat
      BY <1>2
    <2>2. IsFiniteSet(1..Len(r))
      BY <2>1, FS_Interval
    <2>. QED BY <1>3, <2>1, <2>2, FS_Subset
  <1>5. IsFiniteSet({r[i] : i \in I}) /\ \A D \in {r[i] : i \in I} : IsFiniteSet(D)
    BY <1>2, <1>3, <1>4, ImageFinite
  <1>6. IsFiniteSet(UNION {r[i] : i \in I})
    BY <1>5, FS_UNION
  <1>. QED BY <1>1, <1>3, <1>6 DEF Readable

LEMMA BehindFits ==
    ASSUME LogsTyped, LogsBounded, LogsFinite, NEW p \in Found, NEW n \in DOMAIN logs,
           Good(p.files), Sorted(p.files)
    PROVE  Good(Behind(p, n).files) /\ Sorted(Behind(p, n).files)
  <1>1. PICK D : D = Readable(logs[n].recs)
    OBVIOUS
  <1>2. D \in SUBSET Entry /\ IsFiniteSet(D)
    BY <1>1, ReadableType, ReadableFinite
  <1>3. CASE D = {}
    <2>1. Behind(p, n) = [p EXCEPT !.next = Maximum(@, n + 1)]
      BY <1>1, <1>3 DEF Behind
    <2>2. Behind(p, n).files = p.files
      BY <2>1 DEF Found
    <2>. QED BY <2>2
  <1>4. CASE D # {}
    <2>1. PICK f : f = [num |-> p.next, data |-> D]
      OBVIOUS
    <2>2. Behind(p, n).files = Edited(p.files, {}, {<<0, f>>})
      BY <1>1, <1>4, <2>1 DEF Behind
    <2>3. f \in File /\ f.data # {} /\ IsFiniteSet(f.data)
      BY <1>2, <1>4, <2>1 DEF File, Found
    <2>4. GoodSet({f})
      BY <2>3, RangeOne
    <2>5. At(0, {f}) = {<<0, f>>}
      BY DEF At
    <2>6. PICK gone, m, N : gone = {} /\ m = 0 /\ N = {f}
      OBVIOUS
    <2>7. Good(Edited(p.files, gone, At(m, N))) /\ Sorted(Edited(p.files, gone, At(m, N)))
      BY <2>4, <2>6, EditKeepsOrder
    <2>. QED BY <2>2, <2>5, <2>6, <2>7
  <1>. QED BY <1>3, <1>4

LEMMA RecoverFits ==
    ASSUME LogsTyped, LogsBounded, LogsFinite,
           NEW m \in [files : Version, log : Nat, next : Nat, last : Nat],
           Good(m.files), Sorted(m.files)
    PROVE  Good(RecoverLogs(m).files) /\ Sorted(RecoverLogs(m).files)
  <1>1. PICK c : c = Cardinality(Todo(m))
    OBVIOUS
  <1>2. c \in Nat /\ \A i \in 1..c : Nth(m, i) \in DOMAIN logs
    BY <1>1, NthType DEF Todo
  <1>3. PICK f : /\ RecoverLogs(m) = f[c]
                 /\ f[0] = [files |-> m.files, next |-> m.next + 1, last |-> m.last]
                 /\ \A i \in 1..c : f[i] = Behind(f[i - 1], Nth(m, i))
    BY <1>1, <1>2, RecoverUnfolds
  <1>. DEFINE P == {i \in Nat : f[i] \in Found /\ Good(f[i].files) /\ Sorted(f[i].files)}
  <1>4. 0 \in P
    BY <1>3 DEF Found
  <1>5. \A i \in 1..c : i - 1 \in P => i \in P
    BY <1>2, <1>3, BehindType, BehindFits
  <1>6. \A i \in 0..c : i \in P
    <2>. HIDE DEF P
    <2>. QED BY <1>2, <1>4, <1>5, UpTo
  <1>. QED BY <1>2, <1>3, <1>6

LEMMA OpenKeepsLevels ==
    ASSUME TypeInv, LevelInv, Open
    PROVE  LevelInv'
  <1>1. PICK m \in manifest :
            /\ current' = RecoverLogs(m).files
            /\ logs' = [n \in {RecoverLogs(m).next} |-> [recs |-> <<>>, firm |-> 0]]
            /\ manifest' = {[files |-> RecoverLogs(m).files, log |-> RecoverLogs(m).next,
                             next |-> RecoverLogs(m).next + 1, last |-> RecoverLogs(m).last]}
    BY DEF Open
  <1>2. ~open /\ UNCHANGED <<mem, imm, flush, comp>>
    BY DEF Open
  <1>3. PICK r : r = RecoverLogs(m)
    OBVIOUS
  <1>4. Good(r.files) /\ Sorted(r.files)
    BY <1>3, RecoverFits DEF TypeInv, Typed, BackTyped, LevelInv, Placed, RecordsFit
  <1>5. CurrentFits' /\ RecordsFit'
    <2>1. PICK v, n, t : v = r.files /\ n = r.next /\ t = r.last
      OBVIOUS
    <2>2. /\ current' = v
          /\ manifest' = {[files |-> v, log |-> n, next |-> n + 1, last |-> t]}
      BY <1>1, <1>3, <2>1, Zenon
    <2>3. Good(v) /\ Sorted(v)
      BY <1>4, <2>1
    <2>4. \A x \in manifest' : x.files = v
      BY <2>2
    <2>. QED BY <2>2, <2>3, <2>4 DEF CurrentFits, RecordsFit
  <1>6. flush = <<>> /\ comp = <<>>
    BY <1>2 DEF TypeInv, IInv, ClosedIsIdle
  <1>7. MemFinite'
    BY <1>2 DEF LevelInv, MemFinite
  <1>8. LogsFinite'
    <2>1. ASSUME NEW n \in DOMAIN logs' PROVE logs'[n].recs = <<>>
      BY <1>1
    <2>. QED BY <2>1 DEF LogsFinite, Finite
  <1>. QED BY <1>2, <1>5, <1>6, <1>7, <1>8 DEF LevelInv, Placed, FlushFits, CompFits

\* Nothing is in order when nothing is there.
LEMMA NoFilesFit == Good(NoFiles) /\ Sorted(NoFiles)
  <1>1. \A l \in Levels : NoFiles[l] = {}
    BY DEF NoFiles
  <1>. QED BY <1>1, FS_EmptySet DEF Good, Sorted, GoodSet, GoodFiles, InOrder

LEMMA StopKeepsLevels ==
    ASSUME TypeInv, LevelInv, Stop
    PROVE  LevelInv'
  <1>1. /\ mem' = {} /\ imm' = <<>> /\ flush' = <<>> /\ comp' = <<>>
        /\ current' = NoFiles /\ open' = FALSE /\ UNCHANGED manifest
        /\ \E machine \in BOOLEAN : logs' \in Cut(machine)
    BY DEF Stop
  <1>2. MemFinite'
    BY <1>1, FS_EmptySet DEF MemFinite
  <1>3. PICK machine \in BOOLEAN : logs' \in Cut(machine)
    BY <1>1
  <1>4. PICK c : /\ logs' = [n \in DOMAIN logs |-> [recs |-> SubSeq(logs[n].recs, 1, c[n]),
                                                   firm |-> c[n]]]
                 /\ \A n \in DOMAIN logs :
                       c[n] \in (IF machine THEN logs[n].firm ELSE Len(logs[n].recs))
                                ..Len(logs[n].recs)
    BY <1>3 DEF Cut
  <1>5. ASSUME NEW n \in DOMAIN logs' PROVE Finite(logs'[n])
    <2>1. n \in DOMAIN logs
      BY <1>4
    <2>2. PICK r, k, s : r = logs[n].recs /\ k = c[n] /\ s = SubSeq(r, 1, k)
      OBVIOUS
    <2>3. r \in Seq(SUBSET Entry) /\ \A i \in 1..Len(r) : IsFiniteSet(r[i])
      BY <2>1, <2>2 DEF TypeInv, Typed, LogsTyped, Log, LevelInv, LogsFinite, Finite
    <2>4. logs[n].firm \in Nat /\ Len(r) \in Nat
      BY <2>1, <2>3 DEF TypeInv, Typed, LogsTyped, Log
    <2>5. k \in 0..Len(r)
      BY <1>4, <2>1, <2>2, <2>4
    <2>6. Len(s) = k /\ s \in Seq(SUBSET Entry) /\ \A i \in 1..k : s[i] = r[i]
      <3>1. \A i \in 1..k : r[i] \in SUBSET Entry
        BY <2>3, <2>5
      <3>. QED BY <2>2, <2>5, <3>1, SubSeqProperties
    <2>7. \A i \in DOMAIN s : IsFiniteSet(s[i])
      BY <2>3, <2>5, <2>6
    <2>8. logs'[n].recs = s
      BY <1>4, <2>1, <2>2
    <2>. QED BY <2>7, <2>8 DEF Finite
  <1>6. LogsFinite'
    BY <1>5 DEF LogsFinite
  <1>. QED
    BY <1>1, <1>2, <1>6, NoFilesFit
       DEF LevelInv, Placed, CurrentFits, RecordsFit, FlushFits, CompFits
-----------------------------------------------------------------------------
LEMMA InitLevels == ASSUME Init PROVE LevelInv
  <1>1. MemFinite
    BY FS_EmptySet DEF Init, MemFinite
  <1>2. LogsFinite
    BY DEF Init, LogsFinite, Finite
  <1>3. \A m \in manifest : m.files = NoFiles
    BY DEF Init
  <1>. QED
    BY <1>1, <1>2, <1>3, NoFilesFit
       DEF Init, LevelInv, Placed, CurrentFits, RecordsFit, FlushFits, CompFits

LEMMA BackgroundData ==
    ASSUME LevelInv, BackgroundStep
    PROVE  MemFinite' /\ LogsFinite'
  <1>1. UNCHANGED unchangedByBackground /\ (imm' = <<>> \/ UNCHANGED imm)
    BY DEF BackgroundStep, WriteLevel0Table, CommitMemTable, StartCompaction, TrivialMove,
           WriteOutput, Install
  <1>2. UNCHANGED logs \/ logs' = [n \in {m \in DOMAIN logs : m >= minLog'} |-> logs[n]]
    BY DEF BackgroundStep, WriteLevel0Table, CommitMemTable, StartCompaction, TrivialMove,
           WriteOutput, Install, DeleteObsoleteFiles
  <1>3. \A n \in DOMAIN logs' : n \in DOMAIN logs /\ logs'[n].recs = logs[n].recs
    BY <1>2
  <1>. QED BY <1>1, <1>3, DataStays DEF LevelInv, unchangedByBackground, writeVars

LEMMA LevelInvKept ==
    ASSUME Manual = FALSE, "manifest" \notin Faults, TypeInv, LevelInv, [Next]_vars
    PROVE  LevelInv'
  <1>1. ASSUME UNCHANGED <<mem, imm, logs, current, manifest, flush, comp, open>>
        PROVE  LevelInv'
    BY <1>1, PlacedStays, DataStays DEF LevelInv
  <1>2. CASE UNCHANGED vars
    BY <1>1, <1>2 DEF vars, writeVars, backVars
  <1>3. ASSUME NEW c \in Calls, Write(c)
        PROVE  LevelInv'
    BY <1>1, <1>3 DEF Write, backVars
  <1>4. CASE WriteStep
    <2>1. UNCHANGED <<backVars, open>>
      BY <1>4 DEF WriteStep, Refuse, Lead, LeadFlush, AddRecord, AddRecordFails, Sync, SyncFails,
                  Apply, Flushed, FailBatch
    <2>2. UNCHANGED <<current, manifest, flush, comp, open>>
      BY <2>1 DEF backVars
    <2>. QED BY <1>4, <2>2, PlacedStays, WriteStepData DEF LevelInv
  <1>5. CASE BackgroundStep
    <2>1. Placed'
      BY <1>5, FlushPlaces, CommitPlaces, StartPlaces, MovePlaces, OutputPlaces, InstallPlaces
         DEF BackgroundStep
    <2>. QED BY <1>5, <2>1, BackgroundData DEF LevelInv
  <1>6. CASE GetSnapshot \/ ReleaseSnapshot \/ NewIterator \/ DeleteIterator
    <2>1. UNCHANGED unchangedByReaders
      BY <1>6 DEF GetSnapshot, ReleaseSnapshot, NewIterator, DeleteIterator
    <2>. QED BY <1>1, <2>1 DEF unchangedByReaders, writeVars, backVars
  <1>7. CASE Stop
    BY <1>7, StopKeepsLevels
  <1>8. CASE Open
    BY <1>8, OpenKeepsLevels
  <1>. QED BY <1>2, <1>3, <1>4, <1>5, <1>6, <1>7, <1>8 DEF Next

\* "Make sure there is no overlap in levels > 0" (version_set.cc:724) never fails,
\* whatever the keys, levels, bounds and crashes and whichever other file operations
\* fail, as long as ranges are not compacted by hand and MANIFEST records are written.
THEOREM LevelsNeverOverlap ==
    ASSUME Manual = FALSE, "manifest" \notin Faults
    PROVE  Spec => []NoOverlap
  <1>1. Init => TypeInv /\ LevelInv
    BY InitTyped, InitLevels
  <1>2. TypeInv /\ LevelInv /\ [Next]_vars => TypeInv' /\ LevelInv'
    BY TypeInvKept, LevelInvKept
  <1>3. LevelInv => NoOverlap
    BY SortedLevels DEF LevelInv, Placed, CurrentFits, RecordsFit, NoOverlap
  <1>. QED BY <1>1, <1>2, <1>3, PTL DEF Spec
=============================================================================
