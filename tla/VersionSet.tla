----------------------------- MODULE VersionSet -----------------------------
(***************************************************************************)
(* LevelDB's entries, table files and versions (leveldb-library:           *)
(* db/dbformat.cc and db/version_set.cc), as operators: what a read finds, *)
(* where a memtable goes, what a compaction takes and what it drops.       *)
(*                                                                         *)
(* An entry is a user key under a sequence number; a put's value is known  *)
(* by that number.  A file is its number and the entries of its table.  A  *)
(* version is the set of files of each level.  Sizes are left out: where   *)
(* the code compares bytes with a limit, both outcomes are offered.        *)
(***************************************************************************)
EXTENDS Integers, FiniteSets

CONSTANTS NumLevels, MaxMemCompactLevel   \* config::kNumLevels, kMaxMemCompactLevel

ASSUME LevelAssumption == /\ NumLevels \in Nat \ {0}
                          /\ MaxMemCompactLevel \in 0..(NumLevels - 1)

Levels == 0..(NumLevels - 1)
NoFiles == [l \in Levels |-> {}]
FilesOf(v) == UNION {v[l] : l \in Levels}

\* InternalKeyComparator::Compare: user keys ascending, sequence numbers descending.
Before(a, b) == a.key < b.key \/ (a.key = b.key /\ a.seq > b.seq)

First(D) == CHOOSE e \in D : \A d \in D : ~Before(d, e)
Last(D) == CHOOSE e \in D : \A d \in D : ~Before(e, d)
Content(F) == UNION {f.data : f \in F}
Low(F) == First(Content(F)).key
High(F) == Last(Content(F)).key
-----------------------------------------------------------------------------
\* The entry that a read of key k at sequence number s finds in D, if any.
Seen(D, k, s) == {e \in D : /\ e.key = k /\ e.seq <= s
                            /\ \A d \in D : d.key = k /\ d.seq <= s => d.seq <= e.seq}

\* What it shows of the entries found, one at most: the number of a put, or 0.
Value(e) == IF e.del THEN 0 ELSE e.seq
Shown(E) ==
    CHOOSE n \in {IF D = {} THEN 0 ELSE Value(CHOOSE e \in D : TRUE) : D \in {E}} : TRUE

\* FindFile: the files of level l from the internal key <<k, s>> on.
From(v, l, k, s) == {f \in v[l] : \E e \in f.data : k < e.key \/ (k = e.key /\ e.seq <= s)}

\* The files Version::Get reads on level l: on level 0 all that hold an entry, of
\* which the newest decides; above, where files are in order, the first that does
\* not end before the key.
Opened(v, l, k, s) ==
    IF l = 0
    THEN {f \in v[0] : /\ Seen(f.data, k, s) # {}
                       /\ \A g \in v[0] : Seen(g.data, k, s) # {} => g.num <= f.num}
    ELSE {f \in From(v, l, k, s) :
             \A g \in From(v, l, k, s) : ~Before(Last(g.data), Last(f.data))}
SeenAt(v, l, k, s) == UNION {Seen(f.data, k, s) : f \in Opened(v, l, k, s)}

\* Version::Get: the first level with an entry decides.
SeenIn(v, k, s) ==
    UNION {UNION {at[l] : l \in {n \in Levels : \A m \in 0..(n - 1) : at[m] = {}}} :
           at \in {[l \in Levels |-> SeenAt(v, l, k, s)]}}
-----------------------------------------------------------------------------
Touches(f, lo, hi) == Low({f}) <= hi /\ lo <= High({f})
OverlapInLevel(v, l, lo, hi) == \E f \in v[l] : Touches(f, lo, hi)

PickDeepest(v, lo, hi) ==   \* slip: level 0 alone is looked at
    {IF OverlapInLevel(v, 0, lo, hi) THEN 0 ELSE MaxMemCompactLevel}
\* Version::PickLevelForMemTableOutput: how far down a table with keys lo..hi may go.
PickLevels(v, lo, hi) ==
    {l \in 0..MaxMemCompactLevel :
        /\ l > 0 => \A m \in 0..l : ~OverlapInLevel(v, m, lo, hi)
        /\ \/ l = MaxMemCompactLevel
           \/ OverlapInLevel(v, 0, lo, hi)
           \/ OverlapInLevel(v, l + 1, lo, hi)
           \/ l + 2 < NumLevels /\ OverlapInLevel(v, l + 2, lo, hi)}

\* Version::GetOverlappingInputs: on level 0 a file found widens the range.
Overlapping(v, l, lo, hi) ==
    LET reach[n \in 0..Cardinality(v[l])] ==
            IF n = 0 THEN {f \in v[l] : Touches(f, lo, hi)}
            ELSE {f \in v[l] : \/ f \in reach[n - 1]
                               \/ /\ l = 0 /\ reach[n - 1] # {}
                                  /\ Touches(f, Low(reach[n - 1]), High(reach[n - 1]))}
    IN  {f \in v[l] : f \in reach[Cardinality(v[l])]}

WithoutBoundary(v, l, F) == F   \* slip: as before AddBoundaryInputs
\* AddBoundaryInputs: the files whose first key is the last user key of F, older entries.
WithBoundary(v, l, F) ==
    LET next(G) == {f \in v[l] : /\ First(f.data).key = High(G)
                                 /\ Before(Last(Content(G)), First(f.data))}
        grow[n \in 0..Cardinality(v[l])] ==
            IF n = 0 THEN F
            ELSE grow[n - 1] \cup
                 {f \in next(grow[n - 1]) :
                     \A g \in next(grow[n - 1]) : ~Before(First(g.data), First(f.data))}
    IN  F \cup {f \in v[l] : F # {} /\ f \in grow[Cardinality(v[l])]}

\* SetupOtherInputs: the files of level l and of the next one that F draws in.
Inputs(v, l, F) ==
    LET in0 == WithBoundary(v, l, F)
        in1 == Overlapping(v, l + 1, Low(in0), High(in0))
        all == in0 \cup in1
        wide0 == WithBoundary(v, l, Overlapping(v, l, Low(all), High(all)))
        wide1 == Overlapping(v, l + 1, Low(wide0), High(wide0))
    IN  {<<in0, in1>>} \cup
        IF in1 # {} /\ Cardinality(wide0) > Cardinality(in0)
                    /\ Cardinality(wide1) = Cardinality(in1)
        THEN {<<wide0, wide1>>} ELSE {}

\* PickCompaction: the inputs it may take on level l.
AutoInputs(v, l) ==
    UNION {Inputs(v, l, IF l = 0 THEN Overlapping(v, 0, Low({f}), High({f})) ELSE {f}) :
           f \in v[l]}

\* VersionSet::CompactRange: above level 0 the first files of the range may be enough.
ManualInputs(v, l, lo, hi) ==
    LET all == Overlapping(v, l, lo, hi)
        upTo(f) == {g \in all : ~Before(First(f.data), First(g.data))}
    IN  UNION {Inputs(v, l, F) : F \in (IF l = 0 THEN {all} ELSE {upTo(f) : f \in all}) \ {{}}}
-----------------------------------------------------------------------------
IsBaseLevelAlways(v, l, k) == TRUE   \* slip
\* Compaction::IsBaseLevelForKey
IsBaseLevelForKey(v, l, k) ==
    \A m \in Levels : m >= l + 2 => ~OverlapInLevel(v, m, k, k)

\* DoCompactionWork: entries of a merge of D that no read at s or later needs.
Dropped(v, l, D, s) ==
    {e \in D : \/ \E d \in D : /\ d.key = e.key /\ d.seq > e.seq
                               /\ d.seq <= s                     \* rule (A)
               \/ e.del /\ e.seq <= s /\ IsBaseLevelForKey(v, l, e.key)}

\* VersionSet::Builder: v without the files of gone and with those of new, by level.
Edited(v, gone, new) ==
    [l \in Levels |-> {f \in v[l] : <<l, f>> \notin gone}
                      \cup {p[2] : p \in {q \in new : q[1] = l}}]

\* Make sure there is no overlap in levels > 0 (SaveTo, MaybeAddFile).
LevelsSorted(v) ==
    \A l \in Levels \ {0} : \A f, g \in v[l] :
        f # g => \/ Before(Last(f.data), First(g.data))
                 \/ Before(Last(g.data), First(f.data))
=============================================================================
