----------------------------- MODULE DBIterator -----------------------------
(***************************************************************************)
(* LevelDB's iterators (leveldb-library: table/merger.cc, db/db_iter.cc):  *)
(* MergingIterator walks the entries of the memtables and files in the     *)
(* order of their internal keys, DBIter makes of them the user's keys, and *)
(* both may turn round at any entry.                                       *)
(*                                                                         *)
(* A child is the set of entries it iterates over; its position is the     *)
(* set of the entry it is at, empty when it is not valid.  The files of a  *)
(* level above 0, which are in order, are one child.                       *)
(***************************************************************************)
EXTENDS LevelDB

Ahead(D, e) == {d \in D : Before(e, d)}
Behind(D, e) == {d \in D : Before(d, e)}
FirstOf(D) == IF D = {} THEN {} ELSE {First(D)}
LastOf(D) == IF D = {} THEN {} ELSE {Last(D)}

\* NewInternalIterator, Version::AddIterators
Children == {mem} \cup {imm[i] : i \in DOMAIN imm} \cup {f.data : f \in current[0]}
            \cup {Content(current[l]) : l \in Levels \ {0}}
-----------------------------------------------------------------------------
\* The child, if any, that is at one of the entries.
ChildAt(at, E) == LET C == {D \in DOMAIN at : E # {} /\ E \subseteq at[D]}
                  IN  IF C = {} THEN {} ELSE {CHOOSE D \in C : TRUE}
Heads(at) == UNION {at[D] : D \in DOMAIN at}
FindSmallest(at) == [at |-> at, cur |-> ChildAt(at, FirstOf(Heads(at))), forward |-> TRUE]
FindLargest(at) == [at |-> at, cur |-> ChildAt(at, LastOf(Heads(at))), forward |-> FALSE]

Valid(m) == m.cur # {}
Here(m) == CHOOSE e \in UNION {m.at[D] : D \in m.cur} : TRUE

MergeSeek(target) == FindSmallest([D \in Children |-> FirstOf(D \ Behind(D, target))])
MergeFirst == FindSmallest([D \in Children |-> FirstOf(D)])
MergeLast == FindLargest([D \in Children |-> LastOf(D)])

\* Next and Prev: the other children move when the direction changes, and only then.
MergeNext(m) ==
    FindSmallest([D \in DOMAIN m.at |->
                    IF D \in m.cur \/ ~m.forward THEN FirstOf(Ahead(D, Here(m))) ELSE m.at[D]])
MergePrevAlone(m) ==   \* slip: the others stay where they are
    FindLargest([D \in DOMAIN m.at |->
                   IF D \in m.cur THEN LastOf(Behind(D, Here(m))) ELSE m.at[D]])
MergePrev(m) ==
    FindLargest([D \in DOMAIN m.at |->
                   IF D \in m.cur \/ m.forward THEN LastOf(Behind(D, Here(m))) ELSE m.at[D]])
-----------------------------------------------------------------------------
Off == [valid |-> FALSE]
On(m, forward, e) ==
    [valid |-> TRUE, merge |-> m, forward |-> forward, key |-> e.key, value |-> e.seq]

\* FindNextUserEntry: skip is the key being skipped, if any.
RECURSIVE FindNextUserEntry(_, _, _)
FindNextUserEntry(m, skip, s) ==
    LET e == Here(m)
    IN  IF ~Valid(m) THEN Off
        ELSE IF e.seq <= s /\ ~e.del /\ \A k \in skip : e.key > k THEN On(m, TRUE, e)
        ELSE FindNextUserEntry(MergeNext(m),
                               IF e.seq <= s /\ e.del THEN {e.key} ELSE skip, s)

\* FindPrevUserEntry: saved is the entry to yield, if none hides it.
RECURSIVE FindPrevUserEntry(_, _, _)
FindPrevUserEntry(m, saved, s) ==
    LET e == Here(m)
        yield == CHOOSE x \in saved : TRUE
    IN  IF Valid(m) /\ (e.seq > s \/ saved = {} \/ e.key >= yield.key)
        THEN FindPrevUserEntry(MergePrev(m),
                               IF e.seq > s THEN saved ELSE IF e.del THEN {} ELSE {e}, s)
        ELSE IF saved = {} THEN Off ELSE On(m, FALSE, yield)

\* The last entry of a key before k.
RECURSIVE BackBefore(_, _)
BackBefore(m, k) == IF Valid(m) /\ Here(m).key >= k THEN BackBefore(MergePrev(m), k) ELSE m

Seek(k, s) == FindNextUserEntry(MergeSeek([key |-> k, seq |-> s]), {}, s)
SeekToFirst(s) == FindNextUserEntry(MergeFirst, {}, s)
SeekToLast(s) == FindPrevUserEntry(MergeLast, {}, s)

\* In reverse the merge stands before all entries of the key shown.
NextKey(it, s) ==
    FindNextUserEntry(IF it.forward THEN it.merge
                      ELSE IF Valid(it.merge) THEN MergeNext(it.merge) ELSE MergeFirst,
                      {it.key}, s)
PrevKey(it, s) ==
    LET m == IF it.forward THEN BackBefore(MergePrev(it.merge), it.key) ELSE it.merge
    IN  IF it.forward /\ ~Valid(m) THEN Off ELSE FindPrevUserEntry(m, {}, s)
-----------------------------------------------------------------------------
\* it is at the first of the keys K, or off when there is none.
LandsOn(it, K, s) ==
    IF K = {} THEN it = Off
    ELSE it.valid /\ it.key \in K /\ it.value = Get(it.key, s)

Least(K) == {k \in K : \A j \in K : k <= j}
Greatest(K) == {k \in K : \A j \in K : j <= k}

(* Iterators show what point reads show, key after key, wherever they      *)
(* start and turn round: Version::Get stops at the first level that has    *)
(* the key, an iterator merges all levels.                                 *)
ReadsAgree ==
    \A s \in snaps \cup {lastSeq} :
        LET shown == {k \in Keys : Get(k, s) # 0}
        IN  /\ LandsOn(SeekToFirst(s), Least(shown), s)
            /\ LandsOn(SeekToLast(s), Greatest(shown), s)
            /\ \A k \in Keys :
                  LET it == Seek(k, s)
                      above == Least({j \in shown : j > k})
                      below == Greatest({j \in shown : j < k})
                      next == NextKey(it, s)
                      prev == PrevKey(it, s)
                  IN  /\ LandsOn(it, Least({j \in shown : j >= k}), s)
                      /\ k \in shown =>
                            /\ LandsOn(next, above, s)
                            /\ LandsOn(prev, below, s)
                            /\ above # {} => LandsOn(PrevKey(next, s), {k}, s)
                            /\ below # {} => LandsOn(NextKey(prev, s), {k}, s)
=============================================================================
