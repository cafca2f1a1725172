----------------------------- MODULE WriteBatch -----------------------------
(***************************************************************************)
(* Calls of DB::Put, DB::Delete and of the forced flush (a null batch),    *)
(* and the entries that a group of them writes                             *)
(* (leveldb-library: db/write_batch.cc, DBImpl::BuildBatchGroup).          *)
(***************************************************************************)
EXTENDS Naturals, Sequences, FiniteSets

\* What calls 1 to i of C count for: a null batch has no entry.
Count(C, i) == Cardinality({j \in 1..i : C[j].op # "flush"})

\* The entries of the calls C, numbered from t + 1 on in the order of the calls.
Entries(C, t) == {[key |-> C[i].key, seq |-> t + Count(C, i), del |-> C[i].op = "del"] :
                  i \in {j \in 1..Len(C) : C[j].op # "flush"}}
SyncedEntries(C, t) == {e \in Entries(C, t) :
                          \E i \in 1..Len(C) : C[i].sync /\ t + Count(C, i) = e.seq}

\* Values by key: d with the entries E on top, a removed key as 0.
Over(d, E) == [k \in DOMAIN d |->
                 LET W == {e \in E : e.key = k}
                     e == CHOOSE x \in W : \A y \in W : y.seq <= x.seq
                 IN  IF W = {} THEN d[k] ELSE IF e.del THEN 0 ELSE e.seq]
ValuesAt(E, k) == {IF e.del THEN 0 ELSE e.seq : e \in {x \in E : x.key = k}}
=============================================================================
