------------------------------ MODULE DBWrite -------------------------------
(***************************************************************************)
(* The write path of LevelDB (DBImpl::Write, MakeRoomForWrite and          *)
(* BuildBatchGroup, db/db_impl.cc): calls queue up, the first of them      *)
(* leads, writes a batch for a prefix of the queue with the mutex released *)
(* and returns for all of them.  A null batch comes from                   *)
(* TEST_CompactMemTable, which then waits for imm_ to go.                  *)
(*                                                                         *)
(* Bounds: MaxQueue calls at a time, MaxSeq entries; no flush is forced    *)
(* once MaxForced file numbers are in use.                                 *)
(***************************************************************************)
EXTENDS DBState

CONSTANTS Ops, Syncs, MaxQueue, MaxSeq, MaxForced, L0Stop   \* kL0_StopWritesTrigger

ASSUME WriteAssumption == /\ Ops \subseteq {"put", "del", "flush"}
                          /\ Syncs \subseteq BOOLEAN
                          /\ {MaxQueue, MaxSeq, MaxForced, L0Stop} \subseteq Nat

Busy == stage # "idle"
Batch == SubSeq(queue, 1, group)
Leader == queue[1]

\* A store with the history of what the calls wrote.
History == INSTANCE KeyValueStore WITH
    clock <- lastSeq, db <- View(lastSeq), views <- [s \in snaps |-> View(s)], calls <- queue

Write(call) ==
    /\ open
    /\ Len(queue) < MaxQueue
    /\ IF call.op = "flush" THEN nextFile < MaxForced
       ELSE lastSeq + Count(queue, Len(queue)) < MaxSeq
    /\ queue' = Append(queue, call)
    /\ UNCHANGED <<stage, group, mem, lastSeq, limbo, kept, backVars, readVars, forceVars, imm,
                   logNumber, nextFile, bgError, open, logs, faults, starts>>

\* The first n calls return; those with a null batch, if it went well, to wait.
Return(n, ok) ==
    /\ queue' = SubSeq(queue, n + 1, Len(queue))
    /\ stage' = "idle"
    /\ group' = 0
    /\ forcing' = forcing \cup {queue[i].mark : i \in {j \in 1..n : ok /\ queue[j].op = "flush"}}

\* Neither the last memtable nor the level-0 files stop a switch, and it is due.
MaySwitch == /\ ~bgError
             /\ imm = <<>>
             /\ Cardinality(current[0]) < L0Stop
             /\ mem # {} \/ Leader.op = "flush"

\* MakeRoomForWrite fails: after a background error, or for want of a log file.
Refuse ==
    /\ queue # <<>> /\ ~Busy
    /\ \/ bgError /\ UNCHANGED faults
       \/ MaySwitch /\ Fault("newlog")
    /\ Return(1, FALSE)
    /\ UNCHANGED <<mem, lastSeq, limbo, kept, backVars, readVars, forced, imm, logNumber,
                   nextFile, bgError, open, logs, starts>>

\* MakeRoomForWrite: a new log and memtable, the old one to be compacted.
SwitchMemTable ==
    /\ MaySwitch
    /\ imm' = <<mem>>
    /\ mem' = {}
    /\ logNumber' = nextFile
    /\ nextFile' = nextFile + 1
    /\ logs' = [n \in DOMAIN logs \cup {nextFile} |->
                  IF n = nextFile THEN [recs |-> <<>>, firm |-> 0] ELSE logs[n]]

AnyGroupSizes == 1..Len(queue)   \* slip: whoever waits joins
\* BuildBatchGroup: a sync write is not left to a leader that does not sync,
\* and the batch stops where it gets too big.
GroupSizes ==
    {n \in 1..Len(queue) :
        /\ \A i \in 1..n : queue[i].sync => Leader.sync
        /\ n = Len(queue) \/ queue[n + 1].op # "flush"}

\* The leader finds room, or makes it, and lets go of the mutex.
Lead ==
    /\ queue # <<>> /\ ~Busy /\ ~bgError
    /\ Leader.op # "flush"
    /\ \/ UNCHANGED <<mem, imm, logNumber, nextFile, logs>>
       \/ SwitchMemTable
    /\ group' \in GroupSizes
    /\ stage' = "append"
    /\ UNCHANGED <<queue, lastSeq, limbo, kept, backVars, readVars, forceVars, bgError, open,
                   faults, starts>>

\* A null batch at the head of the queue: force the switch and return.
LeadFlush ==
    /\ queue # <<>> /\ ~Busy /\ ~bgError
    /\ Leader.op = "flush"
    /\ SwitchMemTable
    /\ Return(1, TRUE)
    /\ UNCHANGED <<lastSeq, limbo, kept, backVars, readVars, forced, bgError, open, faults, starts>>

\* log_->AddRecord
AddRecord ==
    LET E == Entries(Batch, lastSeq)
    IN  /\ stage = "append"
        /\ logs' = [logs EXCEPT ![logNumber].recs = Append(@, E)]
        /\ stage' = IF Leader.sync THEN "sync" ELSE "apply"
        /\ limbo' = [k \in Keys |-> limbo[k] \cup ValuesAt(E, k)]
        /\ kept' = [k \in Keys |-> kept[k] \cup ValuesAt(E, k)]
        /\ UNCHANGED <<queue, group, mem, lastSeq, open, backVars, readVars, forceVars, imm, logNumber, nextFile,
                       bgError, faults, starts>>

\* The batch fails; its numbers are used up all the same.
FailBatch == /\ lastSeq' = lastSeq + Count(queue, group)
             /\ Return(group, FALSE)
             /\ UNCHANGED <<mem, limbo, kept, backVars, readVars, forced, imm, logNumber,
                            nextFile, open, starts>>

\* AddRecord fails, having written nothing or part of the record: a torn one,
\* here one without entries.  The next call writes on behind it.
AddRecordFails ==
    /\ stage = "append"
    /\ Fault("append")
    /\ \/ logs' = [logs EXCEPT ![logNumber].recs = Append(@, {})]
       \/ UNCHANGED logs
    /\ FailBatch
    /\ UNCHANGED bgError

\* logfile_->Sync
Sync == /\ stage = "sync"
        /\ logs' = [logs EXCEPT ![logNumber].firm = Len(logs[logNumber].recs)]
        /\ stage' = "apply"
        /\ UNCHANGED <<queue, group, mem, lastSeq, limbo, kept, backVars, readVars, forceVars,
                       imm, logNumber, nextFile, bgError, open, faults, starts>>

SyncFails == /\ stage = "sync"
             /\ Fault("sync")
             /\ RecordBackgroundError
             /\ FailBatch
             /\ UNCHANGED logs

\* InsertInto, SetLastSequence, and the group returns.
Apply ==
    LET E == Entries(Batch, lastSeq)
    IN  /\ stage = "apply"
        /\ mem' = mem \cup E
        /\ lastSeq' = lastSeq + Count(queue, group)
        /\ limbo' = [k \in Keys |-> IF ValuesAt(E, k) = {} THEN limbo[k] ELSE {}]
        /\ kept' = [k \in Keys |-> History!KeptOf(k, E, SyncedEntries(Batch, lastSeq))]
        /\ Return(group, TRUE)
        /\ UNCHANGED <<backVars, readVars, forced, imm, logNumber, nextFile, bgError, open,
                       logs, faults, starts>>

\* Slip: it does not wait.
FlushedAtOnce == \E m \in forcing :
    /\ forcing' = forcing \ {m}
    /\ forced' = IF m > forced THEN m ELSE forced
    /\ UNCHANGED <<writeVars, backVars, readVars, imm, logNumber, nextFile, bgError, open, logs,
                   faults, starts>>
\* TEST_CompactMemTable returns, once there is no imm_; not after an error.
Flushed == \E m \in forcing :
    /\ imm = <<>> \/ bgError
    /\ forcing' = forcing \ {m}
    /\ forced' = IF imm = <<>> /\ m > forced THEN m ELSE forced
    /\ UNCHANGED <<writeVars, backVars, readVars, imm, logNumber, nextFile, bgError, open, logs,
                   faults, starts>>

WriteStep == Refuse \/ Lead \/ LeadFlush \/ AddRecord \/ AddRecordFails \/ Sync \/ SyncFails
             \/ Apply \/ Flushed
=============================================================================
