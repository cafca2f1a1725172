--------------------------- MODULE KeyValueStore ----------------------------
(***************************************************************************)
(* What LevelDB promises (include/leveldb/db.h and options.h), without     *)
(* memtables, logs, tables, levels or compactions: a map from keys to      *)
(* values that calls change in the order they were made, snapshots that    *)
(* keep what they were taken of, and, after a restart, for every key a     *)
(* value that its writes since the last synced one left.                   *)
(***************************************************************************)
EXTENDS WriteBatch

CONSTANT Keys

VARIABLES clock,   \* the sequence number of the last write
          db,      \* each key's value: the number of the put, 0 for none
          views,   \* by sequence number, what the snapshots taken there show
          calls,   \* the calls that have not returned
          limbo,   \* values of writes that were logged after db's and not applied
          kept,    \* the values a restart of the machine may leave
          open

storeVars == <<clock, db, views, calls, limbo, kept, open>>

Empty == [k \in Keys |-> {}]

Init == /\ clock = 0
        /\ db = [k \in Keys |-> 0]
        /\ views = <<>>
        /\ calls = <<>>
        /\ limbo = Empty
        /\ kept = [k \in Keys |-> {0}]
        /\ open = TRUE

Invoke == /\ open
          /\ Len(calls') = Len(calls) + 1
          /\ SubSeq(calls', 1, Len(calls)) = calls
          /\ UNCHANGED <<clock, db, views, limbo, kept, open>>

Return(n) == calls' = SubSeq(calls, n + 1, Len(calls))

\* The first n calls reach the log.
Log(n) == LET E == Entries(SubSeq(calls, 1, n), clock)
          IN  /\ limbo' = [k \in Keys |-> limbo[k] \cup ValuesAt(E, k)]
              /\ kept' = [k \in Keys |-> kept[k] \cup ValuesAt(E, k)]
              /\ UNCHANGED <<clock, db, views, calls, open>>

\* What is kept of k once E is applied, of which S is synced.
KeptOf(k, E, S) ==
    LET synced == {e \in S : e.key = k}
    IN  IF synced = {} THEN kept[k] \cup ValuesAt(E, k)
        ELSE ValuesAt({e \in E : \A s \in synced : e.seq >= s.seq}, k)

\* The first n calls take effect, together and in their order.
Apply(n) == LET C == SubSeq(calls, 1, n)
                E == Entries(C, clock)
            IN  /\ Return(n)
                /\ clock' = clock + Count(C, n)
                /\ db' = Over(db, E)
                /\ limbo' = [k \in Keys |-> IF ValuesAt(E, k) = {} THEN limbo[k] ELSE {}]
                /\ kept' = [k \in Keys |-> KeptOf(k, E, SyncedEntries(C, clock))]
                /\ UNCHANGED <<views, open>>

\* The first n calls return an error.
Fail(n) == /\ Return(n)
           /\ clock' \in clock..(clock + n)
           /\ UNCHANGED <<db, views, limbo, kept, open>>

Snapshot == /\ DOMAIN views' = DOMAIN views \cup {clock}
            /\ \A s \in DOMAIN views' : views'[s] = IF s = clock THEN db ELSE views[s]
            /\ UNCHANGED <<clock, db, calls, limbo, kept, open>>

Release(s) == /\ DOMAIN views' = DOMAIN views \ {s}
              /\ \A t \in DOMAIN views' : views'[t] = views[t]
              /\ UNCHANGED <<clock, db, calls, limbo, kept, open>>

\* The machine goes down, or the process alone: then nothing applied is lost.
Stop(machine) == /\ open
                 /\ open' = FALSE
                 /\ kept' = IF machine THEN kept
                            ELSE [k \in Keys |-> {db[k]} \cup limbo[k]]
                 /\ views' = <<>>
                 /\ calls' = <<>>

Reopen == /\ ~open
          /\ open'
          /\ \A k \in Keys : db'[k] \in kept[k]
          /\ kept' = [k \in Keys |-> {db'[k]}]
          /\ limbo' = Empty
          /\ views' = <<>>
          /\ calls' = <<>>
          /\ clock' \in Nat

Next == \/ Invoke
        \/ \E n \in 1..Len(calls) : Log(n) \/ Apply(n) \/ Fail(n)
        \/ Snapshot
        \/ \E s \in DOMAIN views : Release(s)
        \/ \E machine \in BOOLEAN : Stop(machine)
        \/ Reopen

Spec == Init /\ [][Next]_storeVars
=============================================================================
