------------------------------ MODULE LogFormat ------------------------------
(***************************************************************************)
(* LevelDB's log files (leveldb-library: db/log_writer.cc, log_reader.cc,  *)
(* log_format.h), which hold the write-ahead log and the MANIFEST: records *)
(* split over blocks, and what a reader makes of a file that ends anywhere *)
(* or in which a record was left unfinished.                               *)
(*                                                                         *)
(* A byte is known by the piece it belongs to and its place there, header  *)
(* first, so a checksum fits exactly a piece that is all there: one that   *)
(* fits by accident is left out.  The reader starts at offset 0, as        *)
(* recovery does.                                                          *)
(*                                                                         *)
(* Bounds: MaxRecords calls of AddRecord, MaxFails of which fail.          *)
(***************************************************************************)
EXTENDS Integers, Sequences

CONSTANTS BlockSize, HeaderSize,          \* kBlockSize, kHeaderSize
          Sizes, MaxRecords, MaxFails

ASSUME LogAssumption == /\ HeaderSize \in Nat \ {0}
                        /\ BlockSize \in Nat
                        /\ HeaderSize < BlockSize
                        /\ Sizes \subseteq Nat
                        /\ {MaxRecords, MaxFails} \subseteq Nat

VARIABLES file,         \* its bytes
          blockOffset,  \* block_offset_ of the writer
          written,      \* the records whose AddRecord succeeded, with where they end
          calls,        \* how many calls of AddRecord there were
          torn          \* for each that failed, how many records there were before it

vars == <<file, blockOffset, written, calls, torn>>

Fill == <<[type |-> "zero", data |-> <<>>], 0>>   \* of a trailer
Payload(r, size) == [i \in 1..size |-> <<r, i>>]
Bytes(p) == [n \in 1..(HeaderSize + Len(p.data)) |-> <<p, n>>]

PieceOffsetShort(o, len) == o + len   \* slip: the header not counted
\* EmitPhysicalRecord: the offset that a piece leaves, whether it was written or not.
PieceOffset(o, len) == o + HeaderSize + len

\* One turn of AddRecord's loop, on its variables and the bytes it has appended.
Turn(w) ==
    LET leftover == BlockSize - w.offset
        skip == leftover < HeaderSize
        start == IF skip THEN 0 ELSE w.offset
        avail == BlockSize - start - HeaderSize
        len == IF Len(w.left) < avail THEN Len(w.left) ELSE avail
        end == len = Len(w.left)
        type == CASE w.begin /\ end -> "full" [] w.begin /\ ~end -> "first"
                  [] ~w.begin /\ end -> "last" [] OTHER -> "middle"
    IN  [left |-> SubSeq(w.left, len + 1, Len(w.left)),
         begin |-> FALSE,
         offset |-> PieceOffset(start, len),
         bytes |-> w.bytes \o (IF skip THEN [i \in 1..leftover |-> Fill] ELSE <<>>)
                   \o Bytes([type |-> type, data |-> SubSeq(w.left, 1, len)])]

More(w) == w.begin \/ w.left # <<>>
TurnIfMore(w) == IF More(w) THEN Turn(w) ELSE w

\* AddRecord of data at offset o after n turns, or when it is done if that is sooner.
Turns(data, o, n) ==
    LET w[k \in 0..n] == IF k = 0
                         THEN [left |-> data, begin |-> TRUE, offset |-> o, bytes |-> <<>>]
                         ELSE TurnIfMore(w[k - 1])
    IN  w[n]
\* Only the first turn may take none of the data.
MaxTurns(size) == size + 2
-----------------------------------------------------------------------------
Init == file = <<>> /\ blockOffset = 0 /\ written = <<>> /\ calls = 0 /\ torn = <<>>

\* Writer::AddRecord
AddRecord(size) ==
    LET data == Payload(calls + 1, size)
        w == Turns(data, blockOffset, MaxTurns(size))
    IN  /\ calls < MaxRecords
        /\ calls' = calls + 1
        /\ file' = file \o w.bytes
        /\ blockOffset' = w.offset
        /\ written' = Append(written, [data |-> data, end |-> Len(file')])
        /\ UNCHANGED torn

\* A turn stops short, after any number of its bytes; the offset moves on all the
\* same, and AddRecord returns the error.
AddRecordFails(size) ==
    /\ calls < MaxRecords
    /\ Len(torn) < MaxFails
    /\ calls' = calls + 1
    /\ \E n \in 1..MaxTurns(size) :
          LET before == Turns(Payload(calls + 1, size), blockOffset, n - 1)
              w == TurnIfMore(before)
          IN  /\ \E k \in Len(before.bytes)..(Len(w.bytes) - 1) :
                    file' = file \o SubSeq(w.bytes, 1, k)
              /\ blockOffset' = w.offset
    /\ torn' = Append(torn, Len(written))
    /\ UNCHANGED written

Next == \E size \in Sizes : AddRecord(size) \/ AddRecordFails(size)
Spec == Init /\ [][Next]_vars
-----------------------------------------------------------------------------
\* Reader::ReadPhysicalRecord of f at offset at: the buffer holds the rest of the
\* block, cut short at the end of the file (eof_).
Boundary(at) == (at \div BlockSize + 1) * BlockSize
AtEof(f, at) == Len(f) < Boundary(at)
BlockEnd(f, at) == IF AtEof(f, at) THEN Len(f) ELSE Boundary(at)

\* The piece whose header is at at, if one is.
HeadersAt(f, at) ==
    {p \in {f[at + 1][1]} : \A n \in 1..HeaderSize : f[at + n] = <<p, n>>}
Whole(f, at, p) == SubSeq(f, at + 1, at + HeaderSize + Len(p.data)) = Bytes(p)

Eof == [type |-> "eof"]
\* The rest of the buffer is dropped, which is reported.
Bad(f, at) == [type |-> "bad", next |-> BlockEnd(f, at)]
ShortAlarm(f, at) == Bad(f, at)   \* slip: a cut record taken for a damaged one
\* More is announced than the buffer holds: no error at the end of the file.
Short(f, at) == IF AtEof(f, at) THEN Eof ELSE Bad(f, at)

Physical(f, at) ==
    LET trailer == BlockEnd(f, at) - at < HeaderSize /\ ~AtEof(f, at)
        start == IF trailer THEN BlockEnd(f, at) ELSE at
        room == BlockEnd(f, start) - start
        H == HeadersAt(f, start)
        p == CHOOSE q \in H : TRUE
    IN  IF room < HeaderSize THEN Eof
        ELSE IF H = {} THEN Bad(f, start)
        ELSE IF HeaderSize + Len(p.data) > room THEN Short(f, start)
        ELSE IF ~Whole(f, start, p) THEN Bad(f, start)
        ELSE [type |-> p.type, data |-> p.data, next |-> start + HeaderSize + Len(p.data)]

AfterBadKept(scratch) == scratch   \* slip: in_fragmented_record stays set
\* What is left of a record begun when a bad piece comes up.
AfterBad(scratch) == <<>>

\* A turn of Reader::ReadRecord's loop, given the piece p.  scratch holds the record
\* begun, if any; out the records returned so far; alarms counts reports of damage.
Took(s, p) ==
    LET begun == s.scratch # <<>>
        unended == IF begun /\ s.scratch[1] # <<>> THEN 1 ELSE 0
        orphan == p.type \in {"middle", "last"} /\ ~begun
        to(scratch, out, alarms) ==
            [at |-> p.next, scratch |-> scratch, out |-> out, alarms |-> s.alarms + alarms]
    IN  CASE p.type = "eof" -> s
          [] p.type = "full" -> to(<<>>, Append(s.out, p.data), unended)
          [] p.type = "first" -> to(<<p.data>>, s.out, unended)
          [] orphan -> to(<<>>, s.out, 1)
          [] p.type = "middle" /\ begun -> to(<<s.scratch[1] \o p.data>>, s.out, 0)
          [] p.type = "last" /\ begun -> to(<<>>, Append(s.out, s.scratch[1] \o p.data), 0)
          [] p.type = "bad" -> to(AfterBad(s.scratch), s.out, 1)

Read(f, s) == Took(s, Physical(f, s.at))

\* The reader of f after n such turns, in as many calls of ReadRecord as it takes.
Reading(f, n) ==
    LET r[k \in 0..n] == IF k = 0
                         THEN [at |-> 0, scratch |-> <<>>, out |-> <<>>, alarms |-> 0]
                         ELSE Read(f, r[k - 1])
    IN  r[n]

\* ReadRecord until there is none: each turn before the end of the file takes some of it.
ReadAll(f) == LET r == Reading(f, Len(f)) IN [out |-> r.out, alarms |-> r.alarms]
-----------------------------------------------------------------------------
(* The writer knows where in its block the file ends, as long as nothing   *)
(* failed: pieces never cross the end of a block.                          *)
TypeOK == /\ blockOffset \in 0..BlockSize
          /\ torn = <<>> => blockOffset % BlockSize = Len(file) % BlockSize
          /\ calls \in 0..MaxRecords
          /\ Len(written) + Len(torn) = calls

(* Wherever a crash cuts the file, reading it gives the records that were  *)
(* complete, in their order, and reports no damage: recovery of the        *)
(* MANIFEST gives up on a report, that of a log carries on.                *)
CutsReadBack ==
    torn = <<>> =>
        \A c \in 0..Len(file) :
            LET done == {i \in DOMAIN written : written[i].end <= c}
                n == IF done = {} THEN 0 ELSE CHOOSE i \in done : \A j \in done : j <= i
            IN  ReadAll(SubSeq(file, 1, c))
                    = [out |-> [i \in 1..n |-> written[i].data], alarms |-> 0]

(* After a failed append the file still gives every record from before it, *)
(* and nothing but records that were written, whole and in their order:    *)
(* pieces of different records are never put together.                     *)
NothingForged ==
    LET out == ReadAll(file).out
        whole == [i \in DOMAIN written |-> written[i].data]
    IN  /\ torn # <<>> => SubSeq(out, 1, torn[1]) = SubSeq(whole, 1, torn[1])
        /\ \E at \in [DOMAIN out -> DOMAIN whole] :
              /\ \A i \in DOMAIN out : out[i] = whole[at[i]]
              /\ \A i, j \in DOMAIN out : i < j => at[i] < at[j]
=============================================================================
