-------------------------------- MODULE Reader --------------------------------
(***************************************************************************)
(* Reading the segment files of a shard back (internal/journal/reader.go), *)
(* after the file system has returned them as written, with a file cut     *)
(* short, or with a changed cell.                                          *)
(***************************************************************************)
EXTENDS Codec, FiniteSets

CONSTANTS Records,     \* the records that may be appended
          Header,      \* the segment header of this shard and engine
          MaxRecords,  \* bound: records of a segment
          MaxSegments, \* bound: segments
          Changes      \* the values that a cell may change to

VARIABLES written,  \* the records the writer has stored, segment by segment
          damage,   \* what has happened to the files
          files,    \* the segment files, in the order of their names
          index,    \* the file being read
          offset,   \* how much of it is decoded; 0 before its header is
          records,  \* the records returned so far, segment by segment
          status    \* "reading", "done" or "failed"

vars == <<written, damage, files, index, offset, records, status>>

\* a record that payloadSize refuses never reaches a file
Stored == SeqOf({r \in Records : payloadSize(r)}, MaxRecords)

File(recs) ==
  EncodeSegmentHeader(Header) \o FlattenSeq([i \in 1..Len(recs) |-> appendEncodedRecord(recs[i])])

Damages(whole) ==
  {[kind |-> "none", file |-> 0, at |-> 0, value |-> 0]}
  \cup UNION {[kind : {"cut"}, file : {k}, at : 0..(Len(whole[k]) - 1), value : {0}]
              : k \in 1..Len(whole)}
  \cup UNION {[kind : {"change"}, file : {k}, at : 1..Len(whole[k]), value : Changes]
              : k \in 1..Len(whole)}

Damaged(whole, d) ==
  CASE d.kind = "none" -> whole
    [] d.kind = "cut" -> [whole EXCEPT ![d.file] = SubSeq(@, 1, d.at)]
    [] d.kind = "change" -> [whole EXCEPT ![d.file][d.at] = Cell(d.value)]

Init ==
  /\ written \in UNION {[1..n -> Stored] : n \in 1..MaxSegments}
  /\ LET whole == [k \in 1..Len(written) |-> File(written[k])]
     IN  damage \in Damages(whole) /\ files = Damaged(whole, damage)
  /\ index = 1
  /\ offset = 0
  /\ records = <<>>
  /\ status = "reading"

-----------------------------------------------------------------------------
isLast == index = Len(files)
File1 == files[index]

NextFile ==
  /\ offset' = 0
  /\ \/ ~isLast /\ index' = index + 1 /\ UNCHANGED status
     \/ isLast /\ status' = "done" /\ UNCHANGED index

Fail == status' = "failed" /\ UNCHANGED <<index, offset, records>>

\* an unexpected end is taken for the end of the last file
EndsEarly(d) == isLast /\ d.err = "eof"

\* the first part of readSegment
ReadHeader ==
  /\ status = "reading"
  /\ offset = 0
  /\ LET d == DecodeSegmentHeader(File1)
     IN  \/ d.err = "nil" /\ d.value = Header
            /\ offset' = d.consumed
            /\ records' = Append(records, <<>>)
            /\ UNCHANGED <<index, status>>
         \/ EndsEarly(d) /\ records' = Append(records, <<>>) /\ NextFile
         \/ (d.err = "nil" => d.value # Header) /\ ~EndsEarly(d) /\ Fail
  /\ UNCHANGED <<written, damage, files>>

\* one turn of its loop
ReadRecord ==
  /\ status = "reading"
  /\ offset # 0
  /\ offset < Len(File1)
  /\ LET d == DecodeRecord(SubSeq(File1, offset + 1, Len(File1)))
     IN  \/ d.err = "nil" /\ d.value.shardID = Header.shardID
            /\ offset' = offset + d.consumed
            /\ records' = [records EXCEPT ![index] = Append(@, d.value)]
            /\ UNCHANGED <<index, status>>
         \/ EndsEarly(d) /\ UNCHANGED records /\ NextFile
         \/ (d.err = "nil" => d.value.shardID # Header.shardID) /\ ~EndsEarly(d) /\ Fail
  /\ UNCHANGED <<written, damage, files>>

\* its return, and the next turn of readShardRecords
EndSegment ==
  /\ status = "reading"
  /\ offset # 0
  /\ offset = Len(File1)
  /\ NextFile
  /\ UNCHANGED <<written, damage, files, records>>

Next == ReadHeader \/ ReadRecord \/ EndSegment

Spec == Init /\ [][Next]_vars

-----------------------------------------------------------------------------
(***************************************************************************)
(* Properties.                                                             *)
(***************************************************************************)
Done == status = "done"
DamagedLast == damage.file = Len(files)

\* the end of the record in the file of some records
EndOf(recs, i) == Len(File(SubSeq(recs, 1, i)))

\* the records that are complete in what is left of the last file
Remaining ==
  LET recs == Last(written)
      end == IF damage.kind = "cut" THEN damage.at ELSE Len(Last(files))
  IN  SubSeq(recs, 1, Cardinality({i \in 1..Len(recs) : EndOf(recs, i) <= end}))

\* Encoding and decoding are inverse: undamaged files give back every record that
\* payloadSize let through, and a cell that a length does not fit is never written.  A
\* last file that is cut anywhere, in its header, in a frame or between two, gives
\* exactly the records that are complete in it (CRASH_MATRIX.md, "Valid preceding
\* records are returned; the incomplete tail is ignored").
ReadsBack ==
  damage.kind = "none" \/ (damage.kind = "cut" /\ DamagedLast) =>
    /\ status # "failed"
    /\ Done => records = Append(Front(written), Remaining)

\* Whatever has happened to a file, a reading that succeeds returns no record that was
\* not written, and of each file the first ones in their order; of a file that is
\* followed by another all of them, unless it was cut right behind a record.
NothingInvented ==
  Done => \A k \in 1..Len(files) :
            /\ IsPrefix(records[k], written[k])
            /\ Len(records[k]) < Len(written[k]) =>
                 \/ k = Len(files)
                 \/ damage.kind = "cut" /\ damage.at = EndOf(written[k], Len(records[k]))

\* A changed cell in a committed segment never passes unnoticed: the reading fails, or
\* all records come back (CRASH_MATRIX.md, "Modified bytes in a committed segment",
\* "Checksum validation fails").
CorruptionDetected == damage.kind = "change" /\ Done => records = written
=============================================================================
