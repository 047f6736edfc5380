------------------------------ MODULE Segments -------------------------------
(***************************************************************************)
(* The segment files of one shard's write-ahead log, as the writer leaves  *)
(* them, as a crash leaves them, and as the reader sees them               *)
(* (internal/journal/reader.go, codec.go).                                 *)
(*                                                                         *)
(* A segment is a record: recs are the records that have reached the disk, *)
(* tail the records that are written and were never synced (the reader     *)
(* finds them in the page cache), header whether the header has been       *)
(* synced, torn whether the file ends in the middle of the header or of a  *)
(* record.  Segments are listed by index, which is the order of their      *)
(* names.  Bytes and checksums are left out: a file that is cut ends in    *)
(* whole records and possibly a part of one, and DecodeRecord reports the  *)
(* part as an unexpected end.                                              *)
(***************************************************************************)
EXTENDS Integers, Sequences

\* the sequences of ss, one after the other
Flatten(ss) ==
  LET upto[n \in 0..Len(ss)] == IF n = 0 THEN <<>> ELSE upto[n - 1] \o ss[n]
  IN  upto[Len(ss)]

NewSegment == [header |-> "unsynced", recs |-> <<>>, tail |-> <<>>, torn |-> FALSE]

\* the records DecodeRecord returns for the file, synced or not
RecordsOf(seg) == seg.recs \o seg.tail

\* readShardRecords, when it returns no error
readShardRecords(segs) == Flatten([i \in 1..Len(segs) |-> RecordsOf(segs[i])])
=============================================================================
