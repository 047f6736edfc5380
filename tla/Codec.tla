-------------------------------- MODULE Codec ---------------------------------
(***************************************************************************)
(* The layout of a segment file (internal/journal/codec.go): the segment   *)
(* header, the frame of a record with its length and checksum, and the     *)
(* payload with its own two lengths, encoded and decoded.                  *)
(*                                                                         *)
(* A file is a sequence of cells, one for each integer that the code reads *)
(* or writes, whatever its width; the fields of a command that are always  *)
(* read together are one cell, and so are those of an event.  All decoding *)
(* decisions are about lengths, and about cells that must have one value.  *)
(* The checksum of some cells is told apart from that of any others.       *)
(***************************************************************************)
EXTENDS Integers, Sequences, SequencesExt

CONSTANTS MaxUint16,  \* the largest length of a symbol that its field holds
          MaxUint32   \* the largest length of a payload that its field holds

Cell(n) == <<n>>
Cells(ns) == [i \in 1..Len(ns) |-> Cell(ns[i])]
Checksum(cells) == <<0>> \o FlattenSeq(cells)

SegmentMagic == 7
RecordMagic == 8
SchemaVersion == 1
RecordTypeExec == 1

Decoded(v, n) == [err |-> "nil", value |-> v, consumed |-> n]
Fails(e) == [err |-> e, value |-> <<>>, consumed |-> 0]

-----------------------------------------------------------------------------
EncodeSegmentHeader(h) ==
  Cells(<<SegmentMagic, SchemaVersion, h.shardCount, h.shardID, Len(h.engineID)>> \o h.engineID)

\* the fields are read one by one: a wrong one is found before a later one is missed
DecodeSegmentHeader(data) ==
  LET Wrong(i, n) == Len(data) >= i /\ data[i] # Cell(n)
      end == 5 + data[5][1]
  IN  IF Wrong(1, SegmentMagic) \/ Wrong(2, SchemaVersion) THEN Fails("invalid")
      ELSE IF Len(data) < 5 THEN Fails("eof")
      ELSE IF Len(data) < end THEN Fails("eof")
      ELSE Decoded([shardCount |-> data[3][1], shardID |-> data[4][1],
                    engineID |-> FlattenSeq(SubSeq(data, 6, end))], end)

-----------------------------------------------------------------------------
headerLen == 6         \* magic, version, type, payload length, shard, sequence number
payloadFixedSize == 4  \* symbol length, command, result's number, event count
eventEncodedSize == 1

payloadLen(rec) == payloadFixedSize + Len(rec.symbol) + eventEncodedSize * Len(rec.events)

\* mutant of payloadSize: the length of the symbol is not compared
payloadSizeOfAny(rec) == payloadLen(rec) <= MaxUint32

\* payloadSize returns no error
payloadSize(rec) == Len(rec.symbol) <= MaxUint16 /\ payloadLen(rec) <= MaxUint32

encodePayload(rec) ==
  Cells(<<Len(rec.symbol) % (MaxUint16 + 1)>> \o rec.symbol
        \o <<rec.command, rec.resultSeq, Len(rec.events)>> \o rec.events)

appendEncodedRecord(rec) ==
  LET frame == Cells(<<RecordMagic, SchemaVersion, RecordTypeExec, payloadLen(rec) % (MaxUint32 + 1),
                       rec.shardID, rec.seq>>) \o encodePayload(rec)
  IN  Append(frame, Checksum(frame))

\* a payload whose checksum was right
decodePayload(payload, shardID, seq) ==
  LET symbolLen == payload[1][1]
      count == payload[symbolLen + payloadFixedSize][1] * eventEncodedSize
      remaining == Len(payload) - symbolLen - payloadFixedSize
  IN  IF Len(payload) < 1 THEN Fails("eof")
      ELSE IF Len(payload) < payloadFixedSize + symbolLen THEN Fails("eof")
      ELSE IF count > remaining THEN Fails("eof")
      ELSE IF count < remaining THEN Fails("invalid")
      ELSE Decoded([shardID |-> shardID, seq |-> seq,
                    symbol |-> FlattenSeq(SubSeq(payload, 2, symbolLen + 1)),
                    command |-> payload[symbolLen + 2][1],
                    resultSeq |-> payload[symbolLen + 3][1],
                    events |-> FlattenSeq(SubSeq(payload, Len(payload) - remaining + 1,
                                                 Len(payload)))],
                   headerLen + Len(payload) + 1)

\* mutant of DecodeRecord: the checksum is not compared
DecodeRecordUnchecked(data) ==
  LET required == headerLen + data[4][1] + 1
  IN  IF Len(data) < headerLen THEN Fails("eof")
      ELSE IF SubSeq(data, 1, 3) # Cells(<<RecordMagic, SchemaVersion, RecordTypeExec>>)
           THEN Fails("invalid")
      ELSE IF required > Len(data) THEN Fails("eof")
      ELSE decodePayload(SubSeq(data, headerLen + 1, required - 1), data[5][1], data[6][1])

DecodeRecord(data) ==
  LET required == headerLen + data[4][1] + 1
  IN  IF Len(data) < headerLen THEN Fails("eof")
      ELSE IF SubSeq(data, 1, 3) # Cells(<<RecordMagic, SchemaVersion, RecordTypeExec>>)
           THEN Fails("invalid")
      ELSE IF required > Len(data) THEN Fails("eof")
      ELSE IF data[required] # Checksum(SubSeq(data, 1, required - 1)) THEN Fails("invalid")
      ELSE decodePayload(SubSeq(data, headerLen + 1, required - 1), data[5][1], data[6][1])
=============================================================================
