------------------------------- MODULE MCFiles -------------------------------
(***************************************************************************)
(* What a start finds on disk and makes of it: snapshot files, segment     *)
(* files and their names, and recovery under a changed configuration; and  *)
(* the collector, once as its clients raise the high-water mark and once   *)
(* under a report.  The five modules share no state: in a behaviour one of *)
(* them moves and the others stay as they begin.                           *)
(***************************************************************************)
EXTENDS SnapshotFile, Metrics, TLC

CONSTANTS MaxUint16, MaxUint32, MaxRecords, MaxSegments, Changes,  \* of Reader
          A, B, TornHeader, None, MaxExecuted, MaxStarts,          \* of Recovery
          Width, MaxOpens                                          \* of SegmentNames

VARIABLES part,                                                    \* the one that moves
          written, damage, files, index, offset, records, reading, \* of Reader
          status, conf, wal, snap, books, last, nextSeq, writer, starts,
          writing, segmentIndex, opened                            \* of SegmentNames

readerVars == <<written, damage, files, index, offset, records, reading>>
recoveryVars == <<status, conf, wal, snap, books, last, nextSeq, writer, starts>>
nameVars == <<writing, segmentIndex, opened>>

\* records of three shapes, one with a symbol longer than its length field can say
Rec(n, sym, ev) ==
  [shardID |-> 1, seq |-> n, symbol |-> sym, command |-> n, resultSeq |-> n, events |-> ev]
SomeRecords == {Rec(1, <<2>>, <<>>), Rec(2, <<2, 3>>, <<4, 4>>), Rec(3, <<1, 0, 1, 1>>, <<>>)}
ThisShard == [shardCount |-> 2, shardID |-> 1, engineID |-> <<3>>]

\* two symbols on two shards, and a configuration for each change: of the engine id, of
\* the symbols, of the shard count, and two that are invalid
SymbolHash == A :> 0 @@ B :> 1
Config(e, symbols, n) == [engine |-> e, symbols |-> symbols, count |-> n]
AllConfigs == {Config("e", <<A, B>>, 2), Config("f", <<A, B>>, 2), Config("e", <<B>>, 2),
               Config("e", <<A, B>>, 1), Config("e", <<A, A>>, 2), Config("", <<A, B>>, 2)}

Log == INSTANCE Reader WITH Records <- SomeRecords, Header <- ThisShard, status <- reading
Restart == INSTANCE Recovery WITH
  Hash <- SymbolHash, Configs <- AllConfigs, Torn <- TornHeader, MaxSeq <- MaxExecuted
Files == INSTANCE SegmentNames WITH status <- writing

ClientSymmetry == Permutations(Clients)

MCInit ==
  /\ part \in {"snapshot", "reader", "recovery", "names", "marks", "report"}
  /\ Init /\ CollectorInit /\ Log!Init /\ Restart!Init /\ Files!Init
  /\ part # "reader" => written = << <<>> >> /\ damage.kind = "none"

\* bounds: the last start is observed for what it recovers; under a report, which does not
\* show them, depths are alike and nobody meets back pressure
MCNext ==
  /\ UNCHANGED part
  /\ \/ /\ part = "snapshot" /\ Next
        /\ UNCHANGED <<readerVars, recoveryVars, nameVars, collectorVars>>
     \/ /\ part = "reader" /\ Log!Next
        /\ UNCHANGED <<vars, recoveryVars, nameVars, collectorVars>>
     \/ /\ part = "recovery" /\ starts < MaxStarts /\ Restart!Next
        /\ UNCHANGED <<vars, readerVars, nameVars, collectorVars>>
     \/ /\ part = "names" /\ Files!Next
        /\ UNCHANGED <<vars, readerVars, recoveryVars, collectorVars>>
     \/ /\ part = "marks" /\ Observe
        /\ UNCHANGED <<vars, readerVars, recoveryVars, nameVars>>
     \/ /\ part = "report" /\ CollectorNext
        /\ (\A c \in Clients : depth'[c] <= 1) /\ backpressure' = 0
        /\ UNCHANGED <<vars, readerVars, recoveryVars, nameVars>>

MCSpec ==
  MCInit /\ [][MCNext]_<<part, vars, readerVars, recoveryVars, nameVars, collectorVars>>

-----------------------------------------------------------------------------
(***************************************************************************)
(* The properties of the parts that are instances.                         *)
(***************************************************************************)
\* readShardRecords gives back what appendEncodedRecord wrote, up to a cut of the end.
ReadsBack == Log!ReadsBack

\* A damaged segment never gives readSegment a record that was not written.
NothingInvented == Log!NothingInvented

\* A changed cell in a committed segment never passes unnoticed by readSegment.
CorruptionDetected == Log!CorruptionDetected

\* After recoverBooks an engine has executed every record in the log of its shards.
OwnShardsRecovered == Restart!OwnShardsRecovered

\* recoverBooks refuses to start beside records of another engine id or shard count.
MismatchRefused == Restart!MismatchRefused

\* recoverBooks refuses to start only for a reason an operator can name.
RefusedForCause == Restart!RefusedForCause

\* recoverBooks and RecoverFromSnapshotAndWAL agree.
RecoveriesAgree == Restart!RecoveriesAgree

\* Segment names sort in the order of creation, and no index comes twice, until the
\* indices outgrow the width.
ReadInOrder == Files!ReadInOrder
=============================================================================
