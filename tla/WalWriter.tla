------------------------------ MODULE WalWriter ------------------------------
(***************************************************************************)
(* The group-commit writer of one shard's log                              *)
(* (internal/journal/writer.go): the goroutine of Writer.run, its request  *)
(* channel and the segment files.  The calls AppendAsync, Flush and        *)
(* Shutdown run on the goroutine of the shard loop; module Shard has them. *)
(*                                                                         *)
(* A request is an append with its record, a flush or a shutdown.  The ack *)
(* channel of an append is acks[cmd]; the done channels of a flush and of  *)
(* a shutdown are flushDone and shutdownDone, since the loop has one such  *)
(* call at a time.  Writer.closed is read only by calls that follow a      *)
(* Shutdown, and the loop makes none.                                      *)
(***************************************************************************)
EXTENDS Segments

CONSTANTS Cmds,              \* the commands, each given to the engine once
          Unencodable,       \* the commands whose record payloadSize refuses
          QueueSize,         \* capacity of the request channel
          MaxBatchCommands,  \* a batch of this size is flushed at once
          SegmentMax,        \* records that fit a segment
          Faults             \* the I/O steps that may fail

ASSUME WriterAssumption ==
  /\ QueueSize \in Nat \ {0}
  /\ MaxBatchCommands \in Nat \ {0}
  /\ SegmentMax \in Nat
  /\ Faults \subseteq {"open", "rotate", "write", "sync"}
  /\ Unencodable \subseteq Cmds

VARIABLES segs,          \* the segment files
          requests,      \* Writer.requests
          wpc,           \* where Writer.run is
          batch,         \* pendingBytes and pendingAcks
          timerArmed,
          after,         \* what run does when the flush at hand is over
          walFailed,     \* Writer.failedErr # nil
          acks,          \* the value in each append's ack channel
          flushDone,     \* the done channel of the flush is closed
          shutdownDone   \* the done channel of the shutdown is closed

writerVars == <<segs, requests, wpc, batch, timerArmed, after, walFailed,
                acks, flushDone, shutdownDone>>

Record == [seq : Nat, cmd : Cmds, res : Seq(Cmds)]
Segment == [header : {"unsynced", "synced"}, recs : Seq(Record), tail : Seq(Record),
            torn : BOOLEAN]
Request == [kind : {"append"}, rec : Record] \cup [kind : {"flush", "shutdown"}]

\* NewWriter: a new goroutine that has yet to open its first segment
WriterStarted ==
  /\ requests' = <<>>
  /\ wpc' = "create"
  /\ batch' = <<>>
  /\ timerArmed' = FALSE
  /\ after' = "open"
  /\ walFailed' = FALSE
  /\ acks' = [c \in Cmds |-> "none"]
  /\ flushDone' = FALSE
  /\ shutdownDone' = FALSE

WriterInit ==
  /\ segs = <<>>
  /\ requests = <<>>
  /\ wpc = "create"
  /\ batch = <<>>
  /\ timerArmed = FALSE
  /\ after = "open"
  /\ walFailed = FALSE
  /\ acks = [c \in Cmds |-> "none"]
  /\ flushDone = FALSE
  /\ shutdownDone = FALSE

Last1 == Len(segs)

CmdsOf(recs) == {recs[i].cmd : i \in DOMAIN recs}

Ack(cs, answer) == [c \in Cmds |-> IF c \in cs THEN answer ELSE acks[c]]

-----------------------------------------------------------------------------
(***************************************************************************)
(* openNextSegment: the file is created, then its header is synced.        *)
(***************************************************************************)
WCreateSegment ==
  /\ wpc = "create"
  /\ segs' = Append(segs, NewSegment)
  /\ wpc' = "header"
  /\ UNCHANGED <<requests, batch, timerArmed, after, walFailed, acks,
                 flushDone, shutdownDone>>

WSyncHeader ==
  /\ wpc = "header"
  /\ segs' = [segs EXCEPT ![Last1].header = "synced"]
  /\ wpc' = IF after = "open" THEN "select" ELSE "write"
  /\ UNCHANGED <<requests, batch, timerArmed, after, walFailed, acks,
                 flushDone, shutdownDone>>

OpenFault == (IF after = "open" THEN "open" ELSE "rotate") \in Faults

\* the create fails, or the header is written in part, or its sync fails;
\* run calls setTerminalError
WOpenFails ==
  /\ OpenFault
  /\ \/ wpc = "create" /\ UNCHANGED segs
     \/ /\ wpc = "header"
        /\ \E t \in BOOLEAN : segs' = [segs EXCEPT ![Last1].torn = t]
  /\ walFailed' = TRUE
  /\ wpc' = "failacks"
  /\ UNCHANGED <<requests, batch, timerArmed, after, acks, flushDone,
                 shutdownDone>>

-----------------------------------------------------------------------------
(***************************************************************************)
(* The select loop of run.  Flush is the start of the flush closure: it    *)
(* returns at once when nothing is pending, and writeBatch rotates first   *)
(* when the batch does not fit the segment.                                *)
(***************************************************************************)
FlushPC(b) ==
  IF Len(segs[Last1].recs) + Len(b) > SegmentMax THEN "create" ELSE "write"

WReceiveAppend ==
  /\ wpc = "select"
  /\ requests # <<>>
  /\ Head(requests).kind = "append"
  /\ requests' = Tail(requests)
  /\ LET r == Head(requests).rec
         b == Append(batch, r)
     IN  \/ /\ r.cmd \in Unencodable
            /\ acks' = Ack({r.cmd}, "err")
            /\ UNCHANGED <<wpc, batch, timerArmed, after>>
         \/ /\ r.cmd \notin Unencodable
            /\ batch' = b
            /\ timerArmed' = TRUE
            /\ after' = "select"
            /\ wpc' = IF Len(b) >= MaxBatchCommands THEN FlushPC(b) ELSE "select"
            /\ UNCHANGED acks
  /\ UNCHANGED <<segs, walFailed, flushDone, shutdownDone>>

WReceiveFlush ==
  /\ wpc = "select"
  /\ requests # <<>>
  /\ Head(requests).kind = "flush"
  /\ requests' = Tail(requests)
  /\ \/ /\ batch = <<>>
        /\ flushDone' = TRUE
        /\ UNCHANGED <<wpc, after>>
     \/ /\ batch # <<>>
        /\ after' = "flush"
        /\ wpc' = FlushPC(batch)
        /\ UNCHANGED flushDone
  /\ UNCHANGED <<segs, batch, timerArmed, walFailed, acks, shutdownDone>>

WReceiveShutdown ==
  /\ wpc = "select"
  /\ requests # <<>>
  /\ Head(requests).kind = "shutdown"
  /\ requests' = Tail(requests)
  /\ \/ /\ batch = <<>>
        /\ shutdownDone' = TRUE
        /\ wpc' = "exited"
        /\ UNCHANGED after
     \/ /\ batch # <<>>
        /\ after' = "shutdown"
        /\ wpc' = FlushPC(batch)
        /\ UNCHANGED shutdownDone
  /\ UNCHANGED <<segs, batch, timerArmed, walFailed, acks, flushDone>>

WTimer ==
  /\ wpc = "select"
  /\ timerArmed
  /\ after' = "select"
  /\ wpc' = FlushPC(batch)
  /\ UNCHANGED <<segs, requests, batch, timerArmed, walFailed, acks,
                 flushDone, shutdownDone>>

-----------------------------------------------------------------------------
(***************************************************************************)
(* writeBatch and the rest of the flush closure.                           *)
(***************************************************************************)
\* mutant of WWrite: the acks are released before the sync
WWriteAcks ==
  /\ wpc = "write"
  /\ segs' = [segs EXCEPT ![Last1].tail = batch]
  /\ acks' = Ack(CmdsOf(batch), "ok")
  /\ wpc' = "sync"
  /\ UNCHANGED <<requests, batch, timerArmed, after, walFailed, flushDone, shutdownDone>>

WWrite ==
  /\ wpc = "write"
  /\ segs' = [segs EXCEPT ![Last1].tail = batch]
  /\ wpc' = "sync"
  /\ UNCHANGED <<requests, batch, timerArmed, after, walFailed, acks,
                 flushDone, shutdownDone>>

\* the batch is on disk: its acks are released, and run goes on as after says
WSync ==
  /\ wpc = "sync"
  /\ segs' = [segs EXCEPT ![Last1].recs = @ \o batch, ![Last1].tail = <<>>]
  /\ acks' = Ack(CmdsOf(batch), "ok")
  /\ batch' = <<>>
  /\ timerArmed' = FALSE
  /\ wpc' = IF after = "shutdown" THEN "exited" ELSE "select"
  /\ flushDone' = (flushDone \/ after = "flush")
  /\ shutdownDone' = (shutdownDone \/ after = "shutdown")
  /\ UNCHANGED <<requests, after, walFailed>>

\* a write may leave part of the batch in the file, a failed sync all of it
WFlushFails ==
  /\ wpc \in Faults \cap {"write", "sync"}
  /\ \/ /\ wpc = "write"
        /\ \E k \in 0..Len(batch), t \in BOOLEAN :
             /\ k = Len(batch) => ~t
             /\ segs' = [segs EXCEPT ![Last1].tail = SubSeq(batch, 1, k),
                                     ![Last1].torn = t]
     \/ wpc = "sync" /\ UNCHANGED segs
  /\ walFailed' = TRUE
  /\ wpc' = "failacks"
  /\ UNCHANGED <<requests, batch, timerArmed, after, acks, flushDone,
                 shutdownDone>>

\* mutant of WFailAcks: the batch that failed gets no answer
WFailAcksSilent ==
  /\ wpc = "failacks"
  /\ wpc' = "reject"
  /\ UNCHANGED <<segs, requests, batch, timerArmed, after, walFailed, acks,
                 flushDone, shutdownDone>>

WFailAcks ==
  /\ wpc = "failacks"
  /\ acks' = Ack(CmdsOf(batch), "err")
  /\ wpc' = "reject"
  /\ UNCHANGED <<segs, requests, batch, timerArmed, after, walFailed,
                 flushDone, shutdownDone>>

\* rejectRemaining empties the channel; then run closes the done channel of the
\* request it was serving, and returns
WRejectRemaining ==
  /\ wpc = "reject"
  /\ \/ /\ requests # <<>>
        /\ requests' = Tail(requests)
        /\ LET q == Head(requests)
           IN  /\ acks' = IF q.kind = "append" THEN Ack({q.rec.cmd}, "err") ELSE acks
               /\ flushDone' = (flushDone \/ q.kind = "flush")
               /\ shutdownDone' = (shutdownDone \/ q.kind = "shutdown")
        /\ UNCHANGED wpc
     \/ /\ requests = <<>>
        /\ wpc' = "exited"
        /\ flushDone' = (flushDone \/ after = "flush")
        /\ shutdownDone' = (shutdownDone \/ after = "shutdown")
        /\ UNCHANGED <<requests, acks>>
  /\ UNCHANGED <<segs, batch, timerArmed, after, walFailed>>

(***************************************************************************)
(* The file system (external).  A process that dies leaves its files as    *)
(* they were written, and the next one reads them: recovery syncs none of  *)
(* them.  A crash of the machine keeps what is synced.  Of what was        *)
(* written since, by this process or by one before it, each file keeps     *)
(* some prefix of the bytes: k whole records, and part of the next one if  *)
(* t holds.  Files at the end whose header was never synced may be gone    *)
(* from the directory; one that is gone from the middle reads like one     *)
(* without records.                                                        *)
(***************************************************************************)
Unsynced(seg) == seg.tail # <<>> \/ seg.torn \/ seg.header = "unsynced"

CutTail(seg, k, t) ==
  [header |-> "synced", recs |-> seg.recs \o SubSeq(seg.tail, 1, k), tail |-> <<>>, torn |-> t]

MayCut(seg, k, t) ==
  /\ k <= Len(seg.tail)
  /\ t => k < Len(seg.tail) \/ seg.torn \/ seg.header = "unsynced"

FilesAfterCrash ==
  \E n \in 0..Len(segs) :
    /\ \A i \in (n + 1)..Len(segs) : segs[i].header = "unsynced"
    /\ LET soft == {i \in 1..n : Unsynced(segs[i])}
       IN  \E k \in [soft -> UNION {0..Len(segs[i].tail) : i \in soft}], t \in [soft -> BOOLEAN] :
             /\ \A i \in soft : MayCut(segs[i], k[i], t[i])
             /\ segs' = [i \in 1..n |-> IF i \in soft THEN CutTail(segs[i], k[i], t[i]) ELSE segs[i]]

WriterStep ==
  \/ WCreateSegment \/ WSyncHeader
  \/ WReceiveAppend \/ WReceiveFlush \/ WReceiveShutdown \/ WTimer
  \/ WWrite \/ WSync
  \/ WFailAcks \/ WRejectRemaining

WriterFault == WOpenFails \/ WFlushFails

-----------------------------------------------------------------------------
WriterTypeOK ==
  /\ segs \in Seq(Segment)
  /\ requests \in Seq(Request) /\ Len(requests) <= QueueSize
  /\ wpc \in {"create", "header", "select", "write", "sync", "failacks", "reject",
              "exited"}
  /\ batch \in Seq(Record)
  /\ after \in {"open", "select", "flush", "shutdown"}
  /\ acks \in [Cmds -> {"none", "ok", "err"}]

WriterFlagTypeOK ==
  /\ timerArmed \in BOOLEAN
  /\ walFailed \in BOOLEAN
  /\ flushDone \in BOOLEAN
  /\ shutdownDone \in BOOLEAN
=============================================================================
