----------------------------- MODULE ShardProofs ------------------------------
(***************************************************************************)
(* Safety of Shard, for every set of commands, every queue and batch size, *)
(* and any number of faults, crashes and restarts: type correctness,       *)
(* acknowledged commands are durable, a stopped loop leaves nothing        *)
(* behind, and each command is answered once.                              *)
(***************************************************************************)
EXTENDS Shard, TLAPS

\* every leaf has half a minute, with SMT first and then with Zenon
USE SMTT(30), ZenonT(30)

-----------------------------------------------------------------------------
(***************************************************************************)
(* What the operators on sequences return.                                 *)
(***************************************************************************)
LEMMA CatType ==
  ASSUME NEW V, NEW a \in Seq(V), NEW b \in Seq(V)
  PROVE  a \o b \in Seq(V)
OBVIOUS

LEMMA LengthOf ==
  ASSUME NEW V, NEW q \in Seq(V)
  PROVE  Len(q) \in Nat /\ DOMAIN q = 1..Len(q)
OBVIOUS

LEMMA ElementAt ==
  ASSUME NEW V, NEW q \in Seq(V), NEW i \in 1..Len(q)
  PROVE  q[i] \in V
OBVIOUS

LEMMA AppendIs ==
  ASSUME NEW V, NEW q \in Seq(V), NEW x \in V
  PROVE  /\ Append(q, x) \in Seq(V) /\ Append(q, x) # <<>>
         /\ Len(Append(q, x)) = Len(q) + 1
         /\ \A i \in 1..Len(q) : Append(q, x)[i] = q[i]
         /\ Append(q, x)[Len(q) + 1] = x
OBVIOUS

LEMMA CatIs ==
  ASSUME NEW V, NEW a \in Seq(V), NEW b \in Seq(V)
  PROVE  /\ a \o b \in Seq(V)
         /\ Len(a \o b) = Len(a) + Len(b)
         /\ \A i \in 1..(Len(a) + Len(b)) :
              (a \o b)[i] = IF i <= Len(a) THEN a[i] ELSE b[i - Len(a)]
OBVIOUS

LEMMA HeadTailIs ==
  ASSUME NEW V, NEW q \in Seq(V), q # <<>>
  PROVE  /\ Head(q) \in V
         /\ Tail(q) \in Seq(V)
         /\ Len(Tail(q)) = Len(q) - 1
         /\ \A i \in 1..Len(Tail(q)) : Tail(q)[i] = q[i + 1]
OBVIOUS

LEMMA SubSeqIs ==
  ASSUME NEW V, NEW q, NEW m \in Int, NEW n \in Int, \A i \in m..n : q[i] \in V
  PROVE  /\ SubSeq(q, m, n) \in Seq(V)
         /\ Len(SubSeq(q, m, n)) = IF m <= n THEN n - m + 1 ELSE 0
         /\ \A i \in 1..(n - m + 1) : SubSeq(q, m, n)[i] = q[m + i - 1]
OBVIOUS

LEMMA SameElements ==
  ASSUME NEW V, NEW a \in Seq(V), NEW b \in Seq(V), Len(a) = Len(b),
         \A i \in 1..Len(a) : a[i] = b[i]
  PROVE  a = b
OBVIOUS

LEMMA FunctionIsSeq ==
  ASSUME NEW V, NEW n \in Nat, NEW f \in [1..n -> V]
  PROVE  f \in Seq(V) /\ Len(f) = n
OBVIOUS

-----------------------------------------------------------------------------
(***************************************************************************)
(* Types.                                                                  *)
(***************************************************************************)
\* where run is inside a segment, there is one; AppendAsync is called with a record
\* and when there is room for it among the pending commands
Inside ==
  /\ wpc \in {"header", "select", "write", "sync"} => segs # <<>>
  /\ lpc = "append" => hand \in Record /\ Len(pending) < MaxPending

TypeInv == TypeOK /\ Inside

LEMMA InitType == Init => TypeInv
<1> SUFFICES ASSUME Init PROVE TypeInv
  OBVIOUS
<1>1. WriterTypeOK
  BY WriterAssumption DEF Init, WriterInit, WriterTypeOK
<1>2. WriterFlagTypeOK
  BY Zenon DEF Init, WriterInit, WriterFlagTypeOK
<1>3. LoopTypeOK
  BY ShardAssumption DEF Init, LoopTypeOK, EmptyBooks
<1>4. SenderTypeOK
  BY ShardAssumption DEF Init, SenderTypeOK
<1>5. DiskTypeOK
  BY ShardAssumption DEF Init, DiskTypeOK, EmptyBooks, NoCursor
<1>6. FlagTypeOK
  BY Zenon DEF Init, FlagTypeOK
<1>7. Inside
  BY DEF Init, WriterInit, Inside
<1>. QED BY <1>1, <1>2, <1>3, <1>4, <1>5, <1>6, <1>7 DEF TypeOK, TypeInv

LEMMA LastSegment ==
  ASSUME WriterTypeOK, segs # <<>>
  PROVE  segs[Last1] \in Segment /\ Last1 \in 1..Len(segs)
BY DEF WriterTypeOK, Last1

LEMMA NewLastSegment ==
  ASSUME WriterTypeOK, segs # <<>>, NEW seg \in Segment
  PROVE  /\ [segs EXCEPT ![Last1] = seg] \in Seq(Segment)
         /\ [segs EXCEPT ![Last1] = seg] # <<>>
BY DEF WriterTypeOK, Last1

LEMMA SegmentUpdates ==
  ASSUME NEW seg \in Segment, NEW t \in BOOLEAN, NEW q \in Seq(Record),
         NEW r \in Seq(Record)
  PROVE  /\ [seg EXCEPT !.tail = q] \in Segment
         /\ [seg EXCEPT !.tail = q, !.torn = t] \in Segment
         /\ [seg EXCEPT !.recs = r, !.tail = q] \in Segment
         /\ [seg EXCEPT !.header = "synced"] \in Segment
BY Zenon DEF Segment

LEMMA FirstRequest ==
  ASSUME WriterTypeOK, requests # <<>>
  PROVE  /\ Tail(requests) \in Seq(Request)
         /\ Len(Tail(requests)) <= QueueSize
         /\ Head(requests).kind = "append" => Head(requests).rec \in Record
<1>1. /\ Head(requests) \in Request
      /\ Tail(requests) \in Seq(Request)
      /\ Len(Tail(requests)) <= QueueSize
  BY WriterAssumption, HeadTailIs DEF WriterTypeOK
<1>. QED BY <1>1 DEF Request

\* what a crash of the machine leaves of a segment
LEMMA CutTailIs ==
  ASSUME NEW seg \in Segment, NEW k \in 0..Len(seg.tail), NEW t \in BOOLEAN
  PROVE  /\ CutTail(seg, k, t) \in Segment
         /\ CutTail(seg, k, t).header = "synced"
         /\ \A j \in 1..Len(seg.recs) : /\ j \in 1..Len(CutTail(seg, k, t).recs)
                                        /\ CutTail(seg, k, t).recs[j] = seg.recs[j]
<1> DEFINE part == SubSeq(seg.tail, 1, k)
<1>0. seg.recs \in Seq(Record) /\ seg.tail \in Seq(Record) /\ k \in Nat /\ k <= Len(seg.tail)
  BY DEF Segment
<1>1. seg.recs \in Seq(Record) /\ part \in Seq(Record)
  BY <1>0, SubSeqIs
<1> HIDE DEF part
<1>2. seg.recs \o part \in Seq(Record)
  BY <1>1, CatIs
<1>3. \A j \in 1..Len(seg.recs) :
        j \in 1..Len(seg.recs \o part) /\ (seg.recs \o part)[j] = seg.recs[j]
  BY <1>1, CatIs
<1>4. CutTail(seg, k, t) = [header |-> "synced", recs |-> seg.recs \o part, tail |-> <<>>, torn |-> t]
  BY DEF CutTail, part
<1>. QED BY <1>2, <1>3, <1>4 DEF Segment

\* and of all the files: the first n of them, each as it was or cut
LEMMA FilesLeft ==
  ASSUME WriterTypeOK, FilesAfterCrash
  PROVE  \E n \in 0..Len(segs) :
           /\ segs' \in Seq(Segment) /\ Len(segs') = n
           /\ \A i \in (n + 1)..Len(segs) : segs[i].header = "unsynced"
           /\ \A i \in 1..n : \/ segs'[i] = segs[i]
                              \/ \E k \in 0..Len(segs[i].tail), t \in BOOLEAN :
                                   segs'[i] = CutTail(segs[i], k, t)
<1>1. PICK n \in 0..Len(segs) :
        /\ \A i \in (n + 1)..Len(segs) : segs[i].header = "unsynced"
        /\ LET soft == {i \in 1..n : Unsynced(segs[i])}
           IN  \E k \in [soft -> UNION {0..Len(segs[i].tail) : i \in soft}], t \in [soft -> BOOLEAN] :
                 /\ \A i \in soft : MayCut(segs[i], k[i], t[i])
                 /\ segs' = [i \in 1..n |-> IF i \in soft THEN CutTail(segs[i], k[i], t[i]) ELSE segs[i]]
  BY Zenon DEF FilesAfterCrash
<1> DEFINE soft == {i \in 1..n : Unsynced(segs[i])}
<1>2. PICK k \in [soft -> UNION {0..Len(segs[i].tail) : i \in soft}], t \in [soft -> BOOLEAN] :
        /\ \A i \in soft : MayCut(segs[i], k[i], t[i])
        /\ segs' = [i \in 1..n |-> IF i \in soft THEN CutTail(segs[i], k[i], t[i]) ELSE segs[i]]
  BY <1>1, Zenon
<1>3. n \in Nat /\ \A i \in 1..n : segs[i] \in Segment
  BY <1>1 DEF WriterTypeOK
<1>4. \A i \in soft : i \in 1..n
  OBVIOUS
<1> HIDE DEF soft
<1>5. ASSUME NEW i \in soft PROVE k[i] \in 0..Len(segs[i].tail) /\ t[i] \in BOOLEAN
  <2>1. \A j \in soft : segs[j].tail \in Seq(Record)
    BY <1>3, <1>4, Zenon DEF Segment
  <2>2. PICK j \in soft : k[i] \in 0..Len(segs[j].tail)
    BY <1>2, Zenon
  <2>3. k[i] \in Nat
    BY <2>1, <2>2
  <2>4. k[i] <= Len(segs[i].tail)
    BY <1>2 DEF MayCut
  <2>. QED BY <2>1, <2>3, <2>4
<1>6. \A i \in 1..n : segs'[i] = IF i \in soft THEN CutTail(segs[i], k[i], t[i]) ELSE segs[i]
  BY <1>2, Zenon
<1>7. \A i \in 1..n : \/ segs'[i] = segs[i]
                      \/ \E kk \in 0..Len(segs[i].tail), tt \in BOOLEAN :
                           segs'[i] = CutTail(segs[i], kk, tt)
  BY <1>5, <1>6, Zenon
<1>8. ASSUME NEW i \in 1..n PROVE segs'[i] \in Segment
  <2>1. segs[i] \in Segment
    BY <1>3
  <2>2. \A kk \in 0..Len(segs[i].tail), tt \in BOOLEAN : CutTail(segs[i], kk, tt) \in Segment
    BY <2>1, CutTailIs
  <2>. QED BY <1>7, <2>1, <2>2, Zenon
<1>9. segs' \in [1..n -> Segment]
  BY <1>2, <1>8, Zenon
<1>10. segs' \in Seq(Segment) /\ Len(segs') = n
  BY <1>3, <1>9, FunctionIsSeq, Zenon
<1>. QED BY <1>1, <1>7, <1>10, Zenon

LEMMA WriterFlags ==
  ASSUME WriterFlagTypeOK, WriterStep \/ WriterFault
  PROVE  WriterFlagTypeOK'
<1>1. CASE WCreateSegment \/ WSyncHeader \/ WOpenFails
  BY <1>1, Zenon DEF WCreateSegment, WSyncHeader, WOpenFails, WriterFlagTypeOK
<1>2. CASE WReceiveAppend \/ WReceiveFlush \/ WReceiveShutdown \/ WTimer
  BY <1>2, Zenon DEF WReceiveAppend, WReceiveFlush, WReceiveShutdown, WTimer, WriterFlagTypeOK
<1>3. CASE WWrite \/ WSync \/ WFlushFails
  BY <1>3, Zenon DEF WWrite, WSync, WFlushFails, WriterFlagTypeOK
<1>4. CASE WFailAcks \/ WRejectRemaining
  BY <1>4, Zenon DEF WFailAcks, WRejectRemaining, WriterFlagTypeOK
<1>. QED BY <1>1, <1>2, <1>3, <1>4 DEF WriterStep, WriterFault

LEMMA WriterStepType ==
  ASSUME WriterTypeOK, Inside, UNCHANGED <<lpc, hand, pending>>, WriterStep \/ WriterFault
  PROVE  WriterTypeOK' /\ Inside'
<1>1. CASE WCreateSegment
  <2>1. segs' \in Seq(Segment) /\ segs' # <<>>
    <3>1. NewSegment \in Segment
      BY DEF NewSegment, Segment
    <3>2. segs' = Append(segs, NewSegment)
      BY <1>1, Zenon DEF WCreateSegment
    <3>. QED BY <3>1, <3>2, AppendIs DEF WriterTypeOK
  <2>. QED BY <1>1, <2>1 DEF WCreateSegment, WriterTypeOK, Inside
<1>2. CASE WSyncHeader
  <2>1. segs # <<>> /\ segs' = [segs EXCEPT ![Last1] = [segs[Last1] EXCEPT !.header = "synced"]]
    BY <1>2, LastSegment DEF WSyncHeader, Inside
  <2>2. [segs[Last1] EXCEPT !.header = "synced"] \in Segment
    BY <2>1, LastSegment, SegmentUpdates, Zenon DEF WriterTypeOK
  <2>3. segs' \in Seq(Segment) /\ segs' # <<>>
    BY <2>1, <2>2, NewLastSegment
  <2>. QED BY <1>2, <2>3 DEF WSyncHeader, WriterTypeOK, Inside
<1>3. CASE WReceiveAppend
  <2>1. Head(requests).rec \in Record /\ requests' \in Seq(Request)
        /\ Len(requests') <= QueueSize
    BY <1>3, FirstRequest DEF WReceiveAppend
  <2>2. batch' = batch \/ batch' = Append(batch, Head(requests).rec)
    BY <1>3 DEF WReceiveAppend
  <2>3. batch' \in Seq(Record)
    <3>1. batch \in Seq(Record)
      BY DEF WriterTypeOK
    <3>2. Append(batch, Head(requests).rec) \in Seq(Record)
      BY <2>1, <3>1, AppendIs
    <3>. QED BY <2>2, <3>1, <3>2
  <2>4. acks' \in [Cmds -> {"none", "ok", "err"}]
    BY <1>3 DEF WReceiveAppend, WriterTypeOK, Ack
  <2>5. /\ wpc' \in {"select", "create", "write"}
        /\ after' \in {"open", "select", "flush", "shutdown"}
    BY <1>3, ZenonT(30) DEF WReceiveAppend, WriterTypeOK, FlushPC
  <2>. QED BY <1>3, <2>1, <2>3, <2>4, <2>5 DEF WReceiveAppend, WriterTypeOK, Inside
<1>4. CASE WReceiveFlush
  BY <1>4, FirstRequest DEF WReceiveFlush, WriterTypeOK, Inside, FlushPC
<1>5. CASE WReceiveShutdown
  BY <1>5, FirstRequest DEF WReceiveShutdown, WriterTypeOK, Inside, FlushPC
<1>6. CASE WTimer
  BY <1>6 DEF WTimer, WriterTypeOK, Inside, FlushPC
<1>7. CASE WWrite
  <2>1. segs # <<>> /\ segs' = [segs EXCEPT ![Last1] = [segs[Last1] EXCEPT !.tail = batch]]
    BY <1>7, LastSegment DEF WWrite, Inside
  <2>2. [segs[Last1] EXCEPT !.tail = batch] \in Segment
    BY <2>1, LastSegment, SegmentUpdates, Zenon DEF WriterTypeOK
  <2>3. segs' \in Seq(Segment) /\ segs' # <<>>
    BY <2>1, <2>2, NewLastSegment
  <2>. QED BY <1>7, <2>3 DEF WWrite, WriterTypeOK, Inside
<1>8. CASE WSync
  <2> DEFINE all == segs[Last1].recs \o batch
  <2>1. /\ segs # <<>>
        /\ segs' = [segs EXCEPT ![Last1] = [segs[Last1] EXCEPT !.recs = all, !.tail = <<>>]]
    BY <1>8, LastSegment, Zenon DEF WSync, Inside
  <2>2. all \in Seq(Record) /\ <<>> \in Seq(Record)
    BY <2>1, LastSegment, CatIs DEF WriterTypeOK, Segment
  <2>3. [segs[Last1] EXCEPT !.recs = all, !.tail = <<>>] \in Segment
    BY <2>1, <2>2, LastSegment, SegmentUpdates, Zenon
  <2>4. segs' \in Seq(Segment) /\ segs' # <<>>
    BY <2>1, <2>3, NewLastSegment
  <2>5. acks' \in [Cmds -> {"none", "ok", "err"}]
    BY <1>8 DEF WSync, WriterTypeOK, Ack
  <2>6. batch' = <<>> /\ wpc' \in {"exited", "select"} /\ UNCHANGED <<requests, after>>
    BY <1>8 DEF WSync
  <2>. QED BY <2>4, <2>5, <2>6 DEF WriterTypeOK, Inside
<1>9. CASE WOpenFails
  <2>1. segs' \in Seq(Segment)
    <3>1. CASE UNCHANGED segs
      BY <3>1 DEF WriterTypeOK
    <3>2. ASSUME wpc = "header",
                 NEW t \in BOOLEAN, segs' = [segs EXCEPT ![Last1].torn = t]
          PROVE  segs' \in Seq(Segment)
      <4>1. /\ segs # <<>>
            /\ segs' = [segs EXCEPT ![Last1] = [segs[Last1] EXCEPT !.torn = t]]
        BY <3>2, LastSegment DEF Inside
      <4>2. [segs[Last1] EXCEPT !.torn = t] \in Segment
        BY <4>1, LastSegment DEF Segment
      <4>. QED BY <4>1, <4>2, NewLastSegment
    <3>. QED BY <1>9, <3>1, <3>2 DEF WOpenFails
  <2>. QED BY <1>9, <2>1 DEF WOpenFails, WriterTypeOK, Inside
<1>10. CASE WFlushFails
  <2>1. segs' \in Seq(Segment)
    <3>1. CASE UNCHANGED segs
      BY <3>1 DEF WriterTypeOK
    <3>2. ASSUME wpc = "write", NEW k \in 0..Len(batch), NEW t \in BOOLEAN,
                 segs' = [segs EXCEPT ![Last1].tail = SubSeq(batch, 1, k),
                                      ![Last1].torn = t]
          PROVE  segs' \in Seq(Segment)
      <4> DEFINE part == SubSeq(batch, 1, k)
      <4>1. /\ segs # <<>>
            /\ segs' = [segs EXCEPT ![Last1] = [segs[Last1] EXCEPT !.tail = part, !.torn = t]]
        BY <3>2, LastSegment, Zenon DEF Inside
      <4>2. part \in Seq(Record)
        BY SubSeqIs DEF WriterTypeOK
      <4>3. [segs[Last1] EXCEPT !.tail = part, !.torn = t] \in Segment
        BY <4>1, <4>2, LastSegment, SegmentUpdates, Zenon
      <4>. QED BY <4>1, <4>3, NewLastSegment
    <3>. QED BY <1>10, <3>1, <3>2, Zenon DEF WFlushFails
  <2>. QED BY <1>10, <2>1 DEF WFlushFails, WriterTypeOK, Inside
<1>11. CASE WFailAcks
  BY <1>11 DEF WFailAcks, WriterTypeOK, Inside, Ack
<1>12. CASE WRejectRemaining
  BY <1>12, FirstRequest, Zenon DEF WRejectRemaining, WriterTypeOK, Inside, Ack
<1>. QED
  BY <1>1, <1>2, <1>3, <1>4, <1>5, <1>6, <1>7, <1>8, <1>9, <1>10, <1>11, <1>12
  DEF WriterStep, WriterFault

LEMMA FirstMessage ==
  ASSUME SenderTypeOK, inbox # <<>>, inbox' = Tail(inbox)
  PROVE  /\ inbox' \in Seq(Messages)
         /\ Len(inbox') <= InboxSize
         /\ Head(inbox) \in Messages
         /\ Head(inbox).kind = "command" => Head(inbox).seq \in Nat /\ Head(inbox).cmd \in Cmds
<1>1. inbox' \in Seq(Messages) /\ Len(inbox') <= InboxSize /\ Head(inbox) \in Messages
  BY ShardAssumption, HeadTailIs DEF SenderTypeOK
<1>. QED BY <1>1 DEF Messages

\* What LReceiveCommand says of the inbox, of the writer and of the command in hand.
LEMMA Received ==
  ASSUME LReceiveCommand
  PROVE  /\ inbox # <<>> /\ inbox' = Tail(inbox) /\ Head(inbox).kind = "command"
         /\ Len(pending) < MaxPending
         /\ UNCHANGED writerVars
         /\ \/ lpc' = "select"
            \/ /\ lpc' = "append" /\ pending' = pending
               /\ hand' = [seq |-> Head(inbox).seq, cmd |-> Head(inbox).cmd,
                           res |-> books[SymbolOf[Head(inbox).cmd]]]
BY ZenonT(30) DEF LReceiveCommand, CanReceive, loopVars

LEMMA AppendedCommand ==
  ASSUME NEW q \in Seq(Cmds), NEW c \in Cmds
  PROVE  Append(q, c) \in Seq(Cmds)
BY AppendIs

LEMMA FirstPending ==
  ASSUME LoopTypeOK, pending # <<>>
  PROVE  /\ Tail(pending) \in Seq([seq : Nat, cmd : Cmds])
         /\ Len(Tail(pending)) <= MaxPending
         /\ Head(pending).seq \in Nat
         /\ Head(pending).cmd \in Cmds
<1>1. Head(pending) \in [seq : Nat, cmd : Cmds]
  BY HeadTailIs, Zenon DEF LoopTypeOK
<1>. QED BY <1>1, ShardAssumption, HeadTailIs DEF LoopTypeOK

LEMMA ReplyType ==
  ASSUME LoopTypeOK, NEW cs, NEW answer \in {"ok", "err"}
  PROVE  Reply(cs, answer) \in [Cmds -> Seq({"ok", "err"})]
BY DEF LoopTypeOK, Reply

LEMMA FailPendingType ==
  ASSUME LoopTypeOK, NEW cs, FailPending(cs)
  PROVE  /\ pending' \in Seq([seq : Nat, cmd : Cmds]) /\ Len(pending') <= MaxPending
         /\ replies' \in [Cmds -> Seq({"ok", "err"})]
BY ReplyType, ShardAssumption DEF FailPending

LEMMA LoopFlags ==
  ASSUME FlagTypeOK, WriterFlagTypeOK, Loop
  PROVE  FlagTypeOK' /\ WriterFlagTypeOK'
<1> USE DEF FlagTypeOK, WriterFlagTypeOK, writerVars, senderVars, loopVars, diskVars, FailPending
<1>1. CASE LReceiveCommand \/ LAppend \/ LAppendFails
  BY <1>1, Zenon DEF LReceiveCommand, CanReceive, LAppend, LAppendFails
<1>2. CASE LReceiveAck \/ LReceiveControl \/ LFlush
  BY <1>2, Zenon DEF LReceiveAck, CompleteNext, LReceiveControl, CanReceive, LFlush
<1>3. CASE LFlushed \/ LFlushTimeout \/ LCompletedAll
  BY <1>3, Zenon DEF LFlushed, LFlushTimeout, LCompletedAll
<1>4. CASE LEnd \/ LShutdown
  BY <1>4 DEF LEnd, LShutdown
<1>5. CASE LDone
  BY <1>5, ZenonT(30) DEF LDone
<1>. QED BY <1>1, <1>2, <1>3, <1>4, <1>5 DEF Loop

LEMMA LoopSender ==
  ASSUME SenderTypeOK, DiskTypeOK, Loop
  PROVE  SenderTypeOK' /\ DiskTypeOK'
<1>1. DiskTypeOK'
  BY ZenonT(30) DEF Loop, DiskTypeOK, diskVars, LReceiveCommand, CanReceive, LAppend,
        LAppendFails, LReceiveAck,
         LReceiveControl, LFlush, LFlushed, LFlushTimeout, LCompletedAll, LEnd,
         LShutdown, LDone
<1> USE DEF SenderTypeOK, senderVars, Answer
<1>2. CASE LReceiveCommand
  BY <1>1, <1>2, FirstMessage, Zenon DEF LReceiveCommand, CanReceive
<1>3. CASE LReceiveControl
  BY <1>1, <1>3, FirstMessage DEF LReceiveControl, CanReceive
<1>4. CASE LAppend \/ LAppendFails \/ LReceiveAck \/ LFlush
  BY <1>1, <1>4 DEF LAppend, LAppendFails, LReceiveAck, LFlush
<1>5. CASE LFlushed \/ LFlushTimeout \/ LCompletedAll
  BY <1>1, <1>5 DEF LFlushed, LFlushTimeout, LCompletedAll
<1>6. CASE LEnd \/ LShutdown \/ LDone
  BY <1>1, <1>6 DEF LEnd, LShutdown, LDone
<1>. QED BY <1>2, <1>3, <1>4, <1>5, <1>6 DEF Loop

LEMMA LoopType ==
  ASSUME LoopTypeOK, SenderTypeOK, WriterTypeOK, Inside, Loop
  PROVE  LoopTypeOK'
<1> USE DEF loopVars
<1>1. CASE LReceiveCommand
  <2> DEFINE m == Head(inbox)
             rec == [seq |-> m.seq, cmd |-> m.cmd, res |-> books[SymbolOf[m.cmd]]]
  <2>1. m.seq \in Nat /\ m.cmd \in Cmds
    BY <1>1, Received, FirstMessage, Zenon
  <2>2. SymbolOf[m.cmd] \in Symbols
    BY <2>1, ShardAssumption
  <2>3. rec \in Record
    BY <2>1, <2>2 DEF LoopTypeOK, Record
  <2>4. Append(books[SymbolOf[m.cmd]], m.cmd) \in Seq(Cmds)
    BY <2>1, <2>2, AppendIs DEF LoopTypeOK
  <2>5. books' \in [Symbols -> Seq(Cmds)]
    BY <1>1, <2>4, Zenon DEF LReceiveCommand, CanReceive, LoopTypeOK
  <2>6. replies' \in [Cmds -> Seq({"ok", "err"})]
    BY <1>1, ReplyType, FailPendingType, ZenonT(30) DEF LReceiveCommand, CanReceive, LoopTypeOK
  <2>7. pending' \in Seq([seq : Nat, cmd : Cmds]) /\ Len(pending') <= MaxPending
    BY <1>1, FailPendingType, ZenonT(30) DEF LReceiveCommand, CanReceive, LoopTypeOK
  <2>8. hand' \in Record \cup {NoRec} /\ lpc' \in {"select", "append"} /\ lastApplied' = lastApplied
    BY <1>1, <2>3, Zenon DEF LReceiveCommand, CanReceive, LoopTypeOK
  <2>. QED BY <2>5, <2>6, <2>7, <2>8 DEF LoopTypeOK
<1>2. CASE LAppend
  <2>1. [seq |-> hand.seq, cmd |-> hand.cmd] \in [seq : Nat, cmd : Cmds]
    BY <1>2 DEF LAppend, Inside, Record
  <2>2. pending' \in Seq([seq : Nat, cmd : Cmds]) /\ Len(pending') = Len(pending) + 1
    BY <1>2, <2>1, AppendIs DEF LAppend, LoopTypeOK
  <2>3. Len(pending') <= MaxPending
    BY <1>2, <2>2, ShardAssumption DEF LAppend, LoopTypeOK, Inside
  <2>. QED BY <1>2, <2>2, <2>3 DEF LAppend, LoopTypeOK
<1>3. CASE LAppendFails
  BY <1>3, FailPendingType, Zenon DEF LAppendFails, LoopTypeOK
<1>4. CASE LReceiveAck
  BY <1>4, FirstPending, ReplyType, FailPendingType, Zenon
  DEF LReceiveAck, HasAck, CompleteNext, LoopTypeOK
<1>5. CASE LReceiveControl
  BY <1>5, FailPendingType, Zenon DEF LReceiveControl, CanReceive, LoopTypeOK, Answer
<1>6. CASE LFlush \/ LCompletedAll
  BY <1>6 DEF LFlush, LCompletedAll, LoopTypeOK, Answer
<1>7. CASE LFlushed \/ LFlushTimeout
  BY <1>7, FailPendingType, ZenonT(30) DEF LFlushed, LFlushTimeout, LoopTypeOK, Answer
<1>8. CASE LEnd \/ LShutdown \/ LDone
  BY <1>8 DEF LEnd, LShutdown, LDone, LoopTypeOK
<1>. QED BY <1>1, <1>2, <1>3, <1>4, <1>5, <1>6, <1>7, <1>8 DEF Loop

LEMMA LoopWriter ==
  ASSUME LoopTypeOK, SenderTypeOK, WriterTypeOK, Inside, Loop
  PROVE  WriterTypeOK' /\ Inside'
<1> USE DEF loopVars, writerVars
<1>1. CASE LReceiveCommand
  <2>1. lpc' = "append" => hand' \in Record /\ Len(pending') < MaxPending
    <3> DEFINE m == Head(inbox)
    <3>1. m.seq \in Nat /\ m.cmd \in Cmds
      BY <1>1, Received, FirstMessage, Zenon
    <3>2. books[SymbolOf[m.cmd]] \in Seq(Cmds)
      BY <3>1, ShardAssumption DEF LoopTypeOK
    <3>3. [seq |-> m.seq, cmd |-> m.cmd, res |-> books[SymbolOf[m.cmd]]] \in Record
      BY <3>1, <3>2 DEF Record
    <3>. QED BY <1>1, <3>3, Received, Zenon
  <2>2. UNCHANGED writerVars
    BY <1>1, Received, Zenon
  <2>. QED BY <2>1, <2>2 DEF WriterTypeOK, Inside
<1>2. CASE LAppend
  <2>1. [kind |-> "append", rec |-> hand] \in Request
    BY <1>2 DEF LAppend, Inside, Request
  <2>2. requests' \in Seq(Request) /\ Len(requests') = Len(requests) + 1
    BY <1>2, <2>1, AppendIs DEF LAppend, WriterTypeOK
  <2>3. Len(requests') <= QueueSize
    BY <1>2, <2>2, WriterAssumption DEF LAppend, WriterTypeOK
  <2>. QED BY <1>2, <2>2, <2>3 DEF LAppend, WriterTypeOK, Inside
<1>3. CASE LAppendFails \/ LReceiveAck
  BY <1>3 DEF LAppendFails, LReceiveAck, WriterTypeOK, Inside
<1>4. CASE LReceiveControl \/ LFlushed \/ LFlushTimeout \/ LCompletedAll
  <2>1. lpc' # "append" /\ UNCHANGED writerVars
    BY <1>4 DEF LReceiveControl, LFlushed, LFlushTimeout, LCompletedAll, Answer
  <2>. QED BY <2>1 DEF WriterTypeOK, Inside, writerVars
<1>5. CASE LFlush \/ LShutdown
  <2>1. [kind |-> "flush"] \in Request /\ [kind |-> "shutdown"] \in Request
    BY DEF Request
  <2>2. PICK q \in Request : requests' = Append(requests, q)
    BY <1>5, <2>1 DEF LFlush, LShutdown
  <2>3. requests' \in Seq(Request) /\ Len(requests') = Len(requests) + 1
    BY <2>2, AppendIs DEF WriterTypeOK
  <2>4. Len(requests') <= QueueSize
    BY <1>5, <2>3, WriterAssumption DEF LFlush, LShutdown, WriterTypeOK
  <2>. QED BY <1>5, <2>3, <2>4 DEF LFlush, LShutdown, WriterTypeOK, Inside
<1>6. CASE LEnd \/ LDone
  BY <1>6 DEF LEnd, LDone, WriterTypeOK, Inside
<1>. QED BY <1>1, <1>2, <1>3, <1>4, <1>5, <1>6 DEF Loop

LEMMA SendType ==
  ASSUME TypeInv, Send \/ CloseInbox
  PROVE  TypeInv'
<1> USE DEF TypeInv, TypeOK
<1>1. UNCHANGED <<writerVars, loopVars, diskVars, replies>>
  BY DEF Send, SendCommand, SendControl, CloseInbox
<1>2. /\ WriterTypeOK' /\ Inside'
      /\ LoopTypeOK'
      /\ DiskTypeOK'
  <2>1. WriterTypeOK'
    BY <1>1 DEF WriterTypeOK, writerVars
  <2>2. Inside'
    BY <1>1 DEF Inside, writerVars, loopVars
  <2>3. LoopTypeOK'
    BY <1>1 DEF LoopTypeOK, loopVars
  <2>4. DiskTypeOK'
    BY <1>1 DEF DiskTypeOK, diskVars
  <2>. QED BY <2>1, <2>2, <2>3, <2>4
<1>3. WriterFlagTypeOK' /\ FlagTypeOK'
  BY <1>1, Zenon DEF Send, SendCommand, SendControl, CloseInbox, FlagTypeOK, WriterFlagTypeOK,
              writerVars, loopVars, diskVars
<1>4. SenderTypeOK'
  <2>1. CASE CloseInbox
    BY <2>1 DEF CloseInbox, SenderTypeOK
  <2>2. ASSUME NEW c \in Cmds, SendCommand(c) PROVE SenderTypeOK'
    <3>1. Message("command", nextSeq, c) \in Messages
      BY DEF Message, Messages, SenderTypeOK
    <3>2. inbox' \in Seq(Messages) /\ Len(inbox') = Len(inbox) + 1
      BY <2>2, <3>1, AppendIs DEF SendCommand, SenderTypeOK
    <3>3. Len(inbox') <= InboxSize
      BY <2>2, <3>2, ShardAssumption DEF SendCommand, CanSend, SenderTypeOK
    <3>. QED BY <2>2, <3>2, <3>3 DEF SendCommand, SenderTypeOK
  <2>3. ASSUME NEW k \in {"barrier", "drain"}, SendControl(k) PROVE SenderTypeOK'
    <3>1. Message(k, 0, 0) \in Messages
      BY DEF Message, Messages
    <3>2. inbox' \in Seq(Messages) /\ Len(inbox') = Len(inbox) + 1
      BY <2>3, <3>1, AppendIs DEF SendControl, SenderTypeOK
    <3>3. Len(inbox') <= InboxSize
      BY <2>3, <3>2, ShardAssumption DEF SendControl, CanSend, SenderTypeOK
    <3>. QED BY <2>3, <3>2, <3>3, ShardAssumption DEF SendControl, SenderTypeOK
  <2>. QED BY <2>1, <2>2, <2>3 DEF Send
<1>. QED BY <1>2, <1>3, <1>4

LEMMA SnapshotType ==
  ASSUME TypeInv, CreateSnapshot \/ ReleaseDrain
  PROVE  TypeInv'
<1> USE DEF TypeInv, TypeOK, CreateSnapshot, ReleaseDrain
<1>1. WriterTypeOK' /\ LoopTypeOK' /\ Inside'
  <2>1. WriterTypeOK'
    BY DEF WriterTypeOK, writerVars
  <2>2. LoopTypeOK'
    BY DEF LoopTypeOK, loopVars
  <2>3. Inside'
    BY DEF Inside, writerVars, loopVars
  <2>. QED BY <2>1, <2>2, <2>3
<1>2. DiskTypeOK'
  BY DEF DiskTypeOK, LoopTypeOK, diskVars
<1>3. SenderTypeOK'
  BY DEF SenderTypeOK, senderVars
<1>4. WriterFlagTypeOK' /\ FlagTypeOK'
  BY DEF WriterFlagTypeOK, FlagTypeOK, writerVars, loopVars, senderVars, diskVars
<1>. QED BY <1>1, <1>2, <1>3, <1>4

LEMMA CrashType ==
  ASSUME TypeInv, Crash
  PROVE  TypeInv'
<1> USE DEF TypeInv, TypeOK
<1>1. MemoryLost /\ (UNCHANGED segs \/ FilesAfterCrash)
  BY Zenon DEF Crash, ProcessDies, MachineCrashes
<1>2. segs' \in Seq(Segment)
  BY <1>1, FilesLeft DEF WriterTypeOK
<1>3. WriterTypeOK' /\ Inside'
  BY <1>1, <1>2, WriterAssumption DEF MemoryLost, WriterStarted, WriterTypeOK, Inside
<1>4. LoopTypeOK'
  BY <1>1, ShardAssumption DEF MemoryLost, LoopTypeOK, EmptyBooks
<1>5. SenderTypeOK'
  BY <1>1, ShardAssumption DEF MemoryLost, SenderTypeOK
<1>6. DiskTypeOK'
  BY <1>1, ShardAssumption DEF MemoryLost, DiskTypeOK, NoCursor
<1>7. lost' \in BOOLEAN
  BY Zenon DEF Crash, ProcessDies, MachineCrashes, FlagTypeOK
<1>8. WriterFlagTypeOK' /\ FlagTypeOK'
  BY <1>1, <1>7, Zenon DEF MemoryLost, WriterStarted, WriterFlagTypeOK, FlagTypeOK
<1>. QED BY <1>3, <1>4, <1>5, <1>6, <1>8

LEMMA RecoverType ==
  ASSUME TypeInv, Recover
  PROVE  TypeInv'
<1> USE DEF TypeInv, TypeOK
<1>1. UNCHANGED <<writerVars, lpc, hand, pending, failed, replies, inbox, control, controlResult,
                  sent, inboxOpen, controls, snap, crashes, lost>>
  BY Zenon DEF Recover, RecoverSnapshot, ReplayRecord, ReplayedSegment, StartEngine, senderVars,
         loopVars
<1>2. WriterTypeOK' /\ Inside'
  BY <1>1 DEF WriterTypeOK, Inside, writerVars
<1>3. WriterFlagTypeOK' /\ FlagTypeOK'
  BY <1>1 DEF WriterFlagTypeOK, FlagTypeOK, writerVars
<1>4. SenderTypeOK'
  <2>1. nextSeq' = nextSeq \/ nextSeq' = lastApplied + 1
    BY Zenon DEF Recover, RecoverSnapshot, ReplayRecord, ReplayedSegment, StartEngine,
          senderVars
  <2>2. nextSeq' \in Nat
    BY <2>1 DEF SenderTypeOK, LoopTypeOK
  <2>. QED BY <1>1, <2>2 DEF SenderTypeOK
<1>5. DiskTypeOK'
  <2>1. cursor' \in [seg : Nat \ {0}, rec : Nat \ {0}]
    <3>1. CASE RecoverSnapshot \/ StartEngine
      BY <3>1 DEF RecoverSnapshot, StartEngine, DiskTypeOK, NoCursor
    <3>2. CASE ReplayRecord
      <4>1. cursor' = [cursor EXCEPT !.rec = @ + 1]
        BY <3>2, Zenon DEF ReplayRecord
      <4>. QED BY <4>1 DEF DiskTypeOK
    <3>3. CASE ReplayedSegment
      BY <3>3 DEF ReplayedSegment, DiskTypeOK
    <3>. QED BY <3>1, <3>2, <3>3 DEF Recover
  <2>2. status' \in {"up", "down", "recovering", "refused"}
    BY Zenon DEF Recover, RecoverSnapshot, ReplayRecord, ReplayedSegment, StartEngine,
          DiskTypeOK
  <2>. QED BY <1>1, <2>1, <2>2 DEF DiskTypeOK
<1>6. LoopTypeOK'
  <2>1. books' \in [Symbols -> Seq(Cmds)] /\ lastApplied' \in Nat
    <3>1. CASE RecoverSnapshot
      BY <3>1 DEF RecoverSnapshot, DiskTypeOK
    <3>2. CASE ReplayRecord
      <4> DEFINE log == RecordsOf(segs[cursor.seg])
                 r == log[cursor.rec]
      <4>1. cursor.seg \in Nat \ {0} /\ cursor.rec \in Nat \ {0}
        BY DEF DiskTypeOK
      <4>2. cursor.seg <= Len(segs) /\ cursor.rec <= Len(log)
        BY <3>2, Zenon DEF ReplayRecord, AtRecord
      <4>3. segs[cursor.seg] \in Segment
        BY <4>1, <4>2 DEF WriterTypeOK
      <4>4. log \in Seq(Record)
        BY <4>3, CatIs DEF RecordsOf, Segment
      <4>5. cursor.rec \in 1..Len(log)
        <5>1. Len(log) \in Nat
          BY <4>4, LengthOf
        <5>. QED BY <4>1, <4>2, <5>1
      <4>6. r \in Record
        BY <4>4, <4>5, ElementAt
      <4>7. r.seq \in Nat /\ r.cmd \in Cmds /\ SymbolOf[r.cmd] \in Symbols
        BY <4>6, ShardAssumption DEF Record
      <4>8. Append(books[SymbolOf[r.cmd]], r.cmd) \in Seq(Cmds)
        <5>1. books[SymbolOf[r.cmd]] \in Seq(Cmds)
          BY <4>7, Zenon DEF LoopTypeOK
        <5>. QED BY <4>7, <5>1, AppendedCommand, Zenon
      <4>9. books' = books \/ books' = [books EXCEPT ![SymbolOf[r.cmd]] = Append(@, r.cmd)]
        BY <3>2, ZenonT(30) DEF ReplayRecord
      <4>10. lastApplied' = lastApplied \/ lastApplied' = r.seq
        BY <3>2, Zenon DEF ReplayRecord
      <4>. QED BY <4>7, <4>8, <4>9, <4>10, Zenon DEF LoopTypeOK
    <3>3. CASE ReplayedSegment \/ StartEngine
      BY <3>3, Zenon DEF ReplayedSegment, StartEngine, loopVars, LoopTypeOK
    <3>. QED BY <3>1, <3>2, <3>3 DEF Recover
  <2>. QED BY <1>1, <2>1 DEF LoopTypeOK
<1>. QED BY <1>2, <1>3, <1>4, <1>5, <1>6

LEMMA TypeStep == TypeInv /\ [Next]_vars => TypeInv'
<1> SUFFICES ASSUME TypeInv, [Next]_vars PROVE TypeInv'
  OBVIOUS
<1>1. CASE Loop
  BY <1>1, LoopFlags, LoopSender, LoopType, LoopWriter DEF TypeInv, TypeOK
<1>2. ASSUME WriterStep \/ WriterFault,
             UNCHANGED <<senderVars, loopVars, diskVars, inbox, control, controlResult, replies>>
      PROVE  TypeInv'
  <2>1. WriterTypeOK' /\ WriterFlagTypeOK' /\ Inside'
    BY <1>2, WriterFlags, WriterStepType DEF loopVars, TypeInv, TypeOK
  <2>2. LoopTypeOK' /\ SenderTypeOK' /\ DiskTypeOK'
    <3>1. LoopTypeOK'
      BY <1>2 DEF LoopTypeOK, loopVars, TypeInv, TypeOK
    <3>2. SenderTypeOK'
      BY <1>2 DEF SenderTypeOK, senderVars, TypeInv, TypeOK
    <3>3. DiskTypeOK'
      BY <1>2 DEF DiskTypeOK, diskVars, TypeInv, TypeOK
    <3>. QED BY <3>1, <3>2, <3>3
  <2>3. FlagTypeOK'
    BY <1>2 DEF FlagTypeOK, senderVars, loopVars, diskVars, TypeInv, TypeOK
  <2>. QED BY <2>1, <2>2, <2>3 DEF TypeInv, TypeOK
<1>3. CASE UNCHANGED vars
  <2>1. WriterTypeOK' /\ LoopTypeOK' /\ SenderTypeOK' /\ DiskTypeOK' /\ Inside'
    <3>1. WriterTypeOK'
      BY <1>3 DEF vars, writerVars, WriterTypeOK, TypeInv, TypeOK
    <3>2. LoopTypeOK'
      BY <1>3 DEF vars, loopVars, LoopTypeOK, TypeInv, TypeOK
    <3>3. SenderTypeOK'
      BY <1>3 DEF vars, senderVars, SenderTypeOK, TypeInv, TypeOK
    <3>4. DiskTypeOK'
      BY <1>3 DEF vars, diskVars, DiskTypeOK, TypeInv, TypeOK
    <3>5. Inside'
      BY <1>3 DEF vars, writerVars, loopVars, Inside, TypeInv, TypeOK
    <3>. QED BY <3>1, <3>2, <3>3, <3>4, <3>5
  <2>2. WriterFlagTypeOK' /\ FlagTypeOK'
    BY <1>3 DEF vars, writerVars, senderVars, loopVars, diskVars, WriterFlagTypeOK, FlagTypeOK,
                TypeInv, TypeOK
  <2>. QED BY <2>1, <2>2 DEF TypeInv, TypeOK
<1>. QED
  BY <1>1, <1>2, <1>3, SendType, SnapshotType, CrashType, RecoverType
  DEF Next, Writer, Fault

\* In every run of the shard the variables keep their types, the request channel,
\* the inbox and the pending commands their capacity: no send of the loop or of the
\* sequencer exceeds the buffer that NewWriter and NewSequencer made.
THEOREM TypeCorrect == Spec => []TypeOK
<1>1. TypeInv => TypeOK
  BY DEF TypeInv
<1>. QED BY InitType, TypeStep, <1>1, PTL DEF Spec

-----------------------------------------------------------------------------
(***************************************************************************)
(* An acknowledged command is durable.                                     *)
(*                                                                         *)
(* The synced records of a segment are never taken back.  The one step     *)
(* that removes a segment, a crash that loses a file whose header was not  *)
(* yet synced, removes one without records: records are written only after *)
(* the header is synced.                                                   *)
(***************************************************************************)
IsDurable(c) ==
  \E i \in 1..Len(segs) : \E j \in 1..Len(segs[i].recs) : segs[i].recs[j].cmd = c

UnsyncedEmpty ==
  \A i \in 1..Len(segs) : segs[i].header = "unsynced" => segs[i].recs = <<>>

AckInv ==
  /\ UnsyncedEmpty
  /\ wpc \in {"select", "write", "sync"} => segs[Last1].header = "synced"
  /\ \A c \in Cmds : acks[c] = "ok" => IsDurable(c)
  /\ \A c \in Acknowledged : IsDurable(c)

\* a step that leaves every synced record where it is
Kept ==
  \A i \in 1..Len(segs) : \A j \in 1..Len(segs[i].recs) :
    /\ i \in 1..Len(segs')
    /\ j \in 1..Len(segs'[i].recs)
    /\ segs'[i].recs[j] = segs[i].recs[j]

LEMMA DurableIsDurable ==
  ASSUME WriterTypeOK, NEW c
  PROVE  c \in Durable <=> IsDurable(c)
<1>1. DOMAIN segs = 1..Len(segs)
  BY DEF WriterTypeOK
<1>2. \A i \in 1..Len(segs) : DOMAIN segs[i].recs = 1..Len(segs[i].recs)
  BY DEF WriterTypeOK, Segment
<1>3. \A i \in DOMAIN segs :
        c \in CmdsOf(segs[i].recs) <=> \E j \in 1..Len(segs[i].recs) : segs[i].recs[j].cmd = c
  BY <1>1, <1>2 DEF CmdsOf
<1>. QED BY <1>1, <1>3 DEF Durable, IsDurable

LEMMA RightOfConcat ==
  ASSUME NEW S, NEW s \in Seq(S), NEW t \in Seq(S), NEW n \in 1..Len(t)
  PROVE  Len(s) + n \in 1..Len(s \o t) /\ (s \o t)[Len(s) + n] = t[n]
<1>1. Len(s) \in Nat /\ Len(t) \in Nat /\ Len(s \o t) = Len(s) + Len(t)
  BY CatIs
<1>2. Len(s) + n \in 1..(Len(s) + Len(t)) /\ ~(Len(s) + n <= Len(s))
  BY <1>1
<1>3. (Len(s) + n) - Len(s) = n
  BY <1>1
<1>4. (s \o t)[Len(s) + n] = t[(Len(s) + n) - Len(s)]
  BY <1>2, CatIs
<1>. QED BY <1>1, <1>2, <1>3, <1>4

LEMMA KeptDurable ==
  ASSUME Kept, NEW c, IsDurable(c)
  PROVE  IsDurable(c)'
BY Zenon DEF Kept, IsDurable

LEMMA SameSegments == UNCHANGED segs => Kept
BY DEF Kept

\* a new last segment with the same records, and with more
LEMMA LastReplaced ==
  ASSUME WriterTypeOK, segs # <<>>, NEW seg, segs' = [segs EXCEPT ![Last1] = seg]
  PROVE  /\ Len(segs') = Len(segs)
         /\ Last1 \in 1..Len(segs)
         /\ segs'[Last1] = seg
         /\ \A i \in 1..Len(segs) : i # Last1 => segs'[i] = segs[i]
BY LastSegment DEF WriterTypeOK

LEMMA SameRecs ==
  ASSUME WriterTypeOK, segs # <<>>, NEW seg, segs' = [segs EXCEPT ![Last1] = seg],
         seg.recs = segs[Last1].recs
  PROVE  Kept
BY LastReplaced DEF Kept

LEMMA MoreRecs ==
  ASSUME WriterTypeOK, segs # <<>>, NEW seg, NEW q \in Seq(Record),
         segs' = [segs EXCEPT ![Last1] = seg], seg.recs = segs[Last1].recs \o q
  PROVE  Kept
<1>1. segs[Last1].recs \in Seq(Record)
  BY LastSegment DEF Segment
<1>2. \A j \in 1..Len(segs[Last1].recs) :
        j \in 1..Len(seg.recs) /\ seg.recs[j] = segs[Last1].recs[j]
  BY <1>1, CatIs
<1>3. /\ Len(segs') = Len(segs)
      /\ segs'[Last1] = seg
      /\ \A i \in 1..Len(segs) : i # Last1 => segs'[i] = segs[i]
  BY LastReplaced, Zenon
<1>4. ASSUME NEW i \in 1..Len(segs), NEW j \in 1..Len(segs[i].recs)
      PROVE  /\ i \in 1..Len(segs')
             /\ j \in 1..Len(segs'[i].recs)
             /\ segs'[i].recs[j] = segs[i].recs[j]
  <2>1. CASE i = Last1
    BY <1>2, <1>3, <2>1, Zenon
  <2>2. CASE i # Last1
    BY <1>3, <2>2, Zenon
  <2>. QED BY <2>1, <2>2
<1>. QED BY <1>4, Zenon DEF Kept

LEMMA HeaderKept ==
  ASSUME WriterTypeOK, segs # <<>>, NEW seg, segs' = [segs EXCEPT ![Last1] = seg],
         UnsyncedEmpty, seg.header = "unsynced" => seg.recs = <<>>
  PROVE  UnsyncedEmpty'
BY LastReplaced DEF UnsyncedEmpty

\* the headers, the place of run and the acks across a step of the writer
LEMMA WriterAcks ==
  ASSUME WriterTypeOK, Inside, AckInv, WriterStep \/ WriterFault
  PROVE  /\ Kept
         /\ UnsyncedEmpty'
         /\ wpc' \in {"select", "write", "sync"} => segs'[Len(segs')].header = "synced"
         /\ \A c \in Cmds : acks'[c] = "ok" => IsDurable(c)'
<1>1. CASE WCreateSegment
  <2>1. /\ Len(segs') = Len(segs) + 1
        /\ \A i \in 1..Len(segs) : segs'[i] = segs[i]
        /\ segs'[Len(segs) + 1] = NewSegment
    BY <1>1 DEF WCreateSegment, WriterTypeOK
  <2>2. Len(segs) \in Nat
    BY DEF WriterTypeOK
  <2>3. Kept
    BY <2>1, <2>2 DEF Kept
  <2>4. UnsyncedEmpty'
    BY <2>1, <2>2 DEF UnsyncedEmpty, NewSegment, AckInv
  <2>5. wpc' = "header" /\ acks' = acks
    BY <1>1 DEF WCreateSegment
  <2>. QED BY <2>3, <2>4, <2>5, KeptDurable DEF AckInv
<1>2. CASE WSyncHeader
  <2> DEFINE seg == [segs[Last1] EXCEPT !.header = "synced"]
  <2>1. segs # <<>> /\ segs' = [segs EXCEPT ![Last1] = seg]
    BY <1>2, LastSegment DEF WSyncHeader, Inside
  <2>2. seg.recs = segs[Last1].recs /\ seg.header = "synced"
    BY <2>1, LastSegment DEF Segment
  <2>3. Kept /\ UnsyncedEmpty' /\ segs'[Len(segs')].header = "synced"
    BY <2>1, <2>2, SameRecs, HeaderKept, LastReplaced, Zenon DEF AckInv, Last1
  <2>4. acks' = acks
    BY <1>2 DEF WSyncHeader
  <2>. QED BY <2>3, <2>4, KeptDurable DEF AckInv
<1>3. CASE WReceiveAppend \/ WReceiveFlush \/ WReceiveShutdown \/ WTimer
  <2>1. UNCHANGED segs /\ (wpc' \in {"select", "write", "sync"} => segs[Last1].header = "synced")
    BY <1>3, ZenonT(30) DEF WReceiveAppend, WReceiveFlush, WReceiveShutdown, WTimer, FlushPC, AckInv
  <2>2. \A c \in Cmds : acks'[c] = "ok" => acks[c] = "ok"
    BY <1>3 DEF WReceiveAppend, WReceiveFlush, WReceiveShutdown, WTimer, Ack
  <2>. QED BY <2>1, <2>2, SameSegments, KeptDurable DEF AckInv, UnsyncedEmpty, Last1
<1>4. CASE WFailAcks \/ WRejectRemaining
  <2>1. UNCHANGED segs /\ wpc' \in {"reject", "exited"}
    BY <1>4 DEF WFailAcks, WRejectRemaining
  <2>2. \A c \in Cmds : acks'[c] = "ok" => acks[c] = "ok"
    BY <1>4 DEF WFailAcks, WRejectRemaining, Ack
  <2>. QED BY <2>1, <2>2, SameSegments, KeptDurable DEF AckInv, UnsyncedEmpty
<1>5. CASE WWrite
  <2> DEFINE seg == [segs[Last1] EXCEPT !.tail = batch]
  <2>1. segs # <<>> /\ segs' = [segs EXCEPT ![Last1] = seg]
    BY <1>5, LastSegment DEF WWrite, Inside
  <2>2. segs[Last1].header = "synced"
    BY <1>5 DEF WWrite, AckInv
  <2>3. seg.recs = segs[Last1].recs /\ seg.header = "synced"
    BY <2>1, <2>2, LastSegment DEF Segment
  <2>4. Kept /\ UnsyncedEmpty' /\ segs'[Len(segs')].header = "synced"
    BY <2>1, <2>3, SameRecs, HeaderKept, LastReplaced, ZenonT(30) DEF AckInv, Last1
  <2>5. acks' = acks
    BY <1>5 DEF WWrite
  <2>. QED BY <2>4, <2>5, KeptDurable DEF AckInv
<1>6. CASE WSync
  <2> DEFINE all == segs[Last1].recs \o batch
             seg == [segs[Last1] EXCEPT !.recs = all, !.tail = <<>>]
  <2>1. segs # <<>> /\ segs' = [segs EXCEPT ![Last1] = seg]
    BY <1>6, LastSegment, Zenon DEF WSync, Inside
  <2>2. batch \in Seq(Record) /\ segs[Last1].recs \in Seq(Record)
    BY <2>1, LastSegment DEF WriterTypeOK, Segment
  <2>3. segs[Last1].header = "synced"
    BY <1>6 DEF WSync, AckInv
  <2>4. seg.recs = all /\ seg.header = "synced"
    BY <2>1, <2>3, LastSegment DEF Segment
  <2>5. Kept /\ UnsyncedEmpty' /\ segs'[Len(segs')].header = "synced"
    BY <2>1, <2>2, <2>4, MoreRecs, HeaderKept, LastReplaced, Zenon DEF AckInv, Last1
  <2>6. \A c \in CmdsOf(batch) : IsDurable(c)'
    <3> SUFFICES ASSUME NEW c \in CmdsOf(batch) PROVE IsDurable(c)'
      OBVIOUS
    <3>1. PICK n \in 1..Len(batch) : batch[n].cmd = c
      BY <2>2 DEF CmdsOf
    <3> DEFINE m == Len(segs[Last1].recs) + n
    <3>2. m \in 1..Len(all) /\ all[m] = batch[n]
      <4>1. ASSUME NEW s \in Seq(Record), NEW t \in Seq(Record), NEW i \in 1..Len(t)
            PROVE  Len(s) + i \in 1..Len(s \o t) /\ (s \o t)[Len(s) + i] = t[i]
        BY RightOfConcat
      <4>. QED BY ONLY <2>2, <3>1, <4>1
    <3>3. Last1 \in 1..Len(segs') /\ segs'[Last1].recs = all
      BY <2>1, <2>4, LastReplaced, Zenon
    <3>. QED BY <3>1, <3>2, <3>3, Zenon DEF IsDurable
  <2>7. \A c \in Cmds : acks'[c] = "ok" => c \in CmdsOf(batch) \/ acks[c] = "ok"
    BY <1>6 DEF WSync, Ack
  <2>. QED BY <2>5, <2>6, <2>7, KeptDurable DEF AckInv
<1>7. CASE WOpenFails \/ WFlushFails
  <2>1. wpc' = "failacks" /\ acks' = acks
    BY <1>7 DEF WOpenFails, WFlushFails
  <2>2. ASSUME segs # <<>>, NEW q \in Seq(Record), NEW t \in BOOLEAN,
               \/ segs' = [segs EXCEPT ![Last1].torn = t]
               \/ segs' = [segs EXCEPT ![Last1].tail = q, ![Last1].torn = t]
        PROVE  Kept /\ UnsyncedEmpty'
    <3>1. PICK seg : /\ segs' = [segs EXCEPT ![Last1] = seg]
                     /\ seg.recs = segs[Last1].recs
                     /\ seg.header = segs[Last1].header
      <4>1. CASE segs' = [segs EXCEPT ![Last1].torn = t]
        <5> DEFINE seg == [segs[Last1] EXCEPT !.torn = t]
        <5>1. /\ segs' = [segs EXCEPT ![Last1] = seg]
              /\ seg.recs = segs[Last1].recs
              /\ seg.header = segs[Last1].header
          BY <2>2, <4>1, LastSegment DEF Segment
        <5>. QED BY <5>1, Zenon
      <4>2. CASE segs' = [segs EXCEPT ![Last1].tail = q, ![Last1].torn = t]
        <5> DEFINE seg == [segs[Last1] EXCEPT !.tail = q, !.torn = t]
        <5>1. segs' = [segs EXCEPT ![Last1] = seg]
          BY <2>2, <4>2, LastSegment, Zenon
        <5>2. seg.recs = segs[Last1].recs /\ seg.header = segs[Last1].header
          BY <2>2, LastSegment DEF Segment
        <5>. QED BY <5>1, <5>2, Zenon
      <4>. QED BY <2>2, <4>1, <4>2
    <3>2. segs[Last1].header = "unsynced" => segs[Last1].recs = <<>>
      BY <2>2, LastSegment DEF AckInv, UnsyncedEmpty
    <3>. QED BY <2>2, <3>1, <3>2, SameRecs, HeaderKept, Zenon DEF AckInv
  <2>3. Kept /\ UnsyncedEmpty'
    <3>1. CASE UNCHANGED segs
      BY <3>1, SameSegments DEF AckInv, UnsyncedEmpty
    <3>2. CASE \E t \in BOOLEAN : segs # <<>> /\ segs' = [segs EXCEPT ![Last1].torn = t]
      <4>1. <<>> \in Seq(Record)
        OBVIOUS
      <4>. QED BY <2>2, <3>2, <4>1, Zenon
    <3>3. CASE \E k \in 0..Len(batch), t \in BOOLEAN :
                 /\ segs # <<>>
                 /\ segs' = [segs EXCEPT ![Last1].tail = SubSeq(batch, 1, k),
                                         ![Last1].torn = t]
      <4>1. \A k \in 0..Len(batch) : SubSeq(batch, 1, k) \in Seq(Record)
        BY SubSeqIs DEF WriterTypeOK
      <4>. QED BY <2>2, <3>3, <4>1, Zenon
    <3>. QED BY <1>7, <3>1, <3>2, <3>3 DEF WOpenFails, WFlushFails, Inside
  <2>. QED BY <2>1, <2>3, KeptDurable DEF AckInv
<1>. QED
  BY <1>1, <1>2, <1>3, <1>4, <1>5, <1>6, <1>7 DEF WriterStep, WriterFault

LEMMA CrashKeeps ==
  ASSUME WriterTypeOK, UnsyncedEmpty, FilesAfterCrash
  PROVE  Kept /\ UnsyncedEmpty'
<1>1. PICK n \in 0..Len(segs) :
        /\ segs' \in Seq(Segment) /\ Len(segs') = n
        /\ \A i \in (n + 1)..Len(segs) : segs[i].header = "unsynced"
        /\ \A i \in 1..n : \/ segs'[i] = segs[i]
                           \/ \E k \in 0..Len(segs[i].tail), t \in BOOLEAN :
                                segs'[i] = CutTail(segs[i], k, t)
  BY FilesLeft, Zenon
<1>2. Len(segs) \in Nat /\ \A i \in 1..Len(segs) : segs[i] \in Segment
  BY DEF WriterTypeOK
<1>3. ASSUME NEW i \in 1..n
      PROVE  /\ \A j \in 1..Len(segs[i].recs) : /\ j \in 1..Len(segs'[i].recs)
                                                /\ segs'[i].recs[j] = segs[i].recs[j]
             /\ segs'[i].header = "unsynced" => segs'[i].recs = <<>>
  <2>1. i \in 1..Len(segs) /\ segs[i] \in Segment
    BY <1>1, <1>2
  <2>2. CASE segs'[i] = segs[i]
    BY <2>1, <2>2, Zenon DEF UnsyncedEmpty
  <2>3. ASSUME NEW k \in 0..Len(segs[i].tail), NEW t \in BOOLEAN, segs'[i] = CutTail(segs[i], k, t)
        PROVE  /\ \A j \in 1..Len(segs[i].recs) : /\ j \in 1..Len(segs'[i].recs)
                                                  /\ segs'[i].recs[j] = segs[i].recs[j]
               /\ segs'[i].header = "unsynced" => segs'[i].recs = <<>>
    BY <2>1, <2>3, CutTailIs
  <2>. QED BY <1>1, <2>2, <2>3, Zenon
<1>4. ASSUME NEW i \in 1..Len(segs), NEW j \in 1..Len(segs[i].recs) PROVE i \in 1..n
  <2>1. CASE i \in (n + 1)..Len(segs)
    <3>1. segs[i].recs = <<>>
      BY <1>1, <2>1 DEF UnsyncedEmpty
    <3>. QED BY <1>4, <3>1
  <2>. QED BY <1>1, <1>2, <2>1
<1>. QED BY <1>1, <1>3, <1>4, Zenon DEF Kept, UnsyncedEmpty

LEMMA ErrorReplies ==
  ASSUME LoopTypeOK, NEW cs, replies' = Reply(cs, "err")
  PROVE  Acknowledged' = Acknowledged
<1>1. ASSUME NEW c \in Cmds
      PROVE  (\E i \in DOMAIN replies'[c] : replies'[c][i] = "ok")
             <=> (\E i \in DOMAIN replies[c] : replies[c][i] = "ok")
  <2>1. replies[c] \in Seq({"ok", "err"})
    BY DEF LoopTypeOK
  <2>2. replies'[c] = replies[c] \/ replies'[c] = Append(replies[c], "err")
    BY DEF Reply
  <2>. QED BY <2>1, <2>2
<1>. QED BY <1>1 DEF Acknowledged

\* only completeNext, on a positive ack, sends a client its result
LEMMA LoopAcks ==
  ASSUME LoopTypeOK, LoopTypeOK', Loop
  PROVE  /\ UNCHANGED <<segs, wpc, acks>>
         /\ \A c \in Acknowledged' : c \in Acknowledged \/ acks[c] = "ok"
<1>1. UNCHANGED <<segs, wpc, acks>>
  BY Zenon DEF Loop, LReceiveCommand, CanReceive, LAppend, LAppendFails, LReceiveAck,
        LReceiveControl,
         LFlush, LFlushed, LFlushTimeout, LCompletedAll, LEnd, LShutdown, LDone, writerVars
<1>2. ASSUME NEW cs, replies' = Reply(cs, "err")
      PROVE  Acknowledged' = Acknowledged
  BY <1>2, ErrorReplies
<1>3. CASE UNCHANGED replies
  BY <1>1, <1>3 DEF Acknowledged
<1>4. ASSUME NEW cs, FailPending(cs) PROVE Acknowledged' = Acknowledged
  BY <1>2, <1>4 DEF FailPending
<1>5. CASE LReceiveAck
  <2>1. CASE replies' = Reply({Head(pending).cmd}, "ok") /\ acks[Head(pending).cmd] = "ok"
    <3>1. ASSUME NEW c \in Cmds, c # Head(pending).cmd
          PROVE  c \in Acknowledged' <=> c \in Acknowledged
      BY <2>1, <3>1 DEF Reply, Acknowledged
    <3>. QED BY <1>1, <2>1, <3>1 DEF Acknowledged
  <2>. QED BY <1>1, <1>4, <1>5, <2>1, ZenonT(30) DEF LReceiveAck, CompleteNext
<1>6. CASE Loop /\ ~LReceiveAck
  <2>1. \/ UNCHANGED replies
        \/ \E cs : replies' = Reply(cs, "err")
    BY <1>6, Zenon DEF Loop, LReceiveCommand, CanReceive, LAppend, LAppendFails,
          LReceiveControl, LFlush,
                LFlushed, LFlushTimeout, LCompletedAll, LEnd, LShutdown, LDone,
                FailPending
  <2>. QED BY <1>1, <1>2, <1>3, <2>1
<1>. QED BY <1>5, <1>6

LEMMA AckStep == TypeInv /\ TypeInv' /\ AckInv /\ [Next]_vars => AckInv'
<1> SUFFICES ASSUME TypeInv, TypeInv', AckInv, [Next]_vars PROVE AckInv'
  OBVIOUS
<1> USE DEF TypeInv, TypeOK
<1>1. ASSUME UNCHANGED <<segs, wpc, acks>>,
             \A c \in Acknowledged' : c \in Acknowledged \/ acks[c] = "ok"
      PROVE  AckInv'
  <2>1. \A c : IsDurable(c) => IsDurable(c)'
    BY <1>1, SameSegments, KeptDurable
  <2>2. Acknowledged' \subseteq Cmds
    BY DEF Acknowledged
  <2>. QED BY <1>1, <2>1, <2>2 DEF AckInv, UnsyncedEmpty, Last1
<1>2. CASE Loop
  BY <1>1, <1>2, LoopAcks
<1>3. CASE Send \/ CloseInbox \/ CreateSnapshot \/ ReleaseDrain \/ Recover
  <2>1. UNCHANGED <<segs, wpc, acks, replies>>
    BY <1>3, ZenonT(30) DEF Send, SendCommand, SendControl, CloseInbox, CreateSnapshot, ReleaseDrain,
                Recover, RecoverSnapshot, ReplayRecord, ReplayedSegment, StartEngine,
                writerVars
  <2>. QED BY <1>1, <2>1 DEF Acknowledged
<1>4. CASE Writer \/ Fault
  <2>1. (WriterStep \/ WriterFault) /\ UNCHANGED replies
    BY <1>4 DEF Writer, Fault
  <2>2. Acknowledged' = Acknowledged
    BY <2>1 DEF Acknowledged
  <2>3. /\ Kept /\ UnsyncedEmpty'
        /\ wpc' \in {"select", "write", "sync"} => segs'[Len(segs')].header = "synced"
        /\ \A c \in Cmds : acks'[c] = "ok" => IsDurable(c)'
    BY <2>1, WriterAcks
  <2>4. \A c \in Acknowledged' : IsDurable(c)'
    BY <2>2, <2>3, KeptDurable DEF AckInv
  <2>. QED BY <2>3, <2>4 DEF AckInv, Last1
<1>5. CASE Crash
  <2>1. (UNCHANGED segs \/ FilesAfterCrash) /\ UNCHANGED replies /\ wpc' = "create"
        /\ \A c \in Cmds : acks'[c] = "none"
    BY <1>5, Zenon DEF Crash, ProcessDies, MachineCrashes, MemoryLost, WriterStarted
  <2>2. Kept /\ UnsyncedEmpty'
    BY <2>1, CrashKeeps, SameSegments DEF AckInv, UnsyncedEmpty
  <2>3. \A c \in Acknowledged' : IsDurable(c)'
    BY <2>1, <2>2, KeptDurable DEF AckInv, Acknowledged
  <2>. QED BY <2>1, <2>2, <2>3 DEF AckInv
<1>6. CASE UNCHANGED vars
  <2>1. UNCHANGED <<segs, wpc, acks, replies>>
    BY <1>6 DEF vars, writerVars
  <2>. QED BY <1>1, <2>1 DEF Acknowledged
<1>. QED BY <1>2, <1>3, <1>4, <1>5, <1>6 DEF Next

LEMMA InitAck == Init => AckInv
<1> SUFFICES ASSUME Init PROVE AckInv
  OBVIOUS
<1>1. Acknowledged = {}
  BY DEF Init, Acknowledged
<1>. QED BY <1>1 DEF Init, WriterInit, AckInv, UnsyncedEmpty

\* A client that has its result finds the command in the log after any crash: the
\* acks of a batch are released after its fsync, and completeNext replies only to an
\* ack.  For any queue, batch and segment size, and any number of faults and crashes.
THEOREM AckedDurableAlways == Spec => []AckedDurable
<1>1. TypeInv /\ AckInv => AckedDurable
  BY DurableIsDurable DEF TypeInv, TypeOK, AckInv, AckedDurable
<1>. QED BY InitType, TypeStep, InitAck, AckStep, <1>1, PTL DEF Spec

-----------------------------------------------------------------------------
(***************************************************************************)
(* Fail-stop.  A failed loop has nothing pending and is not inside         *)
(* AppendAsync, so no later ack can be completed; a drain that it still    *)
(* holds was not answered "ok".                                            *)
(***************************************************************************)
StopInv ==
  /\ failed => /\ status = "up"
               /\ pending = <<>>
               /\ lpc # "append"
               /\ lpc = "drained" => controlResult # "ok"
  /\ lpc \in {"shutdown", "closing", "done"} => pending = <<>>

LEMMA StopStep == FlagTypeOK /\ StopInv /\ [Next]_vars => StopInv'
<1> SUFFICES ASSUME FlagTypeOK, StopInv, [Next]_vars PROVE StopInv'
  OBVIOUS
<1> USE DEF StopInv, loopVars, diskVars
<1>1. CASE LReceiveCommand
  <2>1. status = "up" /\ lpc = "select" /\ UNCHANGED <<status, controlResult>>
    BY <1>1, ZenonT(30) DEF LReceiveCommand
  <2>2. \/ UNCHANGED <<failed, pending, lpc>>
        \/ failed' = TRUE /\ pending' = <<>> /\ UNCHANGED lpc
        \/ ~failed /\ lpc' = "append" /\ UNCHANGED <<failed, pending>>
    BY <1>1, ZenonT(30) DEF LReceiveCommand, FailPending
  <2>. QED BY <2>1, <2>2
<1>12. CASE LAppend
  <2>1. lpc = "append" /\ lpc' = "select" /\ UNCHANGED failed
    BY <1>12 DEF LAppend
  <2>. QED BY <2>1
<1>13. CASE LAppendFails
  <2>1. status = "up" /\ lpc' = "select" /\ pending' = <<>> /\ UNCHANGED status
    BY <1>13 DEF LAppendFails, FailPending
  <2>. QED BY <2>1
<1>2. CASE LReceiveAck
  <2>1. /\ status = "up" /\ lpc \in {"select", "complete"} /\ pending # <<>>
        /\ UNCHANGED <<status, controlResult, lpc>>
    BY <1>2 DEF LReceiveAck, HasAck
  <2>2. UNCHANGED failed \/ (failed' = TRUE /\ pending' = <<>>)
    BY <1>2 DEF LReceiveAck, CompleteNext, FailPending
  <2>. QED BY <2>1, <2>2
<1>3. CASE LReceiveControl \/ LFlushed \/ LFlushTimeout
  <2>1. ASSUME FailPending({}), Answer("err"), status = "up", UNCHANGED status
        PROVE  StopInv'
    <3>1. pending' = <<>> /\ controlResult' = "err" /\ lpc' \in {"drained", "select"}
      BY <2>1 DEF FailPending, Answer
    <3>. QED BY <2>1, <3>1
  <2>2. ASSUME ~failed, lpc' \in {"flush", "complete"}, UNCHANGED failed
        PROVE  StopInv'
    BY <2>2
  <2>3. CASE LReceiveControl
    BY <2>1, <2>2, <2>3 DEF LReceiveControl
  <2>4. CASE LFlushTimeout
    BY <2>1, <2>4 DEF LFlushTimeout
  <2>5. CASE LFlushed
    <3>1. status = "up" /\ lpc = "flushing" /\ UNCHANGED status
      BY <2>5 DEF LFlushed
    <3>2. \/ FailPending({}) /\ Answer("err")
          \/ lpc' = "complete" /\ UNCHANGED <<failed, pending>>
      BY <2>5 DEF LFlushed
    <3>3. ASSUME lpc' = "complete", UNCHANGED <<failed, pending>> PROVE StopInv'
      BY <3>1, <3>3
    <3>. QED BY <2>1, <3>1, <3>2, <3>3
  <2>. QED BY <1>3, <2>3, <2>4, <2>5
<1>4. CASE LFlush \/ LCompletedAll
  <2>1. CASE LFlush
    <3>1. lpc = "flush" /\ lpc' = "flushing" /\ UNCHANGED <<failed, pending, status>>
      BY <2>1 DEF LFlush
    <3>. QED BY <3>1
  <2>2. CASE LCompletedAll
    <3>1. /\ pending = <<>> /\ UNCHANGED <<failed, pending, status>>
          /\ lpc' \in {"drained", "select"} /\ (failed => controlResult' = "err")
      BY <2>2 DEF LCompletedAll, Answer
    <3>. QED BY <3>1
  <2>. QED BY <1>4, <2>1, <2>2
<1>5. CASE LEnd \/ LShutdown \/ LDone
  <2>1. /\ status = "up" /\ lpc' \in {"shutdown", "closing", "done"}
        /\ UNCHANGED <<status, pending>>
    BY <1>5 DEF LEnd, LShutdown, LDone
  <2>2. pending = <<>>
    BY <1>5 DEF LEnd, LShutdown, LDone
  <2>. QED BY <2>1, <2>2
<1>6. CASE Send \/ CloseInbox
  <2>1. CASE Send
    <3>1. UNCHANGED loopVars /\ UNCHANGED status /\ (controlResult' = "none" \/ controlResult' = controlResult)
      BY <2>1 DEF Send, SendCommand, SendControl
    <3>. QED BY <3>1
  <2>2. CASE CloseInbox
    BY <2>2 DEF CloseInbox
  <2>. QED BY <1>6, <2>1, <2>2
<1>7. CASE CreateSnapshot \/ ReleaseDrain
  <2>1. lpc = "drained" /\ UNCHANGED <<status, failed, pending, controlResult>>
    BY <1>7 DEF CreateSnapshot, ReleaseDrain
  <2>2. lpc' \in {"drained", "select"}
    BY <1>7, <2>1 DEF CreateSnapshot, ReleaseDrain
  <2>. QED BY <2>1, <2>2
<1>8. CASE Crash
  <2>1. failed' = FALSE /\ lpc' = "select"
    BY <1>8 DEF Crash, ProcessDies, MachineCrashes, MemoryLost
  <2>. QED BY <2>1
<1>9. CASE Recover
  <2>1. status # "up" /\ UNCHANGED <<failed, pending, lpc>>
    BY <1>9, Zenon DEF Recover, RecoverSnapshot, ReplayRecord, ReplayedSegment, StartEngine
  <2>. QED BY <2>1
<1>10. CASE Writer \/ Fault
  BY <1>10 DEF Writer, Fault
<1>11. CASE UNCHANGED vars
  BY <1>11 DEF vars
<1>. QED
  BY <1>1, <1>2, <1>3, <1>4, <1>5, <1>6, <1>7, <1>8, <1>9, <1>10, <1>11, <1>12, <1>13, ZenonT(30)
     DEF Next, Loop

LEMMA InitStop == Init => StopInv
BY DEF Init, StopInv

\* After its first log failure the loop acknowledges, executes and publishes
\* nothing until the process is gone (DESIGN.md, "terminal fail-stop state").
THEOREM FailStopAlways == Spec => FailStop
<1>1. Init => StopInv
  BY InitStop
<1>2. ASSUME TypeInv, TypeInv', StopInv, [Next]_vars
      PROVE  [failed /\ status' = "up" =>
                /\ failed' /\ Acknowledged' = Acknowledged
                /\ UNCHANGED <<books, lastApplied, snap>>]_vars
  <2> SUFFICES ASSUME Next, failed, status' = "up"
               PROVE  /\ failed' /\ Acknowledged' = Acknowledged
                      /\ UNCHANGED <<books, lastApplied, snap>>
    BY <1>2
  <2> USE <1>2 DEF StopInv, loopVars, diskVars
  <2>1. ASSUME NEW cs, replies' = Reply(cs, "err") PROVE Acknowledged' = Acknowledged
    BY <2>1, ErrorReplies DEF TypeInv, TypeOK
  <2>2. UNCHANGED replies => Acknowledged' = Acknowledged
    BY DEF Acknowledged
  <2> DEFINE Quiet == /\ failed' /\ UNCHANGED <<books, lastApplied, snap>>
                      /\ UNCHANGED replies \/ \E cs : replies' = Reply(cs, "err")
  <2>3. ASSUME LReceiveCommand \/ LAppend \/ LAppendFails \/ LReceiveAck PROVE Quiet
    <3>1. LReceiveCommand
      BY <2>3, Zenon DEF LAppend, LAppendFails, LReceiveAck, HasAck
    <3>. QED BY <3>1, ZenonT(30) DEF LReceiveCommand
  <2>4. ASSUME LReceiveControl \/ LFlushed PROVE Quiet
    BY <2>4, Zenon DEF LReceiveControl, LFlushed, FailPending
  <2>5. ASSUME LFlushTimeout PROVE Quiet
    BY <2>5 DEF LFlushTimeout, FailPending
  <2>6. ASSUME LFlush \/ LCompletedAll \/ LEnd \/ LShutdown PROVE Quiet
    BY <2>6, Zenon DEF LFlush, LCompletedAll, LEnd, LShutdown
  <2>7. ASSUME LDone PROVE Quiet
    BY <2>7, Zenon DEF LDone
  <2>8. ASSUME Send \/ CloseInbox PROVE Quiet
    BY <2>8, Zenon DEF Send, SendCommand, SendControl, CloseInbox
  <2>9. ASSUME CreateSnapshot \/ ReleaseDrain PROVE Quiet
    BY <2>9, Zenon DEF CreateSnapshot, ReleaseDrain
  <2>10. ~(Crash \/ Recover)
    BY Zenon DEF Crash, ProcessDies, MachineCrashes, MemoryLost, Recover, RecoverSnapshot, ReplayRecord, ReplayedSegment, StartEngine
  <2>11. ASSUME Writer \/ Fault PROVE Quiet
    BY <2>11, Zenon DEF Writer, Fault
  <2>12. Quiet
    BY <2>3, <2>4, <2>5, <2>6, <2>7, <2>8, <2>9, <2>10, <2>11, Zenon DEF Next, Loop
  <2>. QED BY <2>1, <2>2, <2>12
<1>3. TypeInv => FlagTypeOK
  BY DEF TypeInv, TypeOK
<1>. QED BY <1>1, <1>2, <1>3, InitType, TypeStep, StopStep, PTL DEF Spec, FailStop

-----------------------------------------------------------------------------
(***************************************************************************)
(* Each command is answered once.                                          *)
(*                                                                         *)
(* The commands without an answer are those in pending, in hand and in the *)
(* inbox.  Their numbers grow from one to the next and no two have the     *)
(* same command, so whatever the loop takes out and answers is gone from   *)
(* all three.                                                              *)
(***************************************************************************)
Item(x) == [seq |-> x.seq, cmd |-> x.cmd]
IsCommand(i) == i \in 1..Len(inbox) /\ inbox[i].kind = "command"

Pended == {pending[i] : i \in 1..Len(pending)}
Held == IF lpc = "append" THEN {Item(hand)} ELSE {}
Inboxed == {Item(inbox[i]) : i \in {k \in 1..Len(inbox) : IsCommand(k)}}
Waiting == Pended \cup Held \cup Inboxed

PendingGrows == \A i, j \in 1..Len(pending) : i < j => pending[i].seq < pending[j].seq
InboxGrows ==
  \A i, j \in 1..Len(inbox) :
    i < j /\ IsCommand(i) /\ IsCommand(j) => inbox[i].seq < inbox[j].seq

InOrder ==
  /\ PendingGrows
  /\ InboxGrows
  /\ \A x \in Pended : \A y \in Held : x.seq < y.seq
  /\ \A x \in Pended \cup Held : \A y \in Inboxed : x.seq < y.seq
  /\ \A x \in Waiting : x.seq < nextSeq

Named == 
  /\ \A x, y \in Waiting : x.cmd = y.cmd => x.seq = y.seq
  /\ \A x \in Waiting : x.cmd \in sent

Unanswered ==
  /\ \A x \in Waiting : replies[x.cmd] = <<>>
  /\ \A c \in Cmds : c \notin sent => replies[c] = <<>>
  /\ RepliedOnce

Stopped == pending = <<>> /\ inbox = <<>> /\ lpc = "select"

WaitInv ==
  /\ status # "up" => Stopped
  /\ InOrder /\ Named /\ Unanswered

Typed == LoopTypeOK /\ SenderTypeOK /\ Inside

LEMMA WaitingTypes ==
  ASSUME Typed, NEW x \in Waiting
  PROVE  x.seq \in Nat /\ x.cmd \in Cmds
<1>1. CASE x \in Pended
  <2>1. PICK i \in 1..Len(pending) : x = pending[i]
    BY <1>1 DEF Pended
  <2>2. x \in [seq : Nat, cmd : Cmds]
    <3>1. pending \in Seq([seq : Nat, cmd : Cmds])
      BY DEF Typed, LoopTypeOK
    <3>. QED BY <2>1, <3>1, ElementAt, Zenon
  <2>. QED BY <2>2
<1>2. CASE x \in Held
  BY <1>2 DEF Typed, Inside, Held, Item, Record
<1>3. CASE x \in Inboxed
  <2>1. PICK i \in 1..Len(inbox) : IsCommand(i) /\ x = Item(inbox[i])
    BY <1>3 DEF Inboxed
  <2>2. inbox[i] \in Messages /\ inbox[i].kind = "command"
    BY <2>1 DEF IsCommand, Typed, SenderTypeOK
  <2>. QED BY <2>1, <2>2 DEF Messages, Item
<1>. QED BY <1>1, <1>2, <1>3 DEF Waiting

\* the first pending command, and the rest
LEMMA PendingTail ==
  ASSUME Typed, pending # <<>>, pending' = Tail(pending), PendingGrows
  PROVE  /\ PendingGrows'
         /\ Head(pending) \in Pended
         /\ Pended' \subseteq Pended
         /\ \A x \in Pended' : Head(pending).seq < x.seq
         /\ \A x \in Pended : x = Head(pending) \/ x \in Pended'
<1> USE DEF PendingGrows, Pended
<1>1. pending \in Seq([seq : Nat, cmd : Cmds])
  BY DEF Typed, LoopTypeOK
<1>2. /\ Len(pending) \in Nat /\ Len(pending) # 0
      /\ Head(pending) = pending[1]
      /\ Len(pending') = Len(pending) - 1
      /\ \A i \in 1..Len(pending') : pending'[i] = pending[i + 1]
  BY <1>1
<1>3. \A i \in 1..Len(pending') : i + 1 \in 1..Len(pending) /\ 1 < i + 1
  BY <1>2
<1>4. \A i \in 1..Len(pending) : i = 1 \/ (i - 1 \in 1..Len(pending') /\ (i - 1) + 1 = i)
  BY <1>2
<1>5. PendingGrows'
  BY <1>2, <1>3
<1>6. 1 \in 1..Len(pending)
  BY <1>2
<1>7. \A x \in Pended' : x \in Pended /\ Head(pending).seq < x.seq
  BY <1>2, <1>3, <1>6
<1>8. ASSUME NEW x \in Pended PROVE x = Head(pending) \/ x \in Pended'
  <2>1. PICK i \in 1..Len(pending) : x = pending[i]
    OBVIOUS
  <2>2. CASE i = 1
    BY <1>2, <2>1, <2>2
  <2>3. CASE i # 1
    <3>1. PICK j \in 1..Len(pending') : j + 1 = i
      BY <1>4, <2>3
    <3>2. pending'[j] = x
      BY <1>2, <2>1, <3>1
    <3>. QED BY <3>2
  <2>. QED BY <2>2, <2>3
<1>. QED BY <1>2, <1>5, <1>6, <1>7, <1>8

LEMMA PendingAppend ==
  ASSUME Typed, NEW y \in [seq : Nat, cmd : Cmds], pending' = Append(pending, y),
         PendingGrows, \A x \in Pended : x.seq < y.seq
  PROVE  PendingGrows' /\ Pended' = Pended \cup {y}
<1> USE DEF PendingGrows, Pended
<1>1. pending \in Seq([seq : Nat, cmd : Cmds])
  BY DEF Typed, LoopTypeOK
<1>2. /\ Len(pending) \in Nat
      /\ Len(pending') = Len(pending) + 1
      /\ \A i \in 1..Len(pending) : pending'[i] = pending[i]
      /\ pending'[Len(pending) + 1] = y
  BY <1>1
<1>. QED BY <1>2

LEMMA InboxTail ==
  ASSUME Typed, inbox # <<>>, inbox' = Tail(inbox), InboxGrows
  PROVE  /\ InboxGrows'
         /\ Inboxed' \subseteq Inboxed
         /\ Head(inbox).kind # "command" => Inboxed' = Inboxed
         /\ Head(inbox).kind = "command" =>
              /\ Item(Head(inbox)) \in Inboxed
              /\ \A x \in Inboxed' : Head(inbox).seq < x.seq
              /\ \A x \in Inboxed : x = Item(Head(inbox)) \/ x \in Inboxed'
<1>1. /\ Len(inbox) \in Nat /\ Len(inbox) # 0
      /\ Head(inbox) = inbox[1]
      /\ Len(inbox') = Len(inbox) - 1
      /\ \A i \in 1..Len(inbox') : inbox'[i] = inbox[i + 1]
  BY DEF Typed, SenderTypeOK
<1>2. \A i \in 1..Len(inbox') : i + 1 \in 1..Len(inbox) /\ 1 < i + 1
  BY <1>1
<1>3. \A i \in 1..Len(inbox) : i = 1 \/ (i - 1 \in 1..Len(inbox') /\ (i - 1) + 1 = i)
  BY <1>1
<1>4. \A i \in 1..Len(inbox') : IsCommand(i)' <=> IsCommand(i + 1)
  BY <1>1, <1>2 DEF IsCommand
<1>5. InboxGrows'
  BY <1>1, <1>2, <1>4 DEF InboxGrows
<1>6. 1 \in 1..Len(inbox) /\ (IsCommand(1) <=> Head(inbox).kind = "command")
  BY <1>1 DEF IsCommand
<1>7. ASSUME NEW x \in Inboxed'
      PROVE  x \in Inboxed /\ (IsCommand(1) => Head(inbox).seq < x.seq)
  <2>1. PICK i \in 1..Len(inbox') : IsCommand(i)' /\ x = Item(inbox'[i])
    BY DEF Inboxed
  <2>2. i + 1 \in 1..Len(inbox) /\ 1 < i + 1 /\ IsCommand(i + 1) /\ x = Item(inbox[i + 1])
    BY <1>1, <1>2, <1>4, <2>1
  <2>. QED BY <1>1, <1>6, <2>2 DEF Inboxed, InboxGrows, Item
<1>8. ASSUME NEW x \in Inboxed
      PROVE  (IsCommand(1) /\ x = Item(Head(inbox))) \/ x \in Inboxed'
  <2>1. PICK i \in 1..Len(inbox) : IsCommand(i) /\ x = Item(inbox[i])
    BY DEF Inboxed
  <2>2. CASE i = 1
    BY <1>1, <2>1, <2>2
  <2>3. CASE i # 1
    <3>1. PICK j \in 1..Len(inbox') : j + 1 = i
      BY <1>3, <2>3
    <3>2. IsCommand(j)' /\ inbox'[j] = inbox[i]
      BY <1>1, <1>4, <2>1, <3>1
    <3>. QED BY <2>1, <3>2 DEF Inboxed
  <2>. QED BY <2>2, <2>3
<1>9. IsCommand(1) => Item(Head(inbox)) \in Inboxed
  BY <1>1, <1>6 DEF Inboxed
<1>. QED BY <1>5, <1>6, <1>7, <1>8, <1>9, Zenon

LEMMA InboxAppend ==
  ASSUME Typed, NEW m \in Messages, inbox' = Append(inbox, m), InboxGrows,
         m.kind = "command" => \A x \in Inboxed : x.seq < m.seq
  PROVE  /\ InboxGrows'
         /\ m.kind = "command" => Inboxed' = Inboxed \cup {Item(m)}
         /\ m.kind # "command" => Inboxed' = Inboxed
<1>1. /\ Len(inbox) \in Nat
      /\ Len(inbox') = Len(inbox) + 1
      /\ \A i \in 1..Len(inbox) : inbox'[i] = inbox[i]
      /\ inbox'[Len(inbox) + 1] = m
  BY DEF Typed, SenderTypeOK
<1>0. PICK n \in Nat : n = Len(inbox) + 1
  BY <1>1
<1>2. /\ Len(inbox') = n /\ inbox'[n] = m
      /\ \A i \in 1..Len(inbox) : i \in 1..n /\ i # n /\ i < n
      /\ \A i \in 1..n : i \in 1..Len(inbox) \/ i = n
      /\ n \in 1..n
  BY <1>0, <1>1
<1>3. \A i \in 1..Len(inbox) : IsCommand(i)' <=> IsCommand(i)
  BY <1>1, <1>2 DEF IsCommand
<1>4. IsCommand(n)' <=> m.kind = "command"
  BY <1>2 DEF IsCommand
<1>5. ASSUME NEW i \in 1..Len(inbox), IsCommand(i), m.kind = "command"
      PROVE  inbox[i].seq < m.seq
  <2>1. Item(inbox[i]) \in Inboxed
    BY <1>5 DEF Inboxed
  <2>2. Item(inbox[i]).seq < m.seq
    BY <1>5, <2>1
  <2>. QED BY <2>2 DEF Item
<1>6. InboxGrows'
  <2> SUFFICES ASSUME NEW i \in 1..n, NEW j \in 1..n, i < j, IsCommand(i)', IsCommand(j)'
               PROVE  inbox'[i].seq < inbox'[j].seq
    BY <1>2 DEF InboxGrows
  <2>1. i \in 1..Len(inbox)
    BY <1>0, <1>1
  <2>2. CASE j \in 1..Len(inbox)
    BY <1>1, <1>3, <2>1, <2>2 DEF InboxGrows
  <2>3. CASE j = n
    <3>1. IsCommand(i) /\ m.kind = "command" /\ inbox'[i] = inbox[i] /\ inbox'[j] = m
      BY <1>1, <1>2, <1>3, <1>4, <2>1, <2>3
    <3>. QED BY <1>5, <2>1, <3>1
  <2>. QED BY <1>2, <2>2, <2>3
<1>7. Inboxed \subseteq Inboxed'
  BY <1>1, <1>2, <1>3 DEF Inboxed
<1>8. m.kind = "command" => Item(m) \in Inboxed'
  BY <1>2, <1>4 DEF Inboxed
<1>9. ASSUME NEW x \in Inboxed' PROVE x \in Inboxed \/ (m.kind = "command" /\ x = Item(m))
  <2>1. PICK i \in 1..n : IsCommand(i)' /\ x = Item(inbox'[i])
    BY <1>2 DEF Inboxed
  <2>2. CASE i \in 1..Len(inbox)
    <3>1. IsCommand(i) /\ x = Item(inbox[i])
      BY <1>1, <1>3, <2>1, <2>2
    <3>. QED BY <2>2, <3>1 DEF Inboxed
  <2>3. CASE i = n
    BY <1>2, <1>4, <2>1, <2>3
  <2>. QED BY <1>2, <2>2, <2>3
<1>. QED BY <1>6, <1>7, <1>8, <1>9, Zenon

\* a step after which only commands that waited before still do
LEMMA FewerWait ==
  ASSUME InOrder, Named, PendingGrows', InboxGrows',
         Pended' \subseteq Pended, Held' \subseteq Held, Inboxed' \subseteq Inboxed,
         UNCHANGED <<nextSeq, sent>>
  PROVE  InOrder' /\ Named' /\ Waiting' \subseteq Waiting
<1>1. Waiting' \subseteq Waiting
  BY DEF Waiting
<1>2. Named'
  BY <1>1 DEF Named
<1>3. InOrder'
  BY <1>1 DEF InOrder
<1>. QED BY <1>1, <1>2, <1>3

\* an answer to commands that have none, to none that still waits
LEMMA AnswerOnce ==
  ASSUME LoopTypeOK, Unanswered, NEW cs, NEW a \in {"ok", "err"}, replies' = Reply(cs, a),
         \A c \in cs : c \in sent /\ replies[c] = <<>>,
         Waiting' \subseteq Waiting, \A x \in Waiting' : x.cmd \in Cmds \ cs,
         UNCHANGED sent
  PROVE  Unanswered'
<1>1. \A c \in Cmds : replies'[c] = IF c \in cs THEN Append(replies[c], a) ELSE replies[c]
  BY DEF Reply, LoopTypeOK
<1>2. \A c \in Cmds : replies[c] \in Seq({"ok", "err"}) /\ Len(replies[c]) <= 1
  BY DEF LoopTypeOK, Unanswered, RepliedOnce
<1>3. Len(Append(<<>>, a)) = 1
  OBVIOUS
<1>4. ASSUME NEW c \in Cmds PROVE Len(replies'[c]) <= 1
  <2>1. CASE c \in cs
    <3>1. replies[c] = <<>>
      BY <2>1
    <3>2. replies'[c] = Append(<<>>, a)
      BY <1>1, <2>1, <3>1, Zenon
    <3>. QED BY <1>3, <3>2
  <2>2. CASE c \notin cs
    BY <1>1, <1>2, <2>2
  <2>. QED BY <2>1, <2>2
<1>5. \A x \in Waiting' : replies'[x.cmd] = <<>>
  BY <1>1 DEF Unanswered
<1>6. \A c \in Cmds : c \notin sent' => replies'[c] = <<>>
  BY <1>1 DEF Unanswered
<1>. QED BY <1>4, <1>5, <1>6 DEF Unanswered, RepliedOnce

LEMMA NoAnswer ==
  ASSUME Unanswered, UNCHANGED <<sent, replies>>, Waiting' \subseteq Waiting
  PROVE  Unanswered'
BY DEF Unanswered, RepliedOnce

\* a step that leaves pending, hand and the inbox alone
LEMMA SameWaiting ==
  ASSUME UNCHANGED <<pending, inbox>>, Held' \subseteq Held, InOrder
  PROVE  /\ PendingGrows' /\ InboxGrows'
         /\ Pended' \subseteq Pended /\ Inboxed' \subseteq Inboxed
BY DEF InOrder, PendingGrows, InboxGrows, IsCommand, Pended, Inboxed

LEMMA NonePending ==
  ASSUME pending' = <<>>
  PROVE  PendingGrows' /\ Pended' = {}
BY DEF PendingGrows, Pended

\* failPending answers what is pending, and cs; what waits in the inbox goes on waiting
LEMMA FailedPending ==
  ASSUME Typed, InOrder, Named, Unanswered, NEW cs, FailPending(cs),
         InboxGrows', Inboxed' \subseteq Inboxed, Held' = {},
         \A c \in cs : \E x \in Waiting : x.cmd = c /\ \A y \in Inboxed' : x.seq # y.seq,
         UNCHANGED <<nextSeq, sent>>
  PROVE  InOrder' /\ Named' /\ Unanswered'
<1>1. PendingGrows' /\ Pended' = {} /\ replies' = Reply(CmdsOf(pending) \cup cs, "err")
  BY NonePending, Zenon DEF FailPending
<1>2. InOrder' /\ Named' /\ Waiting' \subseteq Waiting
  BY <1>1, FewerWait
<1>3. Waiting' = Inboxed'
  BY <1>1 DEF Waiting
<1>4. \A c \in CmdsOf(pending) : \E x \in Pended : x.cmd = c
  <2>1. DOMAIN pending = 1..Len(pending)
    BY DEF Typed, LoopTypeOK
  <2>. QED BY <2>1, Zenon DEF CmdsOf, Pended
<1>5. \A x \in Pended : \A y \in Inboxed' : x.seq # y.seq
  <2> SUFFICES ASSUME NEW x \in Pended, NEW y \in Inboxed' PROVE x.seq # y.seq
    OBVIOUS
  <2>1. x.seq < y.seq
    BY DEF InOrder
  <2>2. x.seq \in Nat /\ y.seq \in Nat
    BY WaitingTypes DEF Waiting
  <2>. QED BY <2>1, <2>2
<1>6. \A c \in CmdsOf(pending) \cup cs :
        \E x \in Waiting : x.cmd = c /\ \A y \in Inboxed' : x.seq # y.seq
  BY <1>4, <1>5 DEF Waiting
<1>7. \A c \in CmdsOf(pending) \cup cs : c \in sent /\ replies[c] = <<>>
  BY <1>6 DEF Named, Unanswered
<1>8. \A y \in Waiting' : y.cmd \in Cmds \ (CmdsOf(pending) \cup cs)
  <2> SUFFICES ASSUME NEW y \in Waiting' PROVE y.cmd \in Cmds \ (CmdsOf(pending) \cup cs)
    OBVIOUS
  <2>1. y \in Waiting /\ y \in Inboxed'
    BY <1>2, <1>3
  <2>2. y.cmd \in Cmds
    BY <2>1, WaitingTypes
  <2>. QED BY <1>6, <2>1, <2>2 DEF Named
<1>9. LoopTypeOK
  BY DEF Typed
<1>. QED BY <1>1, <1>2, <1>7, <1>8, <1>9, AnswerOnce, ZenonT(30)

LEMMA SendWait ==
  ASSUME Typed, WaitInv, Send \/ CloseInbox
  PROVE  WaitInv'
<1>1. status = "up" /\ UNCHANGED <<status, pending, lpc, hand, replies>>
  BY ZenonT(30) DEF Send, SendCommand, SendControl, CanSend, CloseInbox, diskVars, loopVars
<1>2. PendingGrows' /\ Pended' = Pended /\ Held' = Held
  BY <1>1 DEF WaitInv, InOrder, PendingGrows, Pended, Held
<1>3. ASSUME NEW c \in Cmds, SendCommand(c) PROVE WaitInv'
  <2> DEFINE m == Message("command", nextSeq, c)
             y == Item(m)
  <2>1. /\ c \notin sent /\ sent' = sent \cup {c} /\ nextSeq' = nextSeq + 1
        /\ inbox' = Append(inbox, m)
    BY <1>3 DEF SendCommand
  <2>2. nextSeq \in Nat /\ m \in Messages /\ m.kind = "command" /\ m.seq = nextSeq
        /\ y.seq = nextSeq /\ y.cmd = c
    BY Zenon DEF Typed, SenderTypeOK, Message, Messages, Item
  <2> HIDE DEF m
  <2>3. \A x \in Inboxed : x.seq < m.seq
    BY <2>2 DEF WaitInv, InOrder, Waiting
  <2>4. InboxGrows' /\ Inboxed' = Inboxed \cup {y}
    BY <2>1, <2>2, <2>3, InboxAppend DEF WaitInv, InOrder
  <2>5. Waiting' = Waiting \cup {y}
    BY <1>2, <2>4 DEF Waiting
  <2> HIDE DEF y
  <2>6. \A x \in Waiting : x.seq \in Nat /\ x.seq < nextSeq /\ x.cmd \in sent
    BY WaitingTypes DEF WaitInv, InOrder, Named
  <2>7. InOrder'
    <3>1. \A x \in Pended' \cup Held' : \A z \in Inboxed' : x.seq < z.seq
      BY <1>2, <2>2, <2>4, <2>6 DEF WaitInv, InOrder, Waiting
    <3>2. \A x \in Waiting' : x.seq < nextSeq'
      BY <2>1, <2>2, <2>5, <2>6
    <3>. QED BY <1>2, <2>4, <3>1, <3>2 DEF WaitInv, InOrder
  <2>8. Named'
    BY <2>1, <2>2, <2>5, <2>6 DEF WaitInv, Named
  <2>9. Unanswered'
    BY <1>1, <2>1, <2>2, <2>5 DEF WaitInv, Unanswered, RepliedOnce
  <2>. QED BY <1>1, <2>7, <2>8, <2>9 DEF WaitInv
<1>4. ASSUME NEW k \in {"barrier", "drain"}, SendControl(k) PROVE WaitInv'
  <2> DEFINE m == Message(k, 0, 0)
  <2>1. inbox' = Append(inbox, m) /\ UNCHANGED <<nextSeq, sent>>
    BY <1>4 DEF SendControl
  <2>2. m \in Messages /\ m.kind # "command"
    BY DEF Message, Messages
  <2> HIDE DEF m
  <2>3. InboxGrows' /\ Inboxed' = Inboxed
    BY <2>1, <2>2, InboxAppend DEF WaitInv, InOrder
  <2>4. InOrder' /\ Named' /\ Waiting' \subseteq Waiting
    BY <1>2, <2>1, <2>3, FewerWait DEF WaitInv
  <2>. QED BY <1>1, <2>1, <2>4, NoAnswer DEF WaitInv
<1>5. CASE CloseInbox
  <2>1. UNCHANGED <<inbox, nextSeq, sent>>
    BY <1>5 DEF CloseInbox
  <2>2. InboxGrows' /\ Inboxed' = Inboxed
    BY <1>1, <1>2, <2>1, SameWaiting, Zenon DEF WaitInv, Inboxed, IsCommand
  <2>3. InOrder' /\ Named' /\ Waiting' \subseteq Waiting
    BY <1>2, <2>1, <2>2, FewerWait DEF WaitInv
  <2>. QED BY <1>1, <2>1, <2>3, NoAnswer DEF WaitInv
<1>. QED BY <1>3, <1>4, <1>5 DEF Send

LEMMA QuietWait ==
  ASSUME WaitInv, UNCHANGED <<status, pending, inbox, nextSeq, sent, replies>>,
         Held' = Held, status = "up"
  PROVE  WaitInv'
<1>1. /\ PendingGrows' /\ InboxGrows'
      /\ Pended' \subseteq Pended /\ Inboxed' \subseteq Inboxed
  BY SameWaiting DEF WaitInv
<1>2. InOrder' /\ Named' /\ Waiting' \subseteq Waiting
  BY <1>1, FewerWait DEF WaitInv
<1>. QED BY <1>2, NoAnswer DEF WaitInv

LEMMA StoppedWait ==
  ASSUME Typed', Stopped', Unanswered, UNCHANGED <<sent, replies>>
  PROVE  WaitInv'
<1>1. pending' = <<>> /\ inbox' = <<>> /\ lpc' = "select"
  BY DEF Stopped
<1>2. PendingGrows' /\ Pended' = {}
  BY <1>1, NonePending
<1>3. Inboxed' = {} /\ InboxGrows'
  BY <1>1 DEF Inboxed, InboxGrows
<1>4. Held' = {}
  BY <1>1 DEF Held
<1>5. Waiting' = {}
  BY <1>2, <1>3, <1>4 DEF Waiting
<1>. QED BY <1>2, <1>3, <1>4, <1>5 DEF WaitInv, InOrder, Named, Unanswered, RepliedOnce

LEMMA ReceiveWait ==
  ASSUME Typed, FlagTypeOK, WriterFlagTypeOK, StopInv, WaitInv, LReceiveCommand
  PROVE  WaitInv'
<1> DEFINE m == Head(inbox)
           y == Item(m)
<1>1. /\ status = "up" /\ lpc = "select" /\ inbox # <<>> /\ m.kind = "command"
      /\ inbox' = Tail(inbox) /\ UNCHANGED <<status, nextSeq, sent>>
  BY ZenonT(30) DEF LReceiveCommand, CanReceive, diskVars, senderVars
<1>2. \/ failed /\ replies' = Reply({m.cmd}, "err") /\ UNCHANGED <<lpc, hand, pending>>
      \/ FailPending({m.cmd}) /\ UNCHANGED lpc
      \/ /\ lpc' = "append" /\ hand' = [seq |-> m.seq, cmd |-> m.cmd, res |-> books[SymbolOf[m.cmd]]]
         /\ UNCHANGED <<pending, replies>>
  BY ZenonT(30) DEF LReceiveCommand, loopVars
<1> HIDE DEF m
<1>3. /\ InboxGrows' /\ Inboxed' \subseteq Inboxed
      /\ y \in Inboxed /\ y.seq = m.seq /\ y.cmd = m.cmd
      /\ \A x \in Inboxed' : m.seq < x.seq
  BY <1>1, InboxTail, Zenon DEF WaitInv, InOrder, m, Item
<1>4. Held = {}
  BY <1>1 DEF Held
<1>5. \A x \in Waiting : x.seq \in Nat /\ x.cmd \in Cmds
  BY WaitingTypes
<1>6. y \in Waiting /\ \A x \in Inboxed' : y.seq # x.seq
  BY <1>3, <1>5 DEF Waiting
<1>7. CASE FailPending({m.cmd}) /\ UNCHANGED lpc
  <2>1. Held' = {}
    BY <1>1, <1>7 DEF Held
  <2>2. \A c \in {m.cmd} : \E x \in Waiting : x.cmd = c /\ \A z \in Inboxed' : x.seq # z.seq
    BY <1>3, <1>6
  <2>3. InOrder' /\ Named' /\ Unanswered'
    BY <1>1, <1>3, <1>7, <2>1, <2>2, FailedPending, Zenon DEF WaitInv
  <2>. QED BY <1>1, <2>3 DEF WaitInv
<1>8. CASE failed /\ replies' = Reply({m.cmd}, "err") /\ UNCHANGED <<lpc, hand, pending>>
  <2>1. Held' = {} /\ pending' = <<>>
    BY <1>1, <1>8 DEF Held, StopInv
  <2>2. PendingGrows' /\ Pended' = {}
    BY <2>1, NonePending
  <2>3. InOrder' /\ Named' /\ Waiting' \subseteq Waiting
    BY <1>1, <1>3, <2>1, <2>2, FewerWait, Zenon DEF WaitInv
  <2>4. Waiting' = Inboxed'
    BY <2>1, <2>2 DEF Waiting
  <2>5. \A x \in Waiting' : x.cmd \in Cmds \ {m.cmd}
    <3> SUFFICES ASSUME NEW x \in Waiting' PROVE x.cmd \in Cmds \ {m.cmd}
      OBVIOUS
    <3>1. x \in Waiting /\ x.seq # y.seq
      BY <1>6, <2>3, <2>4
    <3>2. x.cmd # y.cmd
      BY <1>6, <3>1 DEF WaitInv, Named
    <3>. QED BY <1>3, <1>5, <3>1, <3>2, Zenon
  <2>6. m.cmd \in sent /\ replies[m.cmd] = <<>>
    BY <1>3, <1>6 DEF WaitInv, Named, Unanswered
  <2>7. LoopTypeOK
    BY DEF Typed
  <2>8. Unanswered'
    <3>1. \A c \in {m.cmd} : c \in sent /\ replies[c] = <<>>
      BY <2>6, Zenon
    <3>2. Unanswered /\ UNCHANGED sent /\ replies' = Reply({m.cmd}, "err")
      BY <1>1, <1>8, Zenon DEF WaitInv
    <3>. QED BY <2>3, <2>5, <2>7, <3>1, <3>2, AnswerOnce
  <2>. QED BY <1>1, <2>3, <2>8 DEF WaitInv
<1>9. CASE /\ lpc' = "append" /\ hand' = [seq |-> m.seq, cmd |-> m.cmd, res |-> books[SymbolOf[m.cmd]]]
           /\ UNCHANGED <<pending, replies>>
  <2>1. Held' = {y}
    BY <1>9 DEF Held, Item
  <2>2. PendingGrows' /\ Pended' = Pended
    BY <1>9 DEF WaitInv, InOrder, PendingGrows, Pended
  <2> HIDE DEF y
  <2>3. Waiting' \subseteq Waiting
    BY <1>3, <1>4, <1>6, <2>1, <2>2 DEF Waiting
  <2>4. InOrder'
    <3>1. \A x \in Pended' : \A z \in Held' : x.seq < z.seq
      BY <1>3, <2>1, <2>2 DEF WaitInv, InOrder
    <3>2. \A x \in Pended' \cup Held' : \A z \in Inboxed' : x.seq < z.seq
      BY <1>3, <2>1, <2>2 DEF WaitInv, InOrder
    <3>3. \A x \in Waiting' : x.seq < nextSeq'
      BY <1>1, <2>3 DEF WaitInv, InOrder
    <3>. QED BY <1>3, <2>2, <3>1, <3>2, <3>3 DEF InOrder
  <2>5. Named'
    BY <1>1, <2>3 DEF WaitInv, Named
  <2>6. Unanswered'
    BY <1>1, <1>9, <2>3, NoAnswer DEF WaitInv
  <2>. QED BY <1>1, <2>4, <2>5, <2>6 DEF WaitInv
<1>. QED BY <1>2, <1>7, <1>8, <1>9, Zenon

LEMMA AppendWait ==
  ASSUME Typed, WaitInv, LAppend \/ LAppendFails
  PROVE  WaitInv'
<1> DEFINE y == Item(hand)
<1>1. /\ status = "up" /\ lpc = "append" /\ lpc' = "select"
      /\ UNCHANGED <<status, inbox, nextSeq, sent>>
  BY Zenon DEF LAppend, LAppendFails, diskVars, senderVars
<1>2. Held = {y} /\ Held' = {}
  BY <1>1 DEF Held
<1>3. InboxGrows' /\ Inboxed' = Inboxed
  BY <1>1 DEF WaitInv, InOrder, InboxGrows, Inboxed, IsCommand
<1>4. \A x \in Waiting : x.seq \in Nat /\ x.cmd \in Cmds
  BY WaitingTypes
<1>5. y \in Waiting /\ y.cmd = hand.cmd
  BY <1>2 DEF Waiting, Item
<1>6. CASE LAppend
  <2>1. pending' = Append(pending, y) /\ UNCHANGED replies
    BY <1>6 DEF LAppend, Item
  <2>2. y \in [seq : Nat, cmd : Cmds] /\ \A x \in Pended : x.seq < y.seq
    BY <1>1, <1>2 DEF WaitInv, InOrder, Typed, Inside, Record, Item
  <2> HIDE DEF y
  <2>3. PendingGrows' /\ Pended' = Pended \cup {y}
    BY <2>1, <2>2, PendingAppend DEF WaitInv, InOrder
  <2>4. Waiting' = Waiting
    BY <1>2, <1>3, <2>3 DEF Waiting
  <2>5. InOrder'
    BY <1>1, <1>2, <1>3, <2>3, <2>4 DEF WaitInv, InOrder
  <2>6. Named'
    BY <1>1, <2>4 DEF WaitInv, Named
  <2>7. Unanswered'
    BY <1>1, <2>1, <2>4, NoAnswer DEF WaitInv
  <2>. QED BY <1>1, <2>5, <2>6, <2>7 DEF WaitInv
<1>7. CASE LAppendFails
  <2>1. FailPending({hand.cmd})
    BY <1>7, Zenon DEF LAppendFails
  <2> HIDE DEF y
  <2>2. \A x \in Inboxed' : y.seq # x.seq
    <3> SUFFICES ASSUME NEW x \in Inboxed' PROVE y.seq # x.seq
      OBVIOUS
    <3>1. y.seq < x.seq /\ y.seq \in Nat /\ x.seq \in Nat
      BY <1>2, <1>3, <1>4, <1>5 DEF WaitInv, InOrder, Waiting
    <3>. QED BY <3>1
  <2>3. \A c \in {hand.cmd} : \E x \in Waiting : x.cmd = c /\ \A z \in Inboxed' : x.seq # z.seq
    BY <1>5, <2>2
  <2>4. InOrder' /\ Named' /\ Unanswered'
    BY <1>1, <1>2, <1>3, <2>1, <2>3, FailedPending DEF WaitInv
  <2>. QED BY <1>1, <2>4 DEF WaitInv
<1>. QED BY <1>6, <1>7

\* a failure outside of AppendAsync, with the inbox as it was or one control shorter
LEMMA FailWait ==
  ASSUME Typed, WaitInv, FailPending({}), lpc # "append" /\ lpc' # "append",
         \/ UNCHANGED inbox
         \/ inbox # <<>> /\ inbox' = Tail(inbox),
         status = "up", UNCHANGED <<status, nextSeq, sent>>
  PROVE  WaitInv'
<1>1. Held' = {}
  BY DEF Held
<1>2. InboxGrows' /\ Inboxed' \subseteq Inboxed
  <2>1. CASE UNCHANGED inbox
    BY <2>1 DEF WaitInv, InOrder, InboxGrows, Inboxed, IsCommand
  <2>2. CASE inbox # <<>> /\ inbox' = Tail(inbox)
    BY <2>2, InboxTail DEF WaitInv, InOrder
  <2>. QED BY <2>1, <2>2
<1>3. \A c \in {} : \E x \in Waiting : x.cmd = c /\ \A z \in Inboxed' : x.seq # z.seq
  OBVIOUS
<1>4. InOrder' /\ Named' /\ Unanswered'
  BY <1>1, <1>2, <1>3, FailedPending, Zenon DEF WaitInv
<1>. QED BY <1>4 DEF WaitInv

LEMMA AckWait ==
  ASSUME Typed, WaitInv, LReceiveAck
  PROVE  WaitInv'
<1> DEFINE p == Head(pending)
<1>1. /\ status = "up" /\ lpc \in {"select", "complete"} /\ pending # <<>>
      /\ UNCHANGED <<status, inbox, nextSeq, sent, lpc, hand>>
  BY DEF LReceiveAck, HasAck, diskVars, senderVars
<1>2. \/ pending' = Tail(pending) /\ replies' = Reply({p.cmd}, "ok")
      \/ FailPending({})
  BY Zenon DEF LReceiveAck, CompleteNext
<1>3. CASE FailPending({})
  BY <1>1, <1>3, FailWait
<1>4. CASE pending' = Tail(pending) /\ replies' = Reply({p.cmd}, "ok")
  <2> HIDE DEF p
  <2>1. /\ PendingGrows' /\ p \in Pended /\ Pended' \subseteq Pended
        /\ \A x \in Pended' : p.seq < x.seq
    BY <1>1, <1>4, PendingTail DEF WaitInv, InOrder, p
  <2>2. Held' = {} /\ Held = {}
    BY <1>1 DEF Held
  <2>3. InboxGrows' /\ Inboxed' = Inboxed
    BY <1>1, Zenon DEF WaitInv, InOrder, InboxGrows, Inboxed, IsCommand
  <2>4. InOrder' /\ Named' /\ Waiting' \subseteq Waiting
    BY <1>1, <2>1, <2>2, <2>3, FewerWait DEF WaitInv
  <2>5. p \in Waiting /\ \A x \in Waiting : x.seq \in Nat /\ x.cmd \in Cmds
    BY <2>1, WaitingTypes DEF Waiting
  <2>6. ASSUME NEW x \in Waiting' PROVE x.cmd \in Cmds \ {p.cmd}
    <3>1. p.seq < x.seq
      BY <2>1, <2>2, <2>3 DEF Waiting, WaitInv, InOrder
    <3>2. x \in Waiting /\ x.seq # p.seq
      BY <2>4, <2>5, <3>1
    <3>. QED BY <2>5, <3>2 DEF WaitInv, Named
  <2>7. p.cmd \in sent /\ replies[p.cmd] = <<>>
    BY <2>5 DEF WaitInv, Named, Unanswered
  <2>8. LoopTypeOK
    BY DEF Typed
  <2>9. Unanswered'
    BY <1>1, <1>4, <2>4, <2>6, <2>7, <2>8, AnswerOnce DEF WaitInv
  <2>. QED BY <1>1, <2>4, <2>9 DEF WaitInv
<1>. QED BY <1>2, <1>3, <1>4

LEMMA ControlWait ==
  ASSUME Typed, WaitInv, LReceiveControl \/ LFlushed \/ LFlushTimeout
  PROVE  WaitInv'
<1>1. /\ status = "up" /\ lpc # "append" /\ lpc' # "append"
      /\ UNCHANGED <<status, nextSeq, sent>>
  BY DEF LReceiveControl, LFlushed, LFlushTimeout, Answer, diskVars, senderVars
<1>2. \/ UNCHANGED inbox
      \/ inbox # <<>> /\ inbox' = Tail(inbox) /\ Head(inbox).kind # "command"
  BY Zenon DEF LReceiveControl, CanReceive, LFlushed, LFlushTimeout
<1>3. FailPending({}) \/ UNCHANGED <<pending, replies>>
  BY Zenon DEF LReceiveControl, LFlushed, LFlushTimeout
<1>4. CASE FailPending({})
  BY <1>1, <1>2, <1>4, FailWait
<1>5. CASE UNCHANGED <<pending, replies>>
  <2>1. Held = {} /\ Held' = {}
    BY <1>1 DEF Held
  <2>2. InboxGrows' /\ Inboxed' \subseteq Inboxed
    <3>1. CASE UNCHANGED inbox
      BY <3>1, Zenon DEF WaitInv, InOrder, InboxGrows, Inboxed, IsCommand
    <3>2. CASE inbox # <<>> /\ inbox' = Tail(inbox)
      BY <3>2, InboxTail DEF WaitInv, InOrder
    <3>. QED BY <1>2, <3>1, <3>2
  <2>3. PendingGrows' /\ Pended' = Pended
    BY <1>5, Zenon DEF WaitInv, InOrder, PendingGrows, Pended
  <2>4. InOrder' /\ Named' /\ Waiting' \subseteq Waiting
    BY <1>1, <2>1, <2>2, <2>3, FewerWait DEF WaitInv
  <2>. QED BY <1>1, <1>5, <2>4, NoAnswer DEF WaitInv
<1>. QED BY <1>3, <1>4, <1>5

LEMMA WaitStep == TypeInv /\ TypeInv' /\ StopInv /\ WaitInv /\ [Next]_vars => WaitInv'
<1> SUFFICES ASSUME TypeInv, TypeInv', StopInv, WaitInv, [Next]_vars PROVE WaitInv'
  OBVIOUS
<1>1. Typed /\ Typed' /\ FlagTypeOK /\ WriterFlagTypeOK
  BY DEF TypeInv, TypeOK, Typed
<1>2. CASE LReceiveCommand
  BY <1>1, <1>2, ReceiveWait
<1>3. CASE LAppend \/ LAppendFails
  BY <1>1, <1>3, AppendWait
<1>4. CASE LReceiveAck
  BY <1>1, <1>4, AckWait
<1>5. CASE LReceiveControl \/ LFlushed \/ LFlushTimeout
  BY <1>1, <1>5, ControlWait
<1>6. CASE Send \/ CloseInbox
  BY <1>1, <1>6, SendWait
<1>7. CASE LFlush \/ LCompletedAll \/ LEnd \/ LShutdown \/ LDone \/ ReleaseDrain
  <2>1. /\ status = "up" /\ lpc # "append" /\ lpc' # "append"
        /\ UNCHANGED <<status, pending, inbox, nextSeq, sent, replies>>
    BY <1>7, Zenon DEF LFlush, LCompletedAll, Answer, LEnd, LShutdown, LDone, ReleaseDrain,
                       diskVars, senderVars
  <2>2. Held' = Held
    BY <2>1 DEF Held
  <2>. QED BY <2>1, <2>2, QuietWait
<1>8. CASE Writer \/ Fault \/ CreateSnapshot
  <2>1. /\ status = "up" /\ UNCHANGED <<lpc, hand>>
        /\ UNCHANGED <<status, pending, inbox, nextSeq, sent, replies>>
    BY <1>8, Zenon DEF Writer, Fault, CreateSnapshot, diskVars, senderVars, loopVars
  <2>2. Held' = Held
    BY <2>1 DEF Held
  <2>. QED BY <2>1, <2>2, QuietWait
<1>9. CASE Crash
  <2>1. Stopped' /\ UNCHANGED <<sent, replies>>
    BY <1>9 DEF Crash, ProcessDies, MachineCrashes, MemoryLost, Stopped
  <2>. QED BY <1>1, <2>1, StoppedWait DEF WaitInv
<1>10. CASE Recover
  <2>1. status # "up" /\ UNCHANGED <<sent, replies, pending, inbox, lpc>>
    BY <1>10, Zenon DEF Recover, RecoverSnapshot, ReplayRecord, ReplayedSegment, StartEngine,
                        senderVars, loopVars
  <2>2. Stopped'
    BY <2>1 DEF WaitInv, Stopped
  <2>. QED BY <1>1, <2>1, <2>2, StoppedWait DEF WaitInv
<1>11. CASE UNCHANGED vars
  <2>1. UNCHANGED <<status, pending, inbox, nextSeq, sent, replies, lpc, hand>>
    BY <1>11 DEF vars, senderVars, loopVars, diskVars
  <2>2. Held' = Held
    BY <2>1 DEF Held
  <2>3. CASE status = "up"
    BY <2>1, <2>2, <2>3, QuietWait
  <2>4. CASE status # "up"
    <3>1. Stopped'
      BY <2>1, <2>4 DEF WaitInv, Stopped
    <3>. QED BY <1>1, <2>1, <3>1, StoppedWait DEF WaitInv
  <2>. QED BY <2>3, <2>4
<1>. QED
  BY <1>2, <1>3, <1>4, <1>5, <1>6, <1>7, <1>8, <1>9, <1>10, <1>11, Zenon DEF Next, Loop

LEMMA InitWait == Init => WaitInv
<1> SUFFICES ASSUME Init PROVE WaitInv
  OBVIOUS
<1>1. pending = <<>> /\ inbox = <<>> /\ lpc = "select" /\ replies = [c \in Cmds |-> <<>>]
      /\ status = "up"
  BY DEF Init
<1>2. Pended = {} /\ Held = {} /\ Inboxed = {} /\ PendingGrows /\ InboxGrows
  BY <1>1 DEF Pended, Held, Inboxed, PendingGrows, InboxGrows
<1>3. Waiting = {}
  BY <1>2 DEF Waiting
<1>. QED BY <1>1, <1>2, <1>3 DEF WaitInv, InOrder, Named, Unanswered, RepliedOnce

\* No command is answered twice: a client that waits on the reply channel gets one
\* outcome, and the loop, whose send would block on the second, never hangs there.
THEOREM RepliedOnceAlways == Spec => []RepliedOnce
<1>1. WaitInv => RepliedOnce
  BY DEF WaitInv, Unanswered
<1>2. TypeInv => FlagTypeOK
  BY DEF TypeInv, TypeOK
<1>. QED BY <1>1, <1>2, InitType, TypeStep, InitStop, StopStep, InitWait, WaitStep, PTL DEF Spec
=============================================================================
