-------------------------------- MODULE Shard --------------------------------
(***************************************************************************)
(* One shard of the engine: the goroutine of Loop.run                      *)
(* (internal/shard/loop.go) and its log writer, with crashes, restarts and *)
(* snapshots (internal/shard/engine.go, internal/snapshot).                *)
(*                                                                         *)
(* Book.Apply is a deterministic function of the book and the command.  A  *)
(* book is therefore represented by the commands it has executed, and the  *)
(* result of a command by the book it was executed on: results that are    *)
(* equal here are equal in the code.                                       *)
(*                                                                         *)
(* The sequencer appears as the one sender of the inbox: it numbers the    *)
(* commands, and it sends nothing while a barrier or drain is being        *)
(* served.                                                                 *)
(***************************************************************************)
EXTENDS WalWriter

CONSTANTS Symbols,      \* the symbols of the shard
          SymbolOf,     \* the symbol of each command
          InboxSize,    \* capacity of the inbox
          MaxPending,   \* maxPendingCommands
          MaxControls,  \* bound: barriers and drains
          MaxCrashes    \* bound: crashes

ASSUME ShardAssumption ==
  /\ InboxSize \in Nat \ {0}
  /\ MaxPending \in Nat \ {0}
  /\ MaxControls \in Nat
  /\ MaxCrashes \in Nat
  /\ SymbolOf \in [Cmds -> Symbols]

\* payloadSize refuses a record for the length of its symbol (or for events by the ten
\* millions, which no command of the model has)
ASSUME SymbolAssumption ==
  \A u \in Unencodable : \A c \in Cmds \ Unencodable : SymbolOf[c] # SymbolOf[u]

VARIABLES status,      \* "up"; "down", "recovering", "refused" after a crash
          nextSeq,     \* Sequencer.nextSeq
          sent,        \* the commands the sequencer has numbered
          inbox,       \* Loop.inbox
          inboxOpen,   \* FALSE once the sequencer has closed the inbox
          control,     \* the barrier or drain the sequencer waits for
          controlResult,     \* the answer to the last barrier or drain
          lpc,         \* where Loop.run is
          hand,        \* the record AppendAsync was called with
          pending,     \* the pending commands
          failed,      \* Loop.failedErr # nil
          lastApplied, \* Loop.lastAppliedSeq
          books,       \* Loop.books
          replies,     \* the outcomes sent on each command's reply channel
          snap,        \* the latest snapshot file
          controls,    \* barriers and drains so far
          crashes,     \* crashes so far
          cursor,      \* the record recoverBooks is about to read
          lost         \* history: the machine has lost records that a start had read

senderVars == <<nextSeq, sent, inboxOpen, controls>>
loopVars == <<lpc, hand, pending, failed, lastApplied, books>>
diskVars == <<status, snap, crashes, cursor, lost>>
vars == <<writerVars, senderVars, loopVars, diskVars, inbox, control, controlResult, replies>>

NoRec == [seq |-> 0, cmd |-> 0, res |-> <<>>]
NoCursor == [seg |-> 1, rec |-> 1]
EmptyBooks == [s \in Symbols |-> <<>>]
Message(k, n, c) == [kind |-> k, seq |-> n, cmd |-> c]

Init ==
  /\ WriterInit
  /\ status = "up"
  /\ nextSeq = 1
  /\ sent = {}
  /\ inbox = <<>>
  /\ inboxOpen = TRUE
  /\ control = "none"
  /\ controlResult = "none"
  /\ lpc = "select"
  /\ hand = NoRec
  /\ pending = <<>>
  /\ failed = FALSE
  /\ lastApplied = 0
  /\ books = EmptyBooks
  /\ replies = [c \in Cmds |-> <<>>]
  /\ snap = [seq |-> 0, books |-> EmptyBooks]
  /\ controls = 0
  /\ crashes = 0
  /\ cursor = NoCursor
  /\ lost = FALSE

-----------------------------------------------------------------------------
(***************************************************************************)
(* Sequencer.run, as far as one shard sees it.                             *)
(***************************************************************************)
CanSend == status = "up" /\ inboxOpen /\ control = "none" /\ Len(inbox) < InboxSize

SendCommand(c) ==
  /\ CanSend
  /\ c \notin sent
  /\ sent' = sent \cup {c}
  /\ nextSeq' = nextSeq + 1
  /\ inbox' = Append(inbox, Message("command", nextSeq, c))
  /\ UNCHANGED <<writerVars, loopVars, diskVars, inboxOpen, controls, control, controlResult,
                 replies>>

SendControl(k) ==
  /\ CanSend
  /\ controls < MaxControls
  /\ controls' = controls + 1
  /\ control' = k
  /\ controlResult' = "none"
  /\ inbox' = Append(inbox, Message(k, 0, 0))
  /\ UNCHANGED <<writerVars, loopVars, diskVars, nextSeq, sent, inboxOpen, replies>>

CloseInbox ==
  /\ status = "up"
  /\ inboxOpen
  /\ control = "none"
  /\ inboxOpen' = FALSE
  /\ UNCHANGED <<writerVars, loopVars, diskVars, nextSeq, sent, controls, inbox,
                 control, controlResult, replies>>

-----------------------------------------------------------------------------
(***************************************************************************)
(* Replies.                                                                *)
(***************************************************************************)
Reply(cs, answer) ==
  [c \in Cmds |-> IF c \in cs THEN Append(replies[c], answer) ELSE replies[c]]

\* mutants of FailPending: pending is not cleared; the pending commands get no reply
FailPendingKeeps(cs) ==
  /\ failed' = TRUE
  /\ replies' = Reply(CmdsOf(pending) \cup cs, "err")
  /\ UNCHANGED pending

FailPendingSilent(cs) ==
  /\ failed' = TRUE
  /\ replies' = Reply(cs, "err")
  /\ pending' = <<>>

\* failPending, and the reply to the command at hand if there is one
FailPending(cs) ==
  /\ failed' = TRUE
  /\ replies' = Reply(CmdsOf(pending) \cup cs, "err")
  /\ pending' = <<>>

-----------------------------------------------------------------------------
\* mutant of CanReceive: the loop takes messages however much is pending
CanReceiveAlways == inbox # <<>>

\* the inbox is not looked at while maxPendingCommands wait for their acks
CanReceive == inbox # <<>> /\ Len(pending) < MaxPending

(***************************************************************************)
(* enqueueCommand.  The command is applied to its book first; AppendAsync  *)
(* then looks at the writer's terminal error, and sends its request later. *)
(***************************************************************************)
LReceiveCommand ==
  /\ status = "up"
  /\ lpc = "select"
  /\ CanReceive
  /\ Head(inbox).kind = "command"
  /\ inbox' = Tail(inbox)
  /\ LET m == Head(inbox)
         b == SymbolOf[m.cmd]
         rec == [seq |-> m.seq, cmd |-> m.cmd, res |-> books[b]]
     IN  \/ /\ failed
            /\ replies' = Reply({m.cmd}, "err")
            /\ UNCHANGED loopVars
         \/ /\ ~failed
            /\ books' = [books EXCEPT ![b] = Append(@, m.cmd)]
            /\ \/ /\ walFailed
                  /\ FailPending({m.cmd})
                  /\ UNCHANGED <<lpc, hand, lastApplied>>
               \/ /\ ~walFailed
                  /\ lpc' = "append"
                  /\ hand' = rec
                  /\ UNCHANGED <<pending, failed, lastApplied, replies>>
  /\ UNCHANGED <<writerVars, senderVars, diskVars, control, controlResult>>

\* the select of AppendAsync: the request is sent whenever the channel has room,
\* a writer that has returned or not
LAppend ==
  /\ status = "up"
  /\ lpc = "append"
  /\ Len(requests) < QueueSize
  /\ requests' = Append(requests, [kind |-> "append", rec |-> hand])
  /\ pending' = Append(pending, [seq |-> hand.seq, cmd |-> hand.cmd])
  /\ lpc' = "select"
  /\ hand' = NoRec
  /\ UNCHANGED <<segs, wpc, batch, timerArmed, after, walFailed, acks, flushDone,
                 shutdownDone, senderVars, diskVars, failed, lastApplied, books, inbox,
                 control, controlResult, replies>>

\* its other cases: the writer has returned, or the channel stayed full for the
\* 30 seconds of the context
LAppendFails ==
  /\ status = "up"
  /\ lpc = "append"
  /\ wpc = "exited" \/ Len(requests) = QueueSize
  /\ FailPending({hand.cmd})
  /\ lpc' = "select"
  /\ hand' = NoRec
  /\ UNCHANGED <<writerVars, senderVars, diskVars, lastApplied, books, inbox, control,
                 controlResult>>

(***************************************************************************)
(* completeNext                                                            *)
(***************************************************************************)
HasAck == pending # <<>> /\ acks[Head(pending).cmd] # "none"

\* mutant of CompleteNext: an error fails one command and not those behind it
CompleteNextGoesOn ==
  LET p == Head(pending)
  IN  /\ pending' = Tail(pending)
      /\ lastApplied' = p.seq
      /\ replies' = Reply({p.cmd}, acks[p.cmd])
      /\ failed' = (failed \/ acks[p.cmd] = "err")

CompleteNext ==
  LET p == Head(pending)
  IN  \/ /\ acks[p.cmd] = "ok"
         /\ pending' = Tail(pending)
         /\ lastApplied' = p.seq
         /\ replies' = Reply({p.cmd}, "ok")
         /\ UNCHANGED failed
      \/ /\ acks[p.cmd] = "err"
         /\ FailPending({})
         /\ UNCHANGED lastApplied

LReceiveAck ==
  /\ status = "up"
  /\ lpc \in {"select", "complete"}
  /\ HasAck
  /\ CompleteNext
  /\ UNCHANGED <<writerVars, senderVars, diskVars, inbox, control, controlResult, lpc, hand,
                 books>>

-----------------------------------------------------------------------------
(***************************************************************************)
(* flushPending, for a barrier and for a drain.                            *)
(***************************************************************************)
\* BarrierDone or DrainAck gets the answer; after a drain the loop waits
Answer(v) ==
  /\ controlResult' = v
  /\ lpc' = IF control = "drain" THEN "drained" ELSE "select"
  /\ control' = IF control = "drain" THEN control ELSE "none"

LReceiveControl ==
  /\ status = "up"
  /\ lpc = "select"
  /\ CanReceive
  /\ Head(inbox).kind # "command"
  /\ inbox' = Tail(inbox)
  /\ \/ /\ failed \/ walFailed
        /\ FailPending({})
        /\ Answer("err")
     \/ /\ ~failed /\ ~walFailed
        /\ lpc' = "flush"
        /\ UNCHANGED <<failed, replies, pending, controlResult, control>>
  /\ UNCHANGED <<writerVars, senderVars, diskVars, hand, lastApplied, books>>

LFlush ==
  /\ status = "up"
  /\ lpc = "flush"
  /\ Len(requests) < QueueSize
  /\ requests' = Append(requests, [kind |-> "flush"])
  /\ flushDone' = FALSE
  /\ lpc' = "flushing"
  /\ UNCHANGED <<segs, wpc, batch, timerArmed, after, walFailed, acks, shutdownDone,
                 senderVars, diskVars, hand, pending, failed, lastApplied, books, inbox,
                 control, controlResult, replies>>

\* mutant of LFlushed: the answer does not wait for completeAll
LFlushedAnswers ==
  /\ status = "up"
  /\ lpc = "flushing"
  /\ flushDone
  /\ Answer(IF walFailed THEN "err" ELSE "ok")
  /\ UNCHANGED <<writerVars, senderVars, diskVars, hand, pending, failed, lastApplied,
                 books, inbox, replies>>

LFlushed ==
  /\ status = "up"
  /\ lpc = "flushing"
  /\ flushDone
  /\ \/ /\ walFailed
        /\ FailPending({})
        /\ Answer("err")
     \/ /\ ~walFailed
        /\ lpc' = "complete"
        /\ UNCHANGED <<failed, replies, pending, controlResult, control>>
  /\ UNCHANGED <<writerVars, senderVars, diskVars, hand, lastApplied, books, inbox>>

\* the context of Flush expires while it waits for room or for its answer
LFlushTimeout ==
  /\ status = "up"
  /\ \/ lpc = "flush" /\ Len(requests) = QueueSize
     \/ lpc = "flushing" /\ ~flushDone
  /\ FailPending({})
  /\ Answer("err")
  /\ UNCHANGED <<writerVars, senderVars, diskVars, hand, lastApplied, books, inbox>>

\* completeAll has emptied pending
LCompletedAll ==
  /\ status = "up"
  /\ lpc = "complete"
  /\ pending = <<>>
  /\ Answer(IF failed THEN "err" ELSE "ok")
  /\ UNCHANGED <<writerVars, senderVars, diskVars, hand, pending, failed, lastApplied,
                 books, inbox, replies>>

(***************************************************************************)
(* CreateSnapshot reads the books and the watermark of a drained shard and *)
(* saves them.  It releases the drain afterwards, or earlier when the      *)
(* caller's context has expired or the save has failed.                    *)
(***************************************************************************)
\* mutant of CreateSnapshot: the answer to the drain is not looked at
CreateSnapshotAnyway ==
  /\ status = "up"
  /\ lpc = "drained"
  /\ snap' = [seq |-> lastApplied, books |-> books]
  /\ UNCHANGED <<writerVars, senderVars, loopVars, status, crashes, cursor, lost, inbox, control,
                 controlResult, replies>>

CreateSnapshot ==
  /\ status = "up"
  /\ lpc = "drained"
  /\ controlResult = "ok"
  /\ snap' = [seq |-> lastApplied, books |-> books]
  /\ UNCHANGED <<writerVars, senderVars, loopVars, status, crashes, cursor, lost, inbox, control,
                 controlResult, replies>>

ReleaseDrain ==
  /\ status = "up"
  /\ lpc = "drained"
  /\ lpc' = "select"
  /\ control' = "none"
  /\ UNCHANGED <<writerVars, senderVars, diskVars, inbox, controlResult, replies, hand,
                 pending, failed, lastApplied, books>>

-----------------------------------------------------------------------------
(***************************************************************************)
(* The end of run: wal.Shutdown with a context of 5 seconds.               *)
(***************************************************************************)
LEnd ==
  /\ status = "up"
  /\ lpc = "select"
  /\ ~inboxOpen
  /\ inbox = <<>>
  /\ pending = <<>>
  /\ lpc' = "shutdown"
  /\ UNCHANGED <<writerVars, senderVars, diskVars, hand, pending, failed, lastApplied,
                 books, inbox, control, controlResult, replies>>

LShutdown ==
  /\ status = "up"
  /\ lpc = "shutdown"
  /\ Len(requests) < QueueSize
  /\ requests' = Append(requests, [kind |-> "shutdown"])
  /\ lpc' = "closing"
  /\ UNCHANGED <<segs, wpc, batch, timerArmed, after, walFailed, acks, flushDone,
                 shutdownDone, senderVars, diskVars, hand, pending, failed, lastApplied,
                 books, inbox, control, controlResult, replies>>

LDone ==
  /\ status = "up"
  /\ \/ /\ lpc = "shutdown" /\ wpc = "exited"
        /\ failed' = (failed \/ walFailed)
     \/ /\ lpc = "closing" /\ shutdownDone
        /\ failed' = (failed \/ walFailed)
     \/ /\ lpc = "shutdown" /\ Len(requests) = QueueSize
        /\ failed' = TRUE
     \/ /\ lpc = "closing" /\ ~shutdownDone
        /\ failed' = TRUE
  /\ lpc' = "done"
  /\ UNCHANGED <<writerVars, senderVars, diskVars, hand, pending, lastApplied, books,
                 inbox, control, controlResult, replies>>

-----------------------------------------------------------------------------
(***************************************************************************)
(* The end of the process, or of the machine, loses everything but the     *)
(* files; recoverBooks rebuilds the rest from the snapshot and the records *)
(* after it, and refuses to start when the log cannot be read or a result  *)
(* differs from the stored one.  The code reads every file before it       *)
(* replays the first record; here a file is read when its turn comes, and  *)
(* a refusal comes to the same.                                            *)
(***************************************************************************)
MemoryLost ==
  /\ status \in {"up", "recovering"}
  /\ crashes < MaxCrashes
  /\ crashes' = crashes + 1
  /\ status' = "down"
  /\ WriterStarted
  /\ nextSeq' = 1
  /\ inbox' = <<>>
  /\ inboxOpen' = TRUE
  /\ control' = "none"
  /\ controlResult' = "none"
  /\ lpc' = "select"
  /\ hand' = NoRec
  /\ pending' = <<>>
  /\ failed' = FALSE
  /\ lastApplied' = 0
  /\ books' = EmptyBooks
  /\ cursor' = NoCursor
  /\ UNCHANGED <<sent, controls, replies, snap>>

ProcessDies == MemoryLost /\ UNCHANGED <<segs, lost>>

\* the segments that the engine at work has replayed
Inherited == 1..(cursor.seg - 1)

\* A crash of the machine during recovery needs no step: recovery has written nothing
\* yet, so it leaves what a crash in place of the end of the process before it leaves.
MachineCrashes ==
  /\ status = "up"
  /\ MemoryLost
  /\ FilesAfterCrash
  /\ lost' = (lost \/ \E i \in Inherited \cap DOMAIN segs' :
                        Len(segs'[i].recs) < Len(RecordsOf(segs[i])))

Crash == ProcessDies \/ MachineCrashes

\* mutants of RecoverSnapshot: the watermark without the books; the books without
\* the watermark
RecoverSnapshotEmpty ==
  /\ status = "down"
  /\ status' = "recovering"
  /\ books' = EmptyBooks
  /\ lastApplied' = snap.seq
  /\ cursor' = NoCursor
  /\ UNCHANGED <<writerVars, senderVars, lpc, hand, pending, failed, inbox, control,
                 controlResult, replies, snap, crashes, lost>>

RecoverSnapshotFromZero ==
  /\ status = "down"
  /\ status' = "recovering"
  /\ books' = snap.books
  /\ lastApplied' = 0
  /\ cursor' = NoCursor
  /\ UNCHANGED <<writerVars, senderVars, lpc, hand, pending, failed, inbox, control,
                 controlResult, replies, snap, crashes, lost>>

\* recoverBooks starts from the latest snapshot, or from empty books
RecoverSnapshot ==
  /\ status = "down"
  /\ status' = "recovering"
  /\ books' = snap.books
  /\ lastApplied' = snap.seq
  /\ cursor' = NoCursor
  /\ UNCHANGED <<writerVars, senderVars, lpc, hand, pending, failed, inbox, control,
                 controlResult, replies, snap, crashes, lost>>

AtRecord == cursor.seg <= Len(segs) /\ cursor.rec <= Len(RecordsOf(segs[cursor.seg]))

\* One record.  A record at or below the watermark is skipped; the watermark moves
\* with each record, so the later test for a non-monotonic sequence never fails.
ReplayRecord ==
  /\ status = "recovering"
  /\ AtRecord
  /\ LET r == RecordsOf(segs[cursor.seg])[cursor.rec]
         b == SymbolOf[r.cmd]
     IN  \/ /\ r.seq <= lastApplied
            /\ UNCHANGED <<status, books, lastApplied>>
         \/ /\ r.seq > lastApplied
            /\ books' = [books EXCEPT ![b] = Append(@, r.cmd)]
            /\ lastApplied' = IF books[b] = r.res THEN r.seq ELSE lastApplied
            /\ status' = IF books[b] = r.res THEN status ELSE "refused"
  /\ cursor' = [cursor EXCEPT !.rec = @ + 1]
  /\ UNCHANGED <<writerVars, senderVars, lpc, hand, pending, failed, inbox, control,
                 controlResult, replies, snap, crashes, lost>>

\* The end of a file.  Only the last one may end early.
ReplayedSegment ==
  /\ status = "recovering"
  /\ cursor.seg <= Len(segs)
  /\ ~AtRecord
  /\ status' = IF segs[cursor.seg].torn /\ cursor.seg < Len(segs) THEN "refused"
               ELSE status
  /\ cursor' = [seg |-> cursor.seg + 1, rec |-> 1]
  /\ UNCHANGED <<writerVars, senderVars, loopVars, inbox, control, controlResult, replies,
                 snap, crashes, lost>>

\* mutant of StartEngine: the numbers start over
StartEngineFromOne ==
  /\ status = "recovering"
  /\ cursor.seg > Len(segs)
  /\ status' = "up"
  /\ nextSeq' = 1
  /\ UNCHANGED <<writerVars, loopVars, sent, inboxOpen, controls, inbox, control,
                 controlResult, replies, snap, crashes, cursor, lost>>

\* NewEngine starts the loop and the writer and numbers on
StartEngine ==
  /\ status = "recovering"
  /\ cursor.seg > Len(segs)
  /\ status' = "up"
  /\ nextSeq' = lastApplied + 1
  /\ UNCHANGED <<writerVars, loopVars, sent, inboxOpen, controls, inbox, control,
                 controlResult, replies, snap, crashes, cursor, lost>>

Recover == RecoverSnapshot \/ ReplayRecord \/ ReplayedSegment \/ StartEngine

-----------------------------------------------------------------------------
Send == (\E c \in Cmds : SendCommand(c)) \/ (\E k \in {"barrier", "drain"} : SendControl(k))

Writer == status = "up" /\ WriterStep /\ UNCHANGED <<senderVars, loopVars, diskVars,
                                                     inbox, control, controlResult, replies>>
Fault == status = "up" /\ WriterFault /\ UNCHANGED <<senderVars, loopVars, diskVars,
                                                     inbox, control, controlResult, replies>>

Loop ==
  \/ LReceiveCommand \/ LAppend \/ LAppendFails \/ LReceiveAck
  \/ LReceiveControl \/ LFlush \/ LFlushed \/ LFlushTimeout \/ LCompletedAll
  \/ LEnd \/ LShutdown \/ LDone

Next ==
  \/ Send \/ CloseInbox
  \/ Loop
  \/ Writer \/ Fault
  \/ CreateSnapshot \/ ReleaseDrain
  \/ Crash \/ Recover

Spec == Init /\ [][Next]_vars

\* Both goroutines keep running, the timer and the contexts expire, and whoever
\* holds a drain releases it.  Nothing obliges a client to send, a disk to fail
\* or a process to crash.
Fairness == WF_vars(Loop) /\ WF_vars(Writer) /\ WF_vars(ReleaseDrain)

FairSpec == Spec /\ Fairness

-----------------------------------------------------------------------------
(***************************************************************************)
(* Properties.                                                             *)
(***************************************************************************)
LoopTypeOK ==
  /\ lpc \in {"select", "append", "flush", "flushing", "complete", "drained",
              "shutdown", "closing", "done"}
  /\ hand \in Record \cup {NoRec}
  /\ pending \in Seq([seq : Nat, cmd : Cmds]) /\ Len(pending) <= MaxPending
  /\ lastApplied \in Nat
  /\ books \in [Symbols -> Seq(Cmds)]
  /\ replies \in [Cmds -> Seq({"ok", "err"})]

Messages == [kind : {"command"}, seq : Nat, cmd : Cmds]
            \cup [kind : {"barrier", "drain"}, seq : {0}, cmd : {0}]

SenderTypeOK ==
  /\ nextSeq \in Nat
  /\ sent \subseteq Cmds
  /\ inbox \in Seq(Messages) /\ Len(inbox) <= InboxSize
  /\ control \in {"none", "barrier", "drain"}
  /\ controlResult \in {"none", "ok", "err"}
  /\ controls \in 0..MaxControls

DiskTypeOK ==
  /\ status \in {"up", "down", "recovering", "refused"}
  /\ snap \in [seq : Nat, books : [Symbols -> Seq(Cmds)]]
  /\ crashes \in 0..MaxCrashes
  /\ cursor \in [seg : Nat \ {0}, rec : Nat \ {0}]

FlagTypeOK == failed \in BOOLEAN /\ inboxOpen \in BOOLEAN /\ lost \in BOOLEAN

\* The variables have the types of the Go fields, and the channels and the pending
\* commands stay within their capacity.
TypeOK ==
  /\ WriterTypeOK /\ WriterFlagTypeOK
  /\ LoopTypeOK /\ SenderTypeOK /\ DiskTypeOK /\ FlagTypeOK

\* the commands whose record has reached the disk
Durable == UNION {CmdsOf(segs[i].recs) : i \in DOMAIN segs}

Acknowledged == {c \in Cmds : \E i \in DOMAIN replies[c] : replies[c][i] = "ok"}

\* A command is acknowledged to its client only once its record has been synced,
\* and no crash afterwards takes the record away (DESIGN.md, "All acknowledgements
\* in that batch are released after a successful file fsync").
AckedDurable == Acknowledged \subseteq Durable

\* A reply channel has room for one outcome and one reader: a second send, by
\* failPending of a command that has its answer, would block the loop for good.
RepliedOnce == \A c \in Cmds : Len(replies[c]) <= 1

\* the commands of the records on symbol s, in their order
CmdsOn(recs, s) ==
  Flatten([i \in 1..Len(recs) |->
             IF SymbolOf[recs[i].cmd] = s THEN <<recs[i].cmd>> ELSE <<>>])

\* the records with a sequence number up to n
UpTo(recs, n) ==
  Flatten([i \in 1..Len(recs) |-> IF recs[i].seq <= n THEN <<recs[i]>> ELSE <<>>])

\* the log that the engine at work goes on from: what it has replayed, synced or not,
\* and what its own writer has synced
Settled ==
  Flatten([i \in 1..Len(segs) |->
             IF status = "up" /\ i \notin Inherited THEN segs[i].recs ELSE RecordsOf(segs[i])])

\* Whatever prefix of the log a crash leaves, it replays: sequence numbers grow
\* from record to record, also over restarts that reuse the numbers of lost
\* commands, and each stored result is the one of the book that the records
\* before it build, although the loop applied it long before it was written.
\* The exception is a machine that loses records which a start had read from the
\* page cache: the records written since were computed with them.
LogReplays ==
  LET log == readShardRecords(segs)
  IN  ~lost => \A i \in DOMAIN log :
        /\ \A j \in 1..(i - 1) : log[j].seq < log[i].seq
        /\ log[i].res = CmdsOn(SubSeq(log, 1, i - 1), SymbolOf[log[i].cmd])

\* A snapshot is what the settled records up to its watermark build: it has no
\* command whose record this process has yet to sync, and lacks none that replay
\* will skip (DESIGN.md, "do not publish state derived from an unconfirmed WAL
\* sequence").  What an earlier process wrote and never synced counts as settled
\* once a start has read it; the exception is a machine that loses such records.
SnapshotExact ==
  ~lost => \A s \in Symbols : snap.books[s] = CmdsOn(UpTo(Settled, snap.seq), s)

\* A running shard has executed every acknowledged command, before and after a
\* restart.
AckedExecuted ==
  status = "up" => \A c \in Acknowledged : \E i \in DOMAIN books[SymbolOf[c]] : books[SymbolOf[c]][i] = c

\* Recovery refuses to start for two reasons only: a segment that is not the last one
\* ends in the middle of a record or header; or the machine has lost records that a
\* process left unsynced and the next one replayed and went on from (recoverBooks
\* syncs no file it reads), which shows as a result that differs.
RefusedOnlyIfTornOrLost ==
  status = "refused" => lost \/ \E i \in 1..(Len(segs) - 1) : segs[i].torn

\* A crash leaves a log that the engine can start from (CRASH_MATRIX.md, "Valid
\* preceding records are returned; the incomplete tail is ignored").
AlwaysRecovers == status # "refused"

\* A failed loop stays failed: until the process is gone it acknowledges nothing,
\* executes nothing and gives nothing to a snapshot (DESIGN.md, "A WAL append or
\* flush error places the shard in a terminal fail-stop state").
FailStop ==
  [][failed /\ status' = "up" =>
       failed' /\ Acknowledged' = Acknowledged /\ UNCHANGED <<books, lastApplied, snap>>]_vars

\* Every command that reaches the shard is answered, with its result or with the
\* failure (DESIGN.md, "Pending and subsequent commands receive the same failure").
EveryCommandAnswered ==
  \A c \in Cmds : c \in sent ~> (replies[c] # <<>> \/ status # "up")

\* c's request reached the channel after a writer that could not open its first segment
\* had emptied it and returned: nobody reads the channel, and nothing else is pending
\* whose ack would come, or in the inbox, that would make the loop look at the failure
Stranded(c) ==
  /\ walFailed /\ after = "open" /\ wpc = "exited"
  /\ lpc = "select" /\ inbox = <<>>
  /\ CmdsOf(pending) = {c}

\* In the end every command that has reached the shard is answered, whatever fails and
\* whenever; the one exception is the lone command of a Stranded loop, and any later
\* message ends that.
AnsweredUnlessStranded ==
  \A c \in Cmds : <>[](c \in sent => replies[c] # <<>> \/ Stranded(c) \/ status # "up")

\* After the sequencer has closed the inbox the loop ends, unless it is Stranded.
ShutdownEnds ==
  <>[](~inboxOpen => lpc = "done" \/ (\E c \in Cmds : Stranded(c)) \/ status # "up")
=============================================================================
