------------------------------- MODULE Engine --------------------------------
(***************************************************************************)
(* The engine (internal/shard/engine.go): its methods on top of the        *)
(* sequencer, snapshots of all shards, crashes, and the start from the     *)
(* latest snapshot and the logs.                                           *)
(***************************************************************************)
EXTENDS Sequencer, FiniteSetsExt

CONSTANTS Unopened,   \* the shards whose writer may fail to open its first segment
          MaxCrashes  \* bound: crashes

ASSUME EngineAssumption == Unopened \subseteq MayFail /\ MaxCrashes \in Nat

VARIABLES snap,     \* the latest snapshot file
          draft,    \* the books and watermarks each CreateSnapshot has read so far
          refused,  \* NewEngine has returned an error
          crashes   \* crashes so far

engineVars == <<snap, draft, refused, crashes>>
vars == <<loopVars, seqVars, engineVars>>

NoBooks == [s \in Shards |-> [seq |-> 0, cmds |-> {}]]

Init ==
  /\ SequencerInit
  /\ snap = NoBooks
  /\ draft = [c \in Snapshots |-> <<>>]
  /\ refused = FALSE
  /\ crashes = 0

-----------------------------------------------------------------------------
(***************************************************************************)
(* CreateSnapshot, once AcquireDrain has returned: it reads one loop after *)
(* the other, saves, and releases the drain on its way out.                *)
(***************************************************************************)
ReadLoop(c) ==
  /\ up
  /\ pc[c] = "hold"
  /\ Len(draft[c]) < ShardCount
  /\ LET s == Len(draft[c]) + 1
     IN  draft' = [draft EXCEPT ![c] =
                     Append(@, [seq |-> lastApplied[s], cmds |-> executed[s]])]
  /\ UNCHANGED <<loopVars, seqVars, snap, refused, crashes>>

\* SaveAtomically, whose steps are in SnapshotFile; the file of one that fails may
\* have its name already
Save(c) ==
  /\ up
  /\ pc[c] = "hold"
  /\ Len(draft[c]) = ShardCount
  /\ \/ snap' = draft[c] /\ Goes(c, "saved")
     \/ snap' \in {snap, draft[c]} /\ Goes(c, "unsaved")
  /\ UNCHANGED <<loopVars, queue, lockVars, runVars, result, release, entered, draft, refused,
                 crashes>>

ReleaseDrain(c) ==
  /\ up
  /\ pc[c] \in {"saved", "unsaved"}
  /\ release' = release \cup {c}
  /\ Returns(c, IF pc[c] = "saved" THEN "ok" ELSE "err")
  /\ UNCHANGED <<loopVars, queue, lockVars, runVars, result, entered, engineVars>>

\* mutant of LoopsDone: the failures of the loops are not looked at
LoopsDoneSilent(c) ==
  /\ up
  /\ pc[c] = "loops"
  /\ \A s \in Shards : lpc[s] = "done"
  /\ Returns(c, "ok")
  /\ UNCHANGED <<loopVars, queue, lockVars, runVars, result, release, entered, engineVars>>

\* the rest of Shutdown: every loop has ended, and the first failure is returned
LoopsDone(c) ==
  /\ up
  /\ pc[c] = "loops"
  /\ \A s \in Shards : lpc[s] = "done"
  /\ Returns(c, IF \E s \in Shards : failed[s] THEN "err" ELSE "ok")
  /\ UNCHANGED <<loopVars, queue, lockVars, runVars, result, release, entered, engineVars>>

-----------------------------------------------------------------------------
(***************************************************************************)
(* A crash loses all but the files; the calls in progress are gone.        *)
(***************************************************************************)
Crash ==
  /\ up
  /\ crashes < MaxCrashes
  /\ crashes' = crashes + 1
  /\ LoopsCrash
  /\ SequencerReset
  /\ draft' = [c \in Snapshots |-> <<>>]
  /\ UNCHANGED <<snap, refused>>

\* the places in a log of the records that recoverBooks replays
Replayed(s) == {i \in DOMAIN log[s] : log[s][i].seq > snap[s].seq}

\* mutant of Recovered: the books of the snapshot are not used
RecoveredTail(s) == {log[s][i].cmd : i \in Replayed(s)}

\* what the books of the shard have executed after recoverBooks, and its watermark
Recovered(s) == snap[s].cmds \cup {log[s][i].cmd : i \in Replayed(s)}

Watermark(s) == IF Replayed(s) = {} THEN snap[s].seq ELSE log[s][Max(Replayed(s))].seq

\* mutant of nextSequence: the watermark of the last shard decides
nextSequenceOfLast(w) == (w[ShardCount] + 1) % (MaxNumber + 1)

nextSequence(w) == (Max({w[s] : s \in Shards}) + 1) % (MaxNumber + 1)

\* NewEngine: recoverBooks, then a sequencer that numbers on from the largest
\* watermark, unless that was the last number
NewEngine ==
  /\ ~up
  /\ ~refused
  /\ LET w == [s \in Shards |-> Watermark(s)]
     IN  \/ /\ nextSequence(w) = 0
            /\ refused' = TRUE
            /\ UNCHANGED <<up, executed, lastApplied, seqVars>>
         \/ /\ nextSequence(w) # 0
            /\ up' = TRUE
            /\ executed' = [s \in Shards |-> Recovered(s)]
            /\ lastApplied' = w
            /\ nextSeq' = nextSequence(w)
            /\ UNCHANGED <<refused, queue, lockVars, callVars, spc, req, number, at, firstErr,
                           drainWait>>
  /\ UNCHANGED <<inbox, inboxOpen, lpc, pending, logVars, failed, answer, outcome, snap,
                 draft, crashes>>

-----------------------------------------------------------------------------
\* the steps of a call on the sequencer's methods
Call(c) ==
  /\ \/ c \in Submits \cup Callers /\ Enter(c)
     \/ Send(c) \/ SendExpires(c) \/ WaitExpires(c)
     \/ c \in Tries /\ SubmitNonBlocking(c)
     \/ c \in Cmds /\ GetOutcome(c)
     \/ c \in Barriers /\ GetResult(c)
     \/ c \in Snapshots /\ AcquireDrain(c)
     \/ c \in Shutdowns /\ (Lock(c) \/ markClosed(c) \/ ShutdownSequencer(c))
  /\ UNCHANGED engineVars

CreateSnapshot(c) == ReadLoop(c) \/ Save(c) \/ ReleaseDrain(c)

Next ==
  \/ \E c \in Calls : Call(c)
  \/ \E c \in Snapshots : CreateSnapshot(c)
  \/ \E c \in Shutdowns : LoopsDone(c)
  \/ Run /\ UNCHANGED engineVars
  \/ \E s \in Shards : (LoopTurn(s) \/ WriterSyncs(s) \/ ShardFault(s)) /\ UNCHANGED engineVars
  \/ Crash
  \/ NewEngine

Spec == Init /\ [][Next]_vars

\* a pending command whose record the writer has given up: its ack is negative
AckIsNegative(s) ==
  pending[s] # <<>> /\ Head(pending[s]).cmd \notin Logged(s) \cup CmdsOf(unsynced[s])

\* Every goroutine keeps running and contexts with a deadline expire.  A writer answers
\* the command that its loop waits for, except that one which cannot open its first
\* segment may leave the only pending command without an answer (Stranded, in Shard).
\* Nothing obliges a client to call, a log to fail or the process to crash.
Fairness ==
  /\ WF_vars(Run /\ UNCHANGED engineVars)
  /\ \A s \in Shards :
       /\ WF_vars(LoopTurn(s) /\ UNCHANGED engineVars)
       /\ WF_vars(AckIsNegative(s) /\ LFail(s) /\ UNCHANGED <<seqVars, engineVars>>)
  /\ \A s \in Shards \ Unopened : WF_vars(pending[s] # <<>> /\ WriterSyncs(s) /\ UNCHANGED engineVars)
  /\ \A s \in Unopened : WF_vars(Len(pending[s]) > 1 /\ LFail(s) /\ UNCHANGED <<seqVars, engineVars>>)
  /\ \A c \in Calls : WF_vars(pc[c] # "idle" /\ Call(c))
  /\ \A c \in Snapshots : WF_vars(CreateSnapshot(c))
  /\ \A c \in Shutdowns : WF_vars(LoopsDone(c))

FairSpec == Spec /\ Fairness

-----------------------------------------------------------------------------
(***************************************************************************)
(* Properties.                                                             *)
(***************************************************************************)
\* Nothing is left behind by a shutdown: a call holds the lock from its test of
\* closed until its request is queued, so no request comes after the one of
\* Shutdown, and once the loops have ended every accepted command has its outcome.
NothingLeftBehind ==
  /\ spc = "ended" => queue = <<>>
  /\ (\A s \in Shards : lpc[s] = "done") =>
       \A c \in Range(entered) \cap Cmds : outcome[c] # "none"

\* the places in the queue of the commands that this process has numbered
Numbered ==
  {k \in 1..(Len(entered) - Len(queue)) :
     entered[k] \in {c \in Cmds : ShardFor[c] # 0 /\ outcome[c] # "exhausted"}}

CurrentRecords ==
  {r \in UNION {Range(pending[s]) \cup Range(unsynced[s]) \cup Range(log[s]) : s \in Shards} :
     r.cmd \in Range(entered)}

\* Across all shards, commands are numbered without gaps in the order in which they
\* entered the queue, up to the last number, and a command with an unknown symbol
\* takes no number (DESIGN.md, "an unknown symbol does not consume sequence space").
\* No number is in the logs twice, not even on two shards, although the numbers of
\* commands that a crash lost are given again; and the numbers of a log grow.
NumbersFollowQueue ==
  /\ \A r \in CurrentRecords, i \in DOMAIN entered :
       r.cmd = entered[i] =>
         (IF nextSeq = 0 THEN MaxNumber + 1 ELSE nextSeq)
           = r.seq + Cardinality({k \in Numbered : k >= i})
  /\ \A s, t \in Shards : \A i \in DOMAIN log[s], j \in DOMAIN log[t] :
       /\ log[s][i].seq = log[t][j].seq => s = t /\ i = j
       /\ s = t /\ i < j => log[s][i].seq < log[s][j].seq

\* When a barrier or drain succeeds, every command that entered the queue before it
\* has been answered, on every shard and without a failure: the first error of any
\* shard reaches the caller.
BarrierCovers ==
  \A i, j \in DOMAIN entered :
    i < j /\ entered[i] \in Cmds /\ entered[j] \in Callers /\ result[entered[j]] = "ok" =>
      outcome[entered[i]] \notin {"none", "err"}

\* A snapshot is a cut through all shards at one number: it holds the logged commands
\* up to its largest watermark and nothing behind it (DESIGN.md, "Acquire a global
\* drain that flushes and pauses all shards").
SnapshotIsCut ==
  LET top == Max({snap[s].seq : s \in Shards})
  IN  \A s \in Shards :
        snap[s].cmds = {log[s][i].cmd : i \in {k \in DOMAIN log[s] : log[s][k].seq <= top}}

\* A Shutdown that returns nil leaves every accepted command executed, durable and
\* answered, with no record on its way.
ShutdownComplete ==
  \A c \in Shutdowns : pc[c] = "returned" /\ ret[c] = "ok" =>
    \A s \in Shards :
      /\ unsynced[s] = <<>>
      /\ \A d \in Range(entered) \cap Cmds :
           ShardFor[d] = s => outcome[d] = "exhausted" \/ (outcome[d] = "ok" /\ d \in Logged(s))

\* The engine uses its loops as Loops assumes and starts them as it promises: numbers
\* of a shard grow, nothing follows an unanswered barrier or drain, and a start from
\* snapshot and tail has executed the whole log.
UsesLoops == LoopsSpec

\* the request of the Shutdown that closed the sequencer will never be queued
ShutdownLost ==
  closed /\ \A c \in Shutdowns : pc[c] # "send" /\ c \notin Range(entered)

\* a call without a deadline that waits for the one pending command of a shard whose
\* writer could not open its first segment: as its client, or as a Shutdown that waits
\* for the loop
Unheard(c) ==
  /\ c \notin Deadline
  /\ \E s \in Unopened :
       /\ lpc[s] = "select" /\ inbox[s] = <<>> /\ Len(pending[s]) = 1
       /\ pc[c] = "loops" \/ (pc[c] = "wait" /\ c \in CmdsOf(pending[s]))

\* In the end every call has returned, with or without a deadline, whatever the shards
\* and the other callers do.  There are two exceptions.  A Shutdown after one whose
\* context expired before its request found room waits for an end that nobody has asked
\* for; and behind a writer that never answers a call without a deadline waits for ever.
EveryCallReturns ==
  \A c \in Calls :
    <>[](\/ pc[c] \in {"idle", "returned", "gone"}
         \/ pc[c] = "again" /\ ShutdownLost
         \/ Unheard(c))
=============================================================================
