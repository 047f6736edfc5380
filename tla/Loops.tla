-------------------------------- MODULE Loops --------------------------------
(***************************************************************************)
(* What the shard loops (internal/shard/loop.go) and their log writers     *)
(* promise the sequencer and the clients, for all shards of an engine.     *)
(* Module Shard, with its writer, batches and segments, implements this    *)
(* for one shard (ShardRefines); Sequencer and Engine build on it.         *)
(*                                                                         *)
(* A loop executes a command when it takes it from the inbox.  The record  *)
(* is then on its way to the disk (unsynced), durable (log) or given up.   *)
(* Commands that wait for their answer are pending, in the same order.     *)
(***************************************************************************)
EXTENDS Integers, Sequences, FiniteSets, Functions

CONSTANTS Shards,     \* 1..ShardCount
          Cmds,       \* the commands, each submitted once
          Callers,    \* whoever asks for a barrier or drain
          MayFail,    \* the shards whose log may fail
          InboxSize,  \* capacity of an inbox
          MaxNumber   \* the largest sequence number, 2^64 - 1

ASSUME LoopsAssumption ==
  /\ MayFail \subseteq Shards
  /\ InboxSize \in Nat \ {0}
  /\ MaxNumber \in Nat \ {0}

VARIABLES up,          \* the process runs
          inbox,       \* Loop.inbox
          inboxOpen,   \* FALSE once the inbox is closed
          lpc,         \* where Loop.run is
          pending,     \* the pending commands
          unsynced,    \* the records between AppendAsync and the disk
          log,         \* the records on disk
          failed,      \* Loop.failedErr # nil
          executed,    \* the commands that Loop.books have executed
          lastApplied, \* Loop.lastAppliedSeq
          answer,      \* BarrierDone or DrainAck of the shard's last control message
          outcome      \* the outcome in each command's reply channel

logVars == <<unsynced, log>>
bookVars == <<failed, executed, lastApplied>>
loopVars == <<up, inbox, inboxOpen, lpc, pending, logVars, bookVars, answer, outcome>>

Controls == {"barrier", "drain"}
Message(k, n, c) == [kind |-> k, seq |-> n, cmd |-> c]
Rec(m) == [seq |-> m.seq, cmd |-> m.cmd]
CmdsOf(recs) == {recs[i].cmd : i \in DOMAIN recs}
Logged(s) == CmdsOf(log[s])
DropAt(q, i) == SubSeq(q, 1, i - 1) \o SubSeq(q, i + 1, Len(q))

LoopsInit ==
  /\ up = TRUE
  /\ inbox = [s \in Shards |-> <<>>]
  /\ inboxOpen = [s \in Shards |-> TRUE]
  /\ lpc = [s \in Shards |-> "select"]
  /\ pending = [s \in Shards |-> <<>>]
  /\ unsynced = [s \in Shards |-> <<>>]
  /\ log = [s \in Shards |-> <<>>]
  /\ failed = [s \in Shards |-> FALSE]
  /\ executed = [s \in Shards |-> {}]
  /\ lastApplied = [s \in Shards |-> 0]
  /\ answer = [s \in Shards |-> "none"]
  /\ outcome = [c \in Cmds |-> "none"]

-----------------------------------------------------------------------------
Answered(cs, v) == [c \in Cmds |-> IF c \in cs THEN v ELSE outcome[c]]

\* failPending, and the reply to the command at hand if there is one
Fail(s, cs) ==
  /\ failed' = [failed EXCEPT ![s] = TRUE]
  /\ outcome' = Answered(CmdsOf(pending[s]) \cup cs, "err")
  /\ pending' = [pending EXCEPT ![s] = <<>>]

\* a barrier or drain is answered; after a drain the loop waits for the release
Answer(s, kind, v) ==
  /\ answer' = [answer EXCEPT ![s] = v]
  /\ lpc' = [lpc EXCEPT ![s] = IF kind = "drain" THEN "drained" ELSE "select"]

Received(s, kinds) ==
  /\ up
  /\ lpc[s] = "select"
  /\ inbox[s] # <<>>
  /\ Head(inbox[s]).kind \in kinds
  /\ inbox' = [inbox EXCEPT ![s] = Tail(@)]

\* enqueueCommand: refused by a failed loop, executed and on its way to the log, or
\* executed and failed by the log at once
LTakeCommand(s) ==
  /\ Received(s, {"command"})
  /\ LET r == Rec(Head(inbox[s]))
     IN  \/ /\ failed[s]
            /\ outcome' = Answered({r.cmd}, "err")
            /\ UNCHANGED <<pending, unsynced, bookVars>>
         \/ /\ ~failed[s]
            /\ executed' = [executed EXCEPT ![s] = @ \cup {r.cmd}]
            /\ \/ /\ pending' = [pending EXCEPT ![s] = Append(@, r)]
                  /\ unsynced' = [unsynced EXCEPT ![s] = Append(@, r)]
                  /\ UNCHANGED <<failed, outcome>>
               \/ /\ s \in MayFail
                  /\ Fail(s, {r.cmd})
                  /\ UNCHANGED unsynced
            /\ UNCHANGED lastApplied
  /\ UNCHANGED <<up, inboxOpen, lpc, log, answer>>

\* the writer syncs a batch, whether the loop still waits for it or not
LDurable(s) ==
  /\ up
  /\ \E k \in 1..Len(unsynced[s]) :
       /\ log' = [log EXCEPT ![s] = @ \o SubSeq(unsynced[s], 1, k)]
       /\ unsynced' = [unsynced EXCEPT ![s] = SubSeq(@, k + 1, Len(@))]
  /\ UNCHANGED <<up, inbox, inboxOpen, lpc, pending, bookVars, answer, outcome>>

\* the writer gives up a record
LDrop(s) ==
  /\ up
  /\ s \in MayFail
  /\ \E i \in DOMAIN unsynced[s] : unsynced' = [unsynced EXCEPT ![s] = DropAt(@, i)]
  /\ UNCHANGED <<up, inbox, inboxOpen, lpc, pending, log, bookVars, answer, outcome>>

\* completeNext on a positive ack
LComplete(s) ==
  /\ up
  /\ pending[s] # <<>>
  /\ Head(pending[s]).cmd \in Logged(s)
  /\ pending' = [pending EXCEPT ![s] = Tail(@)]
  /\ lastApplied' = [lastApplied EXCEPT ![s] = Head(pending[s]).seq]
  /\ outcome' = Answered({Head(pending[s]).cmd}, "ok")
  /\ UNCHANGED <<up, inbox, inboxOpen, lpc, logVars, failed, executed, answer>>

\* an ack is negative, or AppendAsync fails and its record never leaves the loop
LFail(s) ==
  /\ up
  /\ s \in MayFail
  /\ pending[s] # <<>>
  /\ Fail(s, {})
  /\ \/ UNCHANGED unsynced
     \/ unsynced[s] # <<>> /\ unsynced' = [unsynced EXCEPT ![s] = SubSeq(@, 1, Len(@) - 1)]
  /\ UNCHANGED <<up, inbox, inboxOpen, lpc, log, executed, lastApplied, answer>>

LTakeControl(s) ==
  /\ Received(s, Controls)
  /\ LET k == Head(inbox[s]).kind
     IN  \/ /\ ~failed[s]
            /\ lpc' = [lpc EXCEPT ![s] = k]
            /\ UNCHANGED <<pending, failed, outcome, answer>>
         \/ /\ s \in MayFail
            /\ Fail(s, {})
            /\ Answer(s, k, "err")
  /\ UNCHANGED <<up, inboxOpen, logVars, executed, lastApplied>>

\* mutant of LAnswer: the answer does not wait for the pending commands
LAnswerEarly(s) ==
  /\ up
  /\ lpc[s] \in Controls
  /\ Answer(s, lpc[s], IF failed[s] THEN "err" ELSE "ok")
  /\ UNCHANGED <<up, inbox, inboxOpen, logVars, executed, lastApplied, pending, failed, outcome>>

\* flushPending returns: nothing is pending, or the flush has failed
LAnswer(s) ==
  /\ up
  /\ lpc[s] \in Controls
  /\ \/ /\ pending[s] = <<>>
        /\ Answer(s, lpc[s], IF failed[s] THEN "err" ELSE "ok")
        /\ UNCHANGED <<pending, failed, outcome>>
     \/ /\ s \in MayFail
        /\ Fail(s, {})
        /\ Answer(s, lpc[s], "err")
  /\ UNCHANGED <<up, inbox, inboxOpen, logVars, executed, lastApplied>>

\* the release channel of the drain is closed
LRelease(s) ==
  /\ up
  /\ lpc[s] = "drained"
  /\ lpc' = [lpc EXCEPT ![s] = "select"]
  /\ UNCHANGED <<up, inbox, inboxOpen, pending, logVars, bookVars, answer, outcome>>

\* the end of run, with the Shutdown of the writer
LDone(s) ==
  /\ up
  /\ lpc[s] = "select"
  /\ ~inboxOpen[s]
  /\ inbox[s] = <<>>
  /\ pending[s] = <<>>
  /\ lpc' = [lpc EXCEPT ![s] = "done"]
  /\ \/ UNCHANGED failed
     \/ s \in MayFail /\ failed' = [failed EXCEPT ![s] = TRUE]
  /\ UNCHANGED <<up, inbox, inboxOpen, pending, logVars, executed, lastApplied, answer,
                 outcome>>

LoopStep(s) ==
  \/ LTakeCommand(s) \/ LDurable(s) \/ LComplete(s)
  \/ LTakeControl(s) \/ LAnswer(s) \/ LDone(s)
LoopFault(s) == LDrop(s) \/ LFail(s)

-----------------------------------------------------------------------------
(***************************************************************************)
(* A crash keeps the log and, of the records on their way, a prefix that   *)
(* differs from shard to shard.  A record that a start has read stays from *)
(* then on: the loss of one that no process had synced is left to Shard.   *)
(***************************************************************************)
LoopsCrash ==
  /\ up' = FALSE
  /\ \E k \in [Shards -> UNION {0..Len(unsynced[s]) : s \in Shards}] :
       /\ \A s \in Shards : k[s] <= Len(unsynced[s])
       /\ log' = [s \in Shards |-> log[s] \o SubSeq(unsynced[s], 1, k[s])]
  /\ unsynced' = [s \in Shards |-> <<>>]
  /\ inbox' = [s \in Shards |-> <<>>]
  /\ inboxOpen' = [s \in Shards |-> TRUE]
  /\ lpc' = [s \in Shards |-> "select"]
  /\ pending' = [s \in Shards |-> <<>>]
  /\ failed' = [s \in Shards |-> FALSE]
  /\ executed' = [s \in Shards |-> {}]
  /\ lastApplied' = [s \in Shards |-> 0]
  /\ answer' = [s \in Shards |-> "none"]
  /\ UNCHANGED outcome

\* a start that succeeds has executed the log, and no more
LoopsStart ==
  /\ ~up
  /\ up' = TRUE
  /\ executed' = [s \in Shards |-> Logged(s)]
  /\ lastApplied' = [s \in Shards |-> IF log[s] = <<>> THEN 0 ELSE log[s][Len(log[s])].seq]
  /\ UNCHANGED <<inbox, inboxOpen, lpc, pending, logVars, failed, answer, outcome>>

(***************************************************************************)
(* The sender of the inboxes, as far as the loops rely on it: the numbers  *)
(* of a shard grow, and nothing follows a control message that is not      *)
(* answered yet.                                                           *)
(***************************************************************************)
NumbersOf(s) ==
  UNION {{q[i].seq : i \in DOMAIN q} : q \in {inbox[s], pending[s], unsynced[s], log[s]}}

SendMessage(s, m) ==
  /\ up
  /\ inboxOpen[s]
  /\ Len(inbox[s]) < InboxSize
  /\ lpc[s] \notin Controls
  /\ \A i \in DOMAIN inbox[s] : inbox[s][i].kind \notin Controls
  /\ inbox' = [inbox EXCEPT ![s] = Append(@, m)]
  /\ UNCHANGED <<up, inboxOpen, lpc, pending, logVars, bookVars, outcome>>

SendCommand(s, c) ==
  /\ \E n \in 1..MaxNumber : /\ SendMessage(s, Message("command", n, c))
                            /\ \A k \in NumbersOf(s) : k < n
  /\ UNCHANGED answer

SendControl(s, k) ==
  /\ \E c \in Callers : SendMessage(s, Message(k, 0, c))
  /\ answer' = [answer EXCEPT ![s] = "none"]

TakeAnswer(s) ==
  /\ up
  /\ answer' = [answer EXCEPT ![s] = "none"]
  /\ UNCHANGED <<up, inbox, inboxOpen, lpc, pending, logVars, bookVars, outcome>>

CloseInbox(s) ==
  /\ up
  /\ inboxOpen' = [inboxOpen EXCEPT ![s] = FALSE]
  /\ UNCHANGED <<up, inbox, lpc, pending, logVars, bookVars, answer, outcome>>

\* the sequencer answers a command that it cannot number
Refuse(c) ==
  /\ up
  /\ outcome[c] = "none"
  /\ \E v \in {"rejected", "exhausted"} : outcome' = [outcome EXCEPT ![c] = v]
  /\ UNCHANGED <<up, inbox, inboxOpen, lpc, pending, logVars, bookVars, answer>>

LoopsNext ==
  \/ \E s \in Shards : \/ LoopStep(s) \/ LoopFault(s) \/ LRelease(s) \/ CloseInbox(s) \/ TakeAnswer(s)
                       \/ \E c \in Cmds : SendCommand(s, c)
                       \/ \E k \in Controls : SendControl(s, k)
  \/ \E c \in Cmds : Refuse(c)
  \/ LoopsCrash \/ LoopsStart

LoopsSpec == LoopsInit /\ [][LoopsNext]_loopVars
=============================================================================
