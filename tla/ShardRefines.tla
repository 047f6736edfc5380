---------------------------- MODULE ShardRefines -----------------------------
(***************************************************************************)
(* Shard, the loop with its group-commit writer and segment files, does    *)
(* what Loops promises of one shard.                                       *)
(*                                                                         *)
(* The batch, the request channel and the record that AppendAsync holds    *)
(* are together the records on their way to the disk.  The log is what is  *)
(* settled.  The steps of recovery are hidden: the shard is down until the *)
(* engine has started.                                                     *)
(***************************************************************************)
EXTENDS MCShard

\* Bounds: after the last crash the shard recovers and is sent nothing, no I/O step fails
\* and the inbox stays open; and the last crash is one of the machine, since no later one
\* tells what it left unsynced.  A crash during shutdown needs no step: the timer writes
\* what the end of the loop writes.
RNext ==
  \/ crashes < MaxCrashes /\ Send
  \/ crashes < MaxCrashes /\ CloseInbox
  \/ Loop
  \/ Writer
  \/ crashes < MaxCrashes /\ Fault
  \/ CreateSnapshot \/ ReleaseDrain
  \/ inboxOpen /\ ProcessDies /\ crashes' < MaxCrashes
  \/ inboxOpen /\ MachineCrashes
  \/ Recover

RSpec == Init /\ [][RNext]_vars

Isup == status = "up"
Short(r) == [seq |-> r.seq, cmd |-> r.cmd]
Shorts(recs) == [i \in 1..Len(recs) |-> Short(recs[i])]
InHand == IF lpc = "append" THEN <<hand>> ELSE <<>>
Requested ==
  LET appends == SelectSeq(requests, LAMBDA q : q.kind = "append")
  IN  [i \in 1..Len(appends) |-> appends[i].rec]

LoopAt ==
  CASE lpc \in {"select", "append"} -> "select"
    [] lpc \in {"flush", "flushing", "complete"} -> control
    [] lpc = "drained" -> "drained"
    [] OTHER -> IF lpc = "done" THEN "done" ELSE "select"

Abstract == INSTANCE Loops WITH
  Shards <- {1}, Callers <- {0}, MayFail <- {1}, MaxNumber <- Cardinality(Cmds),
  up <- Isup,
  inbox <- <<inbox>>,
  inboxOpen <- <<inboxOpen>>,
  lpc <- <<LoopAt>>,
  pending <- <<pending \o Shorts(InHand)>>,
  unsynced <- <<IF Isup THEN Shorts(batch \o Requested \o InHand) ELSE <<>> >>,
  log <- <<Shorts(Settled)>>,
  failed <- <<failed>>,
  executed <- <<IF Isup THEN UNION {{books[s][i] : i \in DOMAIN books[s]} : s \in Symbols} ELSE {}>>,
  lastApplied <- <<IF Isup THEN lastApplied ELSE 0>>,
  answer <- <<controlResult>>,
  outcome <- [c \in Cmds |-> IF replies[c] = <<>> THEN "none" ELSE Head(replies[c])]

\* Every step of the loop and the writer, with faults, crashes and restarts, is one
\* that Loops allows: commands become durable in the order of their numbers, are
\* acknowledged in that order and only then, and a restart has executed what the log
\* holds, with or without a snapshot.  Loops has no step for a machine that loses
\* records which a start had read: this speaks of the steps before that.
ImplementsLoops ==
  Abstract!LoopsInit /\ [][lost' \/ Abstract!LoopsNext]_(Abstract!loopVars)
=============================================================================
