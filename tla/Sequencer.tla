------------------------------ MODULE Sequencer ------------------------------
(***************************************************************************)
(* The global sequencer (internal/ingress/sequencer.go): its queue, its    *)
(* read-write lock, the goroutine of run, and the callers of its methods,  *)
(* each with a context that may expire.  The shards behind the inboxes are *)
(* those of Loops.                                                         *)
(*                                                                         *)
(* A call is made once, and its request in the queue is named by the call. *)
(* Lock keeps new readers out from the moment it is called, as RWMutex     *)
(* does; a select takes any of its cases that is ready.                    *)
(***************************************************************************)
EXTENDS Loops

CONSTANTS Submits, Tries,               \* the commands, by SubmitBlocking or SubmitNonBlocking
          Barriers, Snapshots, Shutdowns, \* the other calls
          Deadline,                     \* the calls whose context expires
          ShardFor,                     \* the shard of each command, 0 if unknown
          IngressSize                   \* capacity of ingressQ

Calls == Cmds \cup Callers \cup Shutdowns
ShardCount == Cardinality(Shards)

ASSUME SequencerAssumption ==
  /\ Cmds = Submits \cup Tries /\ Submits \cap Tries = {}
  /\ Callers = Barriers \cup Snapshots /\ Barriers \cap Snapshots = {}
  /\ Cmds \cap Callers = {} /\ Shutdowns \cap (Cmds \cup Callers) = {}
  /\ ShardCount \in Nat \ {0} /\ Shards = 1..ShardCount
  /\ ShardFor \in [Cmds -> Shards \cup {0}]
  /\ Deadline \subseteq Calls \ Tries
  /\ IngressSize \in Nat \ {0}

VARIABLES queue,     \* ingressQ
          readers,   \* the calls that hold mu for reading
          writer,    \* the call that has asked for mu, if any
          closed,    \* Sequencer.closed
          nextSeq,   \* Sequencer.nextSeq; 0 when the numbers are used up
          spc,       \* where run is
          req,       \* the request it serves
          number,    \* the number it has given to a command
          at,        \* the shard it has come to
          firstErr,  \* some shard has answered with an error
          result,    \* the result channel of each barrier and drain
          release,   \* the drains whose release channel is closed
          drainWait, \* the drain each shard waits for
          pc,        \* where each call is
          ret,       \* what each call has returned
          entered    \* history: the requests in the order they entered the queue

lockVars == <<readers, writer, closed>>
runVars == <<spc, req, number, at, firstErr, nextSeq, drainWait>>
callVars == <<pc, ret, result, release, entered>>
seqVars == <<queue, lockVars, runVars, callVars>>

NoCall == 0

\* NewSequencer, with the initial number 1
SequencerInit ==
  /\ LoopsInit
  /\ queue = <<>>
  /\ readers = {}
  /\ writer = {}
  /\ closed = FALSE
  /\ nextSeq = 1
  /\ spc = "receive"
  /\ req = NoCall
  /\ number = 0
  /\ at = 1
  /\ firstErr = FALSE
  /\ result = [c \in Callers |-> "none"]
  /\ release = {}
  /\ drainWait = [s \in Shards |-> NoCall]
  /\ entered = <<>>
  /\ pc = [c \in Calls |-> "idle"]
  /\ ret = [c \in Calls |-> "none"]

\* NewSequencer after a crash; the calls that were made before it are gone
SequencerReset ==
  /\ queue' = <<>>
  /\ readers' = {}
  /\ writer' = {}
  /\ closed' = FALSE
  /\ nextSeq' = 1
  /\ spc' = "receive"
  /\ req' = NoCall
  /\ number' = 0
  /\ at' = 1
  /\ firstErr' = FALSE
  /\ result' = [c \in Callers |-> "none"]
  /\ release' = {}
  /\ drainWait' = [s \in Shards |-> NoCall]
  /\ entered' = <<>>
  /\ pc' = [c \in Calls |-> IF pc[c] = "idle" THEN "idle" ELSE "gone"]
  /\ UNCHANGED ret

-----------------------------------------------------------------------------
(***************************************************************************)
(* The calls.                                                              *)
(***************************************************************************)
Goes(c, where) == pc' = [pc EXCEPT ![c] = where] /\ UNCHANGED ret
Returns(c, v) == pc' = [pc EXCEPT ![c] = "returned"] /\ ret' = [ret EXCEPT ![c] = v]

Enqueue(c) ==
  /\ Len(queue) < IngressSize
  /\ queue' = Append(queue, c)
  /\ entered' = Append(entered, c)

\* mutant of Enter: the lock covers the test of closed only
EnterUnlocks(c) ==
  /\ up
  /\ pc[c] = "idle"
  /\ writer = {}
  /\ \/ closed /\ Returns(c, "closed")
     \/ ~closed /\ Goes(c, "send")
  /\ UNCHANGED <<loopVars, queue, lockVars, runVars, result, release, entered>>

\* RLock, and the test of closed: a call that finds the sequencer open keeps the
\* lock until its request is in the queue or its context has expired
Enter(c) ==
  /\ up
  /\ pc[c] = "idle"
  /\ writer = {}
  /\ \/ closed /\ Returns(c, "closed") /\ UNCHANGED readers
     \/ ~closed /\ Goes(c, "send") /\ readers' = readers \cup {c}
  /\ UNCHANGED <<loopVars, queue, writer, closed, runVars, result, release, entered>>

Send(c) ==
  /\ up
  /\ pc[c] = "send"
  /\ Enqueue(c)
  /\ readers' = readers \ {c}
  /\ Goes(c, "wait")
  /\ UNCHANGED <<loopVars, writer, closed, runVars, result, release>>

SendExpires(c) ==
  /\ up
  /\ pc[c] = "send"
  /\ c \in Deadline
  /\ readers' = readers \ {c}
  /\ Returns(c, "ctx")
  /\ UNCHANGED <<loopVars, queue, writer, closed, runVars, result, release, entered>>

\* SubmitNonBlocking
SubmitNonBlocking(c) ==
  /\ up
  /\ pc[c] = "idle"
  /\ writer = {}
  /\ \/ closed /\ Returns(c, "closed") /\ UNCHANGED <<queue, entered>>
     \/ ~closed /\ Enqueue(c) /\ Goes(c, "wait")
     \/ /\ ~closed
        /\ Len(queue) = IngressSize
        /\ Returns(c, "backpressure")
        /\ UNCHANGED <<queue, entered>>
  /\ UNCHANGED <<loopVars, lockVars, runVars, result, release>>

\* the wait for the outcome in Engine.Submit and TrySubmit
GetOutcome(c) ==
  /\ up
  /\ pc[c] = "wait"
  /\ outcome[c] # "none"
  /\ Returns(c, outcome[c])
  /\ UNCHANGED <<loopVars, queue, lockVars, runVars, result, release, entered>>

\* the wait for the result in Barrier
GetResult(c) ==
  /\ up
  /\ pc[c] = "wait"
  /\ result[c] # "none"
  /\ Returns(c, result[c])
  /\ UNCHANGED <<loopVars, queue, lockVars, runVars, result, release, entered>>

\* mutant of AcquireDrain: a drain that failed is not released
AcquireDrainKeeps(c) ==
  /\ up
  /\ pc[c] = "wait"
  /\ \/ result[c] = "ok" /\ Goes(c, "hold")
     \/ result[c] = "err" /\ Returns(c, "err")
  /\ UNCHANGED <<loopVars, queue, lockVars, runVars, result, release, entered>>

\* and in AcquireDrain, which closes the release channel of a drain that failed
AcquireDrain(c) ==
  /\ up
  /\ pc[c] = "wait"
  /\ \/ result[c] = "ok" /\ Goes(c, "hold") /\ UNCHANGED release
     \/ result[c] = "err" /\ Returns(c, "err") /\ release' = release \cup {c}
  /\ UNCHANGED <<loopVars, queue, lockVars, runVars, result, entered>>

\* the context expires while the call waits; a drain is released
WaitExpires(c) ==
  /\ up
  /\ c \in Deadline
  /\ pc[c] \in {"wait", "again", "loops"}
  /\ Returns(c, "ctx")
  /\ release' = release \cup ({c} \cap Snapshots)
  /\ UNCHANGED <<loopVars, queue, lockVars, runVars, result, entered>>

\* Shutdown: markClosed waits for the lock, whatever the context
Lock(c) ==
  /\ up
  /\ pc[c] = "idle"
  /\ writer = {}
  /\ writer' = {c}
  /\ Goes(c, "lock")
  /\ UNCHANGED <<loopVars, queue, readers, closed, runVars, result, release, entered>>

markClosed(c) ==
  /\ up
  /\ pc[c] = "lock"
  /\ readers = {}
  /\ writer' = {}
  /\ closed' = TRUE
  /\ Goes(c, IF closed THEN "again" ELSE "send")
  /\ UNCHANGED <<loopVars, queue, readers, runVars, result, release, entered>>

\* done is closed; Engine.Shutdown goes on to wait for the loops
ShutdownSequencer(c) ==
  /\ up
  /\ pc[c] \in {"wait", "again"}
  /\ spc = "ended"
  /\ Goes(c, "loops")
  /\ UNCHANGED <<loopVars, queue, lockVars, runVars, result, release, entered>>

-----------------------------------------------------------------------------
(***************************************************************************)
(* run                                                                     *)
(***************************************************************************)
Receive(cs) ==
  /\ up
  /\ spc = "receive"
  /\ queue # <<>>
  /\ Head(queue) \in cs
  /\ queue' = Tail(queue)
  /\ UNCHANGED <<lockVars, drainWait, callVars>>

\* the next turn of the loop: the variables of this one are gone
NextRequest ==
  /\ spc' = "receive"
  /\ req' = NoCall
  /\ number' = 0
  /\ at' = 1
  /\ firstErr' = FALSE

ReceiveCommand ==
  /\ Receive(Cmds)
  /\ LET c == Head(queue)
     IN  \/ /\ ShardFor[c] = 0
            /\ outcome' = Answered({c}, "rejected")
            /\ UNCHANGED <<spc, req, number, nextSeq>>
         \/ /\ ShardFor[c] # 0 /\ nextSeq = 0
            /\ outcome' = Answered({c}, "exhausted")
            /\ UNCHANGED <<spc, req, number, nextSeq>>
         \/ /\ ShardFor[c] # 0 /\ nextSeq # 0
            /\ req' = c
            /\ number' = nextSeq
            /\ nextSeq' = (nextSeq + 1) % (MaxNumber + 1)
            /\ spc' = "route"
            /\ UNCHANGED outcome
  /\ UNCHANGED <<up, inbox, inboxOpen, lpc, pending, logVars, bookVars, answer, at, firstErr>>

\* a send on an inbox, which blocks while it is full
SendTo(s, m) ==
  /\ up
  /\ Len(inbox[s]) < InboxSize
  /\ inbox' = [inbox EXCEPT ![s] = Append(@, m)]
  /\ UNCHANGED <<up, inboxOpen, lpc, pending, logVars, bookVars, outcome>>

Route ==
  /\ spc = "route"
  /\ SendTo(ShardFor[req], Message("command", number, req))
  /\ NextRequest
  /\ UNCHANGED <<answer, queue, lockVars, callVars, nextSeq, drainWait>>

ReceiveControl ==
  /\ Receive(Callers)
  /\ req' = Head(queue)
  /\ spc' = "control"
  /\ UNCHANGED <<loopVars, number, at, firstErr, nextSeq>>

SendControlTo ==
  /\ spc = "control"
  /\ SendTo(at, Message(IF req \in Barriers THEN "barrier" ELSE "drain", 0, req))
  /\ answer' = [answer EXCEPT ![at] = "none"]
  /\ spc' = "await"
  /\ UNCHANGED <<queue, lockVars, callVars, req, number, at, firstErr, nextSeq, drainWait>>

\* mutant of FirstError: a later answer hides an error
FirstErrorForgets == answer[at] = "err"

FirstError == firstErr \/ answer[at] = "err"

\* the answer of a shard; the last one completes the result
Await ==
  /\ up
  /\ spc = "await"
  /\ answer[at] # "none"
  /\ answer' = [answer EXCEPT ![at] = "none"]
  /\ \/ /\ at < ShardCount
        /\ at' = at + 1
        /\ firstErr' = FirstError
        /\ spc' = "control"
        /\ UNCHANGED <<result, req, number>>
     \/ /\ at = ShardCount
        /\ result' = [result EXCEPT ![req] = IF FirstError THEN "err" ELSE "ok"]
        /\ \/ req \in Barriers /\ NextRequest
           \/ /\ req \in Snapshots
              /\ spc' = "release"
              /\ UNCHANGED <<req, number, at, firstErr>>
  /\ UNCHANGED <<up, inbox, inboxOpen, lpc, pending, logVars, bookVars, outcome, queue,
                 lockVars, pc, ret, release, entered, nextSeq, drainWait>>

AwaitRelease ==
  /\ up
  /\ spc = "release"
  /\ req \in release
  /\ NextRequest
  /\ UNCHANGED <<loopVars, queue, lockVars, callVars, nextSeq, drainWait>>

ReceiveShutdown ==
  /\ Receive(Shutdowns)
  /\ spc' = "close"
  /\ UNCHANGED <<loopVars, req, number, at, firstErr, nextSeq>>

CloseInboxes ==
  /\ up
  /\ spc = "close"
  /\ inboxOpen' = [inboxOpen EXCEPT ![at] = FALSE]
  /\ \/ at < ShardCount /\ at' = at + 1 /\ UNCHANGED spc
     \/ at = ShardCount /\ spc' = "ended" /\ UNCHANGED at
  /\ UNCHANGED <<up, inbox, lpc, pending, logVars, bookVars, answer, outcome, queue, lockVars,
                 callVars, req, number, firstErr, nextSeq, drainWait>>

\* a loop that takes a drain waits on the release channel that came with it
TakeControl(s) ==
  /\ LTakeControl(s)
  /\ drainWait' = [drainWait EXCEPT ![s] = Head(inbox[s]).cmd]
  /\ UNCHANGED <<queue, lockVars, callVars, spc, req, number, at, firstErr, nextSeq>>

Released(s) ==
  /\ drainWait[s] \in release
  /\ LRelease(s)
  /\ drainWait' = [drainWait EXCEPT ![s] = NoCall]
  /\ UNCHANGED <<queue, lockVars, callVars, spc, req, number, at, firstErr, nextSeq>>

Run ==
  \/ ReceiveCommand \/ Route
  \/ ReceiveControl \/ SendControlTo \/ Await \/ AwaitRelease
  \/ ReceiveShutdown \/ CloseInboxes

LoopTurn(s) ==
  \/ (LTakeCommand(s) \/ LComplete(s) \/ LAnswer(s) \/ LDone(s)) /\ UNCHANGED seqVars
  \/ TakeControl(s)
  \/ Released(s)

WriterSyncs(s) == LDurable(s) /\ UNCHANGED seqVars

ShardFault(s) == LoopFault(s) /\ UNCHANGED seqVars
=============================================================================
