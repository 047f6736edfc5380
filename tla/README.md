# A TLA+ model of MatchingEngineGo

The engine keeps one limit order book per symbol, numbers every command, executes
it on the shard that owns its symbol, writes command and result to a write-ahead
log, and answers the client once the record is synced. After a crash it loads the
latest snapshot and replays the log, comparing each result with the stored one.
This directory models the engine from the commands of its clients to the bytes of
its files, checks the models with TLC on small instances, and proves the central
guarantees of a shard, of the snapshot files and of the metrics with TLAPS.

## The system

    clients -> Sequencer.run -> inbox -> Loop.run -> requests -> Writer.run -> segment files
                                            |    <- acks <-
                                       books, replies        CreateSnapshot, recoverBooks

| Part | State | Operations | What is hard about it |
|---|---|---|---|
| Command validation, `internal/model/types.go` | none | `Validate`, `ValidationRejectReason` | two functions that must agree |
| Order book, `internal/book/book.go` | price index, levels, queues, cached totals, order map, trade counter | new, cancel, replace, match, snapshot, restore | one fact kept in four structures; int64 totals wrap; fill-or-kill decided from the totals; 20-bit trade ids |
| Shard loop, `internal/shard/loop.go` | books, pending commands, watermark, failure | receive, append, complete, barrier, drain, shutdown | executes before it is durable; answers race failures; time-outs |
| WAL writer, `internal/journal/writer.go` | batch, acks, timer, current segment, terminal error | append, flush, shutdown, group commit, rotation | acks only after the sync; everyone must be answered when it stops |
| WAL reader, `internal/journal/reader.go`, `codec.go` | files | read a shard's records | what a crash leaves; only the last file may be cut |
| Snapshots and recovery, `internal/snapshot`, `internal/shard/engine.go`, `internal/recovery` | snapshot file, watermarks | create, load, replay, resume numbering | books, watermark and log must agree; numbers of lost commands are reused |
| Sequencer, `internal/ingress/sequencer.go` | queue, next number, closed | submit, barrier, drain, shutdown | locks held while queues are full; contexts that expire half way |
| Engine, registry, `internal/shard` | shards, routes | submit, snapshot, shutdown | several shards that fail one by one |
| Metrics, `internal/metrics` | counters, marks, rings of samples | observe, report | lock-free updates; a report that is collected while they change |
| Load generator, `cmd/loadgen` | orders, counters, samples | submit until a context expires, report | deferred sends, a channel that must have room for all |
| Configuration, `cmd/engine`, `cmd/replay` | | start, report, shut down | the configuration may differ from the one the files were written with |

## Modules

| Module | Models | Notes |
|---|---|---|
| `Command` | validation | the checks in the order of the code |
| `Book` | one book | one action starts a command, `matchAgainst` is one iteration of the loop, `FinishNew` and `FinishReplace` end a command; `Snapshot` and `NewFromSnapshot` are operators |
| `PriceTime` | what a book promises | one atomic step per command on a set of orders; the fill of each order in closed form |
| `BookRefines` | `Book` implements `PriceTime` | the history variable `shown` is the book between commands; the module also holds the instance of `SideBook`, as a part of its own |
| `SideBook` | one side of a book as the code stores it | `Order.Prev`/`Next`, head, tail and total of a level, the sorted slice of prices and its binary search; compared with the operators of `Book` |
| `Segments` | segment files and their reader, for `Shard` | records, unsynced records, a cut end |
| `WalWriter` | the writer goroutine | file creation, header sync, write and sync are separate steps, each of which may fail |
| `Shard` | the loop, the writer's calls, crash, recovery, snapshots | extends `WalWriter` |
| `ShardProofs` | theorems about `Shard` | types, acknowledgements, failures, replies |
| `Loops` | what the loops of all shards and their writers promise | executed, on its way to the disk, durable, answered; no batches, segments or requests |
| `ShardRefines` | `Shard` implements `Loops` for one shard | the batch, the request channel and the record in the hands of `AppendAsync` are the records on their way |
| `Sequencer` | the sequencer over the shards of `Loops` | the queue, the read-write lock, and every call with its context; `run` sends, waits and releases shard by shard |
| `Engine` | the public calls, crash and restart | extends `Sequencer`; `CreateSnapshot` reads one loop per step |
| `SnapshotFile` | `SaveAtomically` and `LoadLatest` | a file system with unsynced contents and unsynced directory entries |
| `SnapshotFileProofs` | theorems about `SnapshotFile` | |
| `Codec` | headers, frames and payloads | a file is a sequence of cells, one per integer or byte of a string |
| `Reader` | `readShardRecords` over whole, cut and changed files | one record per step |
| `SegmentNames` | names, sorting and choice of the next index | a name is a sequence of characters, compared as `sort.Strings` does |
| `Recovery` | `recoverBooks` and `RecoverFromSnapshotAndWAL`, registry, configuration, metadata | a start takes any configuration; a book is its trade counter's start and the commands it executed |
| `Metrics` | collector, its users and its report | every atomic operation and critical section is a step |
| `MetricsProofs` | theorems about `Metrics` | |
| `Loadgen` | the producers and `main` of `cmd/loadgen` | |
| `MCBook`, `MCShard`, `MCEngine` | instances for TLC | |
| `MCFiles` | instances of `SnapshotFile`, `Reader`, `SegmentNames`, `Recovery` and `Metrics` | a behaviour is one of a single module, named by the variable `part`; the others stay in an initial state |
| `MCLive` | instances of `Engine` and `Loadgen` under fairness | the same, with the variable `scenario` |

How they fit together. `Book` is checked alone because a shard executes one command
at a time; `Shard`, `Engine` and `Recovery` see a book as what it has executed. `Shard` has
one loop with all of its writer; `ShardRefines` shows that it keeps the promises of
`Loops`, and `Engine` puts several such loops under one sequencer. `UsesLoops` closes
the circle: the engine sends to its loops only what `Loops` assumes of its
environment. `SnapshotFile`, `Reader` with `Codec`, and `SegmentNames` look inside
steps that `Shard` and `Engine` take as one: saving a snapshot, reading a segment,
opening the next one.

How the data is abstracted. Order ids are model values. In `Book` the linked list of
a price level is a sequence and the binary search is the position where it ends on a
sorted slice, which `SideBook` justifies. In `Shard` a book is the sequence of the commands it has
executed, and a result is the book the command was executed on: `Book.Apply` is
deterministic, so equal results here are equal results in the code. Batches and
segments are measured in records and not in bytes. In `Shard` a segment is cut after
whole records and possibly inside the next one; `Reader` cuts at every cell. A cell
holds one integer, whatever its width, and a length counts cells; uint16 and uint32
have small bounds. The checksum of `Codec` is the sequence it is computed from, so
two different frames never share one. The content of a snapshot file is whole or not,
since `LoadLatest` decodes all of it and compares a checksum.

What stands for a step. A goroutine step runs from one channel operation, lock or
file operation to the next. `AppendAsync` is two steps, because the terminal error
is read before the request is sent. A context that expires is an action enabled
whenever the call it bounds could still be waiting. A process may die at any time,
during recovery too, and leaves its files as they are. A machine may crash at any time
while the engine is up, and keeps of each file an arbitrary prefix of the bytes that
were never synced, whichever process wrote them: a start reads through the page cache
and syncs nothing, so records that it replays may still be lost later. The variable
`lost` of `Shard` records that this has happened. `Loops` and `Engine` do not have this
last kind of loss: with them a record that a start has read stays.

## Runs

| Run | Configuration | Result |
|---|---|---|
| `book` | 4 order ids, 4 commands, 2 prices, quantities 1 and 3, int64 up to 3, trade ids with 1 bit of counter in a 2-bit word | the structure of the book, fill-or-kill, conservation of quantity, distinct trade ids and the snapshot round trip hold between any two iterations of the matching loop |
| `book_refines` | 4 commands, quantities 1 and 2, no overflow, of the invalid commands those without a quantity; the lists: 4 orders, 4 prices, either side, totals that wrap at 3 | `Book` implements `PriceTime`; the linked lists and the price index are what the queues of `Book` say |
| `book_fok` | 3 commands, market orders with a price | `FOKNeverPartial` is violated |
| `shard` | 2 commands and one whose record cannot be encoded, one barrier or drain, 2 crashes of the process or the machine, every fault (after the second crash recovery only), queues of 1, batches of 2, segments of 1 record | what clients were told, what is on disk and what a restart rebuilds agree; `Shard` implements `Loops` |
| `shard_live` | 3 commands, every fault, one in the first segment included | every command is answered and a closed shard ends, but for a lone command behind a writer without a first segment |
| `shard_torn` | 2 commands, 2 crashes, no fault | `AlwaysRecovers` is violated |
| `shard_open` | 1 command, the first segment may fail to open | `EveryCommandAnswered` is violated |
| `engine` | 2 shards, queues of 1; either any four of 2 submits, a barrier, a snapshot and a shutdown, with contexts that expire (of a submit, the snapshot and the shutdown) and a shard that fails; or any four of 4 commands (one for an unknown symbol, one with `TrySubmit`) and a snapshot, with 2 numbers, a crash and a restart | what a returned call may conclude, snapshots are cuts, numbers are unique and follow the queue, the engine uses its loops as `Loops` assumes |
| `engine_live` | 2 shards, one that may fail and one whose writer may never answer; any three of a submit or a `TrySubmit`, a barrier, two snapshots and two shutdowns, half of them with a deadline; the load generator: 2 producers and 3 commands | every call returns, with two exceptions, and the load generator's report comes and adds up |
| `files` | 3 saves with 2 crashes; up to 2 segments of up to 2 records, whole, cut at any cell or with any one cell changed to one of 4 values; 103 segments with names of 2 digits; 3 starts with any of 6 configurations and 3 commands; 3 clients of the collector, a loop, a writer and a report, a ring of 2 samples | a start finds a whole snapshot, reads back what was written, reads segments in order while their indices fit the name, and starts or refuses for the right reason; the mark is the largest depth, a report adds up, the ring holds the latest samples |
| `reader_changed` | the same | `CorruptionDetected` is violated |
| `recovery_shards` | the same | `MismatchRefused` is violated |

Why the bounds are enough. Two resting orders, a third that trades with both and a
fourth that sees the result reach every branch of the book; with int64 up to 3 two
orders of 3 wrap a level total, and with one bit of counter three trades wrap the
trade id. `book_refines` needs level totals that do not wrap, because a wrapped
total makes the book reject a fill-or-kill that the orders could fill, which
`PriceTime` accepts. Four orders give a level a middle order to unlink, and four
prices give the binary search both ends and two places between. In the shard, queues
of one block every sender, two pending commands reach the limit, batches of two are
full or left to the timer, every second record of a batch rotates the segment, and
two crashes give a restart from a log that a restart has already continued, with
records that the first crash left unsynced and the second one takes. A process dies
or a machine crashes while the inbox is open, since nothing on disk tells a crash
during shutdown from one before it; the second crash is one of the machine, which
may keep all bytes as the death of a process does; and what the shard does after it
has recovered from that one would only repeat what it did after the first. A process
that dies while it recovers has changed nothing: the proofs have this step, the run
does not. In the engine, a behaviour has any four of the five calls of its kind; two
shards are enough for one to fail, lag or lose its tail while the other does not,
and queues of one block every sender, submitters with the read lock included. Two
starts after the first let a start meet the files of two others; what the last one
does later is not followed. With names of two digits every index up to 99 fits, and
three more show what happens then. Three samples wrap a ring of two; under a report
all clients see one depth and none meets back pressure, which a report does not
show. A frame changed in one cell covers a change of each of its fields; two
segments are a last one and one that is not. Commands with an encodable record are
symmetric, and so are order ids and the clients of the collector; no liveness
property is checked under symmetry.

Deadlock is not checked: a bounded model stops when its commands are used up, and
the engine itself may stop (`LDone`, a refused recovery, the end of a program). That
nobody waits for good is what the liveness properties say.

Fairness. The Go scheduler runs every runnable goroutine, the batch timer fires, and
a context with a deadline expires; nothing makes a client call, a disk fail or a
process crash.

* `Shard`: weak fairness for the loop, for the writer's steps and for the release of
  a drain, since `CreateSnapshot` and `AcquireDrain` release theirs on every path.
* `Engine`: weak fairness for `run`, for every loop and for every call that has begun.
  A writer answers the command its loop waits for, which is what `shard_live` shows of
  all writers but one that cannot open its first segment. The shards in `Unopened` have
  such a writer: with two commands pending the loop fails in the end, because the
  request of one of them was rejected; with one pending nothing is promised. A loop
  whose writer answered with an error goes on to fail.
* `Loadgen`: weak fairness for `main` and for the expiry of the context. Nothing
  obliges `Submit` to return, as the load generator calls it with a context that never
  expires. A producer checks its own context in a `select` between two ready cases,
  which Go decides at random: `Return` has strong fairness.

Elsewhere the choice among ready channel cases is left open, and no property relies
on it.

## What the violations show

* `book_fok`: `availableQtyFor` ignores the price of a market order and `match` does
  not. A market fill-or-kill that carries a price is accepted, trades in part, and
  has its remainder cancelled. `book_refines` leaves these commands out, and
  `FOKExact` speaks of the others.
* `shard_torn`: an incomplete end is tolerated in the last segment only. A restart
  opens the next segment without repairing the incomplete one, so the restart after
  it refuses the log. `RefusedOnlyIfTornOrLost` shows that a log of this writer is
  refused for one other reason only: the machine lost records that a process had left
  unsynced and the next one had replayed and built on.
* `shard_open`: an append that has passed the check of the terminal error can be
  queued after a writer that could not open its first segment has rejected its
  queue and returned. It is never answered. `shard_live` shows that this is the only
  case, and only while nothing else reaches the loop: after any other fault the failed
  batch holds a command that the loop has pending, and its error also fails the
  commands behind it. `engine_live` shows who waits then: the client, and a `Shutdown`
  behind it, if they have no deadline.
* `reader_changed`: a payload length that changed on disk to a larger value reaches
  past the end of the last file, which the reader takes for a torn tail before it
  computes a checksum. The record and those behind it are dropped without an error.
  `NothingInvented` shows that no change makes the reader return a record that was
  not written.
* `recovery_shards`: `recoverBooks` reads the configured shards only. If shard 1
  commits a record before the writer of shard 0 has its first header on disk, a start
  with one shard finds nothing that tells of the other, and runs without the record.
  `OwnShardsRecovered` shows that no record in a shard of the running engine is missed,
  whatever configurations came before.

Some properties hold with an exception that the property itself states:

* `LogReplays`, `SnapshotExact` and `ImplementsLoops` end where the machine has lost
  records that a start had read from the page cache (`lost`). Acknowledged records are
  synced and never among them: `AckedDurable` has no exception.
* `ReadInOrder` says that segments are read in order while an index fits the padding of
  the name, six digits in the code. From index 1000000 on they are not: the name with
  999999 stays the last one, and every restart asks for 1000000.
* `EveryCallReturns`: a `Shutdown` whose context expires before its request is queued
  leaves the sequencer closed and running, and a later `Shutdown` without a deadline
  waits for good; so does a call without a deadline that waits for the lone command of
  a writer that never answers (`Unheard`). `ReportComes` leaves out a load generator
  whose `Submit` is such a call.
* `RecoveriesAgree`: `RecoverFromSnapshotAndWAL` gives a book that no snapshot lists
  the trade counter 0, `Book.New` gives it 1. The two functions agree where no such
  book has traded. Nothing in the repository calls the first of them.

## Proofs

The theorems hold for every value of the constants: all commands, symbols, queue
sizes, batch and segment sizes, sets of faults and numbers of crashes; any number of
saves of a snapshot; any number of clients of the collector and any length of its
ring. The constants are only assumed to be what the named assumptions of their modules
say: sizes are positive, as `config.Validate` demands, every command has a symbol, and
a command whose record cannot be encoded shares it with none whose record can.

About a shard (`ShardProofs`):

* `TypeCorrect`: `Spec => []TypeOK`. `TypeOK` alone is not inductive: the writer
  updates its last segment, so `Inside` adds that there is one wherever the writer is
  past creating it; and the loop adds a pending command, so `Inside` adds that there
  is room while `AppendAsync` runs. `TypeInv` is the two together.
* `AckedDurableAlways`: `Spec => []AckedDurable`. A reply says ok because an ack did,
  and an ack does because its record was synced. `AckInv` says so of acks and of
  replies, and adds that a segment without a synced header has no synced records and
  that the header is synced before the first write; otherwise a crash could remove a
  segment that holds acknowledged records. `Kept` is the fact that a step takes no
  synced record off the disk; each action is shown to have it.
* `FailStopAlways`: `Spec => FailStop`. `StopInv` says that a failed loop has nothing
  pending and no append under way, and holds no drain that it answered with ok; and
  that a loop past its end has nothing pending either, since the failure of the final
  `Shutdown` makes it fail there.
* `RepliedOnceAlways`: `Spec => []RepliedOnce`. The commands without an answer are
  those pending, in the loop's hand and in the inbox. `WaitInv` says that their
  numbers grow in that order and are below the next number, that no two are the same
  command, that none has an answer, and that a command which was never sent has none;
  so what an ack, a failure or the shutdown answers is gone from all three places.

About the snapshot files (`SnapshotFileProofs`):

* `StartsFromWholeAlways`: `Spec => []StartsFromWhole`, and `SavedStaysAlways`:
  `Spec => SavedStays`. `FileInv` says that a file gets its final name only when it is
  whole and synced (`NamedWhole`), that a name passes to later saves only and the
  directory on disk is never ahead of the one in memory (`NamesGrow`), and that a save
  which returned is in the directory that a crash leaves (`ReturnedStable`).

About the collector (`MetricsProofs`):

* `HWMIsLargestAlways`: `CollectorSpec => []HWMIsLargest`. `SwapRaises` is the reason: a client
  that is about to swap has loaded a smaller mark than its depth, and the swap fails
  if the mark is no longer that one.
* `ReportAddsUpAlways`: `CollectorSpec => []ReportAddsUp`. `Tallies` counts the clients behind
  the counters, and `ReportSoFar` says of each point in a report that what has been
  loaded is covered by what is loaded next, whenever that will be.
* `WindowIsLatestAlways`: `CollectorSpec => []WindowIsLatest`. `RingHolds` gives each of the
  last samples its slot, and `SlotsDiffer` shows that no two of them share one.

Each inductive invariant was model-checked before it was proved.

Only model-checked: the properties of `Book` and `SideBook` and the refinement of
`PriceTime`; of `Shard`, `LogReplays`, `SnapshotExact`, `AckedExecuted`,
`RefusedOnlyIfTornOrLost` and the refinement of `Loops`; everything about `Engine`,
`Reader`, `SegmentNames`, `Recovery` and `Loadgen`; and all liveness properties.
Liveness and `ENABLED` are beyond the prover used here. Induction over numbers is
within reach where it is stated with sets (`LeastNat` of `SnapshotFileProofs`: every
set of numbers that is not empty has a least one) and not where it takes an operator
as a parameter; the sums over a queue of `Book` and what its folds compute stay with
TLC.

## Not modelled

* The bits: gob and CRC32 themselves, the width of an integer in bytes, and the FNV
  hash of the registry. `Recovery` keeps the 16 bits that a segment header has for the
  shard count, so two counts that differ by a multiple of 65536 look alike to it; no run
  has such counts. `SnapshotFile` takes a file as whole or not, `Codec` a
  checksum as injective, `Recovery` the hash as a given function.
* `config.Load`, flags, JSON, printing, percentiles and `verifyEmptyState` of the
  load generator: they change nothing that a property speaks of.
* `NewEngine` when the writer of a later shard cannot be made: it returns and leaves
  the loops of the earlier shards running. Every program of the repository exits then.
* In the loop, a nil writer and a command for a foreign symbol, which the engine
  cannot produce; in the writer, the synchronous `Append`, a second `Shutdown` and
  `reopen`, which no loop calls.
* The directories: those of the snapshots and of the log are assumed to stay once
  they are made, as are the entries of segment files.
* A log or snapshot that is neither the engine's own, cut, nor changed in one cell.

## Plan

What is left of the system is listed above; what is left to do is to prove more of it:

1. `LogReplays`, `SnapshotExact`, `AckedExecuted` and `RefusedOnlyIfTornOrLost` of `Shard`:
   the durable log, the books and the snapshot are one history.
2. `BarrierCovers`, `NothingLeftBehind`, `ShutdownComplete` and `NumbersFollowQueue`
   of `Engine`.
3. For the book, its types, `OrdersIndexed` and the uncrossed book; the
   sums behind the level totals stay with TLC.
