------------------------------ MODULE Recovery --------------------------------
(***************************************************************************)
(* Restarts under a changed configuration: config.go, registry.go,         *)
(* recoverBooks and NewEngine (engine.go), the metadata that readSegment   *)
(* checks (reader.go) and openNextSegment writes (writer.go), and the      *)
(* second recovery of package recovery (recovery.go).                      *)
(*                                                                         *)
(* A book is the trade counter it started with, followed by the numbers of *)
(* the commands it executed.  The result of a command is a function of the *)
(* book and the command, and shows the counter if the command trades: a    *)
(* record stores the book it found in place of the result.  Records are    *)
(* whole: torn and damaged ones are the subject of Reader.                 *)
(***************************************************************************)
EXTENDS Integers, Sequences, SequencesExt, FiniteSets, FiniteSetsExt

CONSTANTS Configs,   \* the configurations: [engine, symbols, count]
          Hash,      \* fnv32a of a symbol
          Torn, None,
          MaxSeq,    \* bound: commands executed
          MaxStarts  \* bound: starts of the program

Symbols == DOMAIN Hash
Shards == 0..(Max({c.count : c \in Configs}) - 1)

VARIABLES status,  \* "stopped", "running" or "refused"
          conf,    \* the configuration of the last start, if any
          wal,     \* the segments of each shard: [head, records]
          snap,    \* the latest snapshot
          books, last, nextSeq,
          writer,  \* of each shard: "new", "created" the segment, "ready"
          starts

disk == <<wal, snap>>
memory == <<books, last, nextSeq>>
vars == <<status, conf, disk, memory, writer, starts>>

NewBook == <<1>>            \* book.New
EmptySnapshotBook == <<0>>  \* book.NewFromSnapshot of a snapshot with only a symbol

-----------------------------------------------------------------------------
(***************************************************************************)
(* Configuration and registry.                                             *)
(***************************************************************************)
Validate(c) ==
  c.engine # "" /\ c.symbols # <<>> /\ c.count > 0 /\ IsInjective(c.symbols)

stableShardID(sym, count) == Hash[sym] % count

\* NewSymbolRegistry: the shard of each configured symbol
Registry(c) == [sym \in ToSet(c.symbols) |-> stableShardID(sym, c.count)]

(***************************************************************************)
(* Recovery.                                                               *)
(***************************************************************************)
\* the metadata of a segment, whose count has 16 bits, and of a snapshot
Header(c) == [engine |-> c.engine, count |-> c.count % 2^16]
Metadata(c) == [engine |-> c.engine, count |-> c.count]

\* readSegment finds the header it expects in every segment; the last may be torn
ReadsFor(c, s) ==
  \A i \in DOMAIN wal[s] :
     IF wal[s][i].head = Torn THEN i = Len(wal[s]) ELSE wal[s][i].head = Header(c)

\* readShardRecords
Records(s) == FlattenSeq([i \in DOMAIN wal[s] |-> wal[s][i].records])

Failed == [ok |-> FALSE]

\* the result that the book computes is the one stored with the record
EqualResults(book, rec) ==
  IF rec.trade THEN book = rec.found ELSE Tail(book) = Tail(rec.found)

\* mutant of Replay: every record is replayed, whatever the snapshot covers
ReplayAll(r, s, rec) ==
  IF ~r.ok THEN r
  ELSE IF rec.sym \notin DOMAIN r.books \/ ~EqualResults(r.books[rec.sym], rec) THEN Failed
  ELSE [r EXCEPT !.books[rec.sym] = Append(@, rec.seq), !.last[s] = rec.seq]

\* one record of the loop of recoverBooks: skipped when the watermark covers it, refused
\* when its symbol is unknown or its result is another
Replay(r, s, rec) ==
  IF ~r.ok \/ rec.seq <= r.last[s] THEN r
  ELSE IF rec.sym \notin DOMAIN r.books \/ ~EqualResults(r.books[rec.sym], rec) THEN Failed
  ELSE [r EXCEPT !.books[rec.sym] = Append(@, rec.seq), !.last[s] = rec.seq]

\* the records of all shards, one shard after the other
ShardRecords(c) ==
  FlattenSeq([i \in 1..c.count |->
    LET recs == Records(i - 1)
    IN  [j \in DOMAIN recs |-> [shard |-> i - 1, rec |-> recs[j]]]])

Readable(c) == \A s \in 0..(c.count - 1) : ReadsFor(c, s)

\* the shards are read and replayed; one that cannot be read fails the recovery
ReplayShards(c, from) ==
  IF ~Readable(c) THEN Failed
  ELSE FoldLeft(LAMBDA r, x : Replay(r, x.shard, x.rec), from, ShardRecords(c))

\* mutant of recoverBooks: the new books replace the snapshot's
recoverBooksFresh(c) ==
  LET registry == Registry(c)
      fresh == [sym \in DOMAIN registry |-> NewBook]
      zero == [s \in 0..(c.count - 1) |-> 0]
  IN IF snap = None THEN ReplayShards(c, [ok |-> TRUE, books |-> fresh, last |-> zero])
     ELSE IF Metadata(c) # snap.head \/ ~(DOMAIN snap.books \subseteq DOMAIN registry) THEN Failed
     ELSE ReplayShards(c, [ok |-> TRUE, books |-> fresh @@ snap.books, last |-> snap.last])

\* recoverBooks: the snapshot's books, new ones for the other symbols, then the log
recoverBooks(c) ==
  LET registry == Registry(c)
      fresh == [sym \in DOMAIN registry |-> NewBook]
      zero == [s \in 0..(c.count - 1) |-> 0]
  IN IF snap = None THEN ReplayShards(c, [ok |-> TRUE, books |-> fresh, last |-> zero])
     ELSE IF Metadata(c) # snap.head \/ ~(DOMAIN snap.books \subseteq DOMAIN registry) THEN Failed
     ELSE ReplayShards(c, [ok |-> TRUE, books |-> snap.books @@ fresh, last |-> snap.last])

\* mutant of ApplyTail: the watermark of the snapshot is not looked at
ApplyTailFromZero(r, s, rec) ==
  LET found == IF rec.sym \in DOMAIN r.books THEN r.books[rec.sym] ELSE EmptySnapshotBook
  IN IF ~r.ok THEN r
     ELSE IF ~EqualResults(found, rec) THEN Failed
     ELSE [r EXCEPT !.books = (rec.sym :> Append(found, rec.seq)) @@ @, !.last[s] = rec.seq]

\* one record of RecoverFromSnapshotAndWAL, which makes the books it lacks
ApplyTail(r, s, rec) ==
  LET found == IF rec.sym \in DOMAIN r.books THEN r.books[rec.sym] ELSE EmptySnapshotBook
  IN IF ~r.ok \/ rec.seq <= r.last[s] THEN r
     ELSE IF ~EqualResults(found, rec) THEN Failed
     ELSE [r EXCEPT !.books = (rec.sym :> Append(found, rec.seq)) @@ @, !.last[s] = rec.seq]

RecoverFromSnapshotAndWAL(c) ==
  IF snap = None \/ snap.head # Metadata(c) \/ ~Readable(c) THEN Failed
  ELSE FoldLeft(LAMBDA r, x : ApplyTail(r, x.shard, x.rec),
                [ok |-> TRUE, books |-> snap.books, last |-> snap.last], ShardRecords(c))

nextSequence(seqs) == Max({seqs[s] : s \in DOMAIN seqs} \cup {0}) + 1

-----------------------------------------------------------------------------
Init ==
  /\ status = "stopped" /\ conf = None
  /\ wal = [s \in Shards |-> <<>>] /\ snap = None
  /\ books = <<>> /\ last = <<>> /\ nextSeq = 0
  /\ writer = [s \in Shards |-> "new"] /\ starts = 0

\* The program starts with a configuration: config.Load, then NewEngine.
NewEngine(c) ==
  LET r == IF Validate(c) THEN recoverBooks(c) ELSE Failed
  IN /\ status # "running" /\ starts < MaxStarts
     /\ starts' = starts + 1
     /\ conf' = c
     /\ \/ /\ r.ok
           /\ status' = "running"
           /\ books' = r.books /\ last' = r.last /\ nextSeq' = nextSequence(r.last)
        \/ ~r.ok /\ status' = "refused" /\ UNCHANGED memory
     /\ UNCHANGED <<disk, writer>>

\* openNextSegment of a shard's writer: the file is there before its header
CreateSegment(s) ==
  /\ status = "running" /\ s < conf.count /\ writer[s] = "new"
  /\ wal' = [wal EXCEPT ![s] = Append(@, [head |-> Torn, records |-> <<>>])]
  /\ writer' = [writer EXCEPT ![s] = "created"]
  /\ UNCHANGED <<status, conf, snap, memory, starts>>

WriteHeader(s) ==
  /\ writer[s] = "created"
  /\ wal' = [wal EXCEPT ![s][Len(wal[s])].head = Header(conf)]
  /\ writer' = [writer EXCEPT ![s] = "ready"]
  /\ UNCHANGED <<status, conf, snap, memory, starts>>

\* a command is numbered, executed and made durable
Execute(sym, trade) ==
  LET s == Registry(conf)[sym]
  IN /\ status = "running" /\ sym \in ToSet(conf.symbols) /\ writer[s] = "ready"
     /\ nextSeq <= MaxSeq
     /\ wal' = [wal EXCEPT ![s][Len(wal[s])].records =
                  Append(@, [seq |-> nextSeq, sym |-> sym, trade |-> trade, found |-> books[sym]])]
     /\ books' = [books EXCEPT ![sym] = Append(@, nextSeq)]
     /\ last' = [last EXCEPT ![s] = nextSeq]
     /\ nextSeq' = nextSeq + 1
     /\ UNCHANGED <<status, conf, snap, writer, starts>>

\* CreateSnapshot waits for a flush of every writer
CreateSnapshot ==
  /\ status = "running" /\ \A s \in 0..(conf.count - 1) : writer[s] = "ready"
  /\ snap' = [head |-> Metadata(conf), last |-> last, books |-> books]
  /\ UNCHANGED <<status, conf, wal, memory, writer, starts>>

\* the program ends, by a crash or by Shutdown
Stop ==
  /\ status = "running"
  /\ status' = "stopped"
  /\ books' = <<>> /\ last' = <<>> /\ nextSeq' = 0
  /\ writer' = [s \in Shards |-> "new"]
  /\ UNCHANGED <<conf, disk, starts>>

Next ==
  \/ \E c \in Configs : NewEngine(c)
  \/ \E s \in Shards : CreateSegment(s) \/ WriteHeader(s)
  \/ \E sym \in Symbols, trade \in BOOLEAN : Execute(sym, trade)
  \/ CreateSnapshot
  \/ Stop

Spec == Init /\ [][Next]_vars

-----------------------------------------------------------------------------
(***************************************************************************)
(* Properties.                                                             *)
(***************************************************************************)
Heads(S) == UNION {{seg.head : seg \in ToSet(wal[s])} : s \in S} \ {Torn}
Durable(S) == UNION {ToSet(Records(s)) : s \in S}

\* An engine that runs, whatever its configuration and those before it, has executed every
\* record in the log of its own shards, each written under its own metadata and executed
\* on the book that its first execution found, and numbers the next command above them.
OwnShardsRecovered ==
  status = "running" =>
    \A s \in 0..(conf.count - 1) : \A seg \in ToSet(wal[s]) : \A rec \in ToSet(seg.records) :
      /\ seg.head = Header(conf)
      /\ rec.sym \in DOMAIN books
      /\ IsPrefix(Append(rec.found, rec.seq), books[rec.sym])
      /\ rec.seq < nextSeq

\* No engine runs beside committed records of another engine id or shard count
\* (CRASH_MATRIX.md, "Engine ID or shard count mismatch | Recovery fails before replay").
MismatchRefused ==
  status = "running" =>
    \A s \in Shards : \A seg \in ToSet(wal[s]) : seg.records # <<>> => seg.head = Header(conf)

\* Recovery refuses to start only for a reason an operator can name: an invalid
\* configuration, data of another engine or shard count, data of a symbol that is no
\* longer configured, or a torn header below another segment.
RefusedForCause ==
  status = "refused" =>
    LET own == 0..(conf.count - 1)
        saved == IF snap = None THEN {} ELSE {snap}
    IN \/ ~Validate(conf)
       \/ \E h \in Heads(own) : h # Header(conf)
       \/ \E b \in saved : b.head # Metadata(conf)
       \/ \E rec \in Durable(own) : rec.sym \notin ToSet(conf.symbols)
       \/ \E b \in saved : ~(DOMAIN b.books \subseteq ToSet(conf.symbols))
       \/ \E s \in own : \E i \in 1..(Len(wal[s]) - 1) : wal[s][i].head = Torn

\* The two recoveries agree: from a snapshot from which the engine recovers,
\* RecoverFromSnapshotAndWAL recovers too, with the same watermarks and the same commands
\* executed.  The exception is a symbol that the snapshot does not list: the tool starts
\* its trade counter at 0, the engine at 1, and the tool refuses the symbol's first trade.
RecoveriesAgree ==
  \A c \in {d \in Configs : Validate(d)} :
    LET engine == recoverBooks(c)
        tool == RecoverFromSnapshotAndWAL(c)
        unlisted == {rec \in Durable(Shards) : rec.sym \notin DOMAIN snap.books}
    IN snap # None /\ engine.ok =>
         IF \E rec \in unlisted : rec.trade THEN ~tool.ok
         ELSE /\ tool.ok /\ tool.last = engine.last
              /\ \A sym \in DOMAIN tool.books : Tail(tool.books[sym]) = Tail(engine.books[sym])
              /\ \A sym \in DOMAIN engine.books \ DOMAIN tool.books : engine.books[sym] = NewBook
=============================================================================
