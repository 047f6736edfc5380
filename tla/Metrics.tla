------------------------------- MODULE Metrics --------------------------------
(***************************************************************************)
(* The collector (internal/metrics/metrics.go) and the goroutines that use *)
(* it: clients in Submit and TrySubmit, a shard loop, its log writer, and  *)
(* whoever reports MetricsSnapshot, as cmd/engine does on a timer.  Each   *)
(* atomic operation and each critical section is a step.                   *)
(*                                                                         *)
(* The paths are those of the other modules, reduced to what they observe. *)
(***************************************************************************)
EXTENDS Integers, Sequences, SequencesExt, FiniteSets, FiniteSetsExt

CONSTANTS Clients,    \* the clients, each with one command
          Depths,     \* the queue depths they may see
          Slots       \* the length of a reservoir

ASSUME MetricsAssumption ==
  IsFiniteSet(Clients) /\ Depths \subseteq Nat /\ Slots \in Nat \ {0}

VARIABLES client,    \* where each client is
          depth,     \* the depth it observes, 0 outside updateHWM
          current,   \* what updateHWM has loaded
          stage,     \* where its command is
          accepted, rejected, backpressure,  \* counters
          hwm,       \* ingressHWM
          batches,   \* walBatches
          submits,   \* the reservoir of submit latencies
          syncs,     \* count of the reservoir of sync latencies
          wpc,       \* what the writer observes next
          report,    \* the Stats being collected
          rpc,       \* what Snapshot loads next
          raised     \* history: the depths for which updateHWM has returned

counters == <<accepted, rejected, backpressure>>
clientVars == <<client, depth, current, raised>>
walVars == <<batches, syncs, wpc>>
reportVars == <<report, rpc>>
collectorVars == <<clientVars, stage, counters, hwm, walVars, submits, reportVars>>

NoStats == [SubmitCount |-> 0, window |-> <<>>, WALSyncCount |-> 0, Accepted |-> 0,
            Rejected |-> 0, WALBatches |-> 0]

CollectorInit ==
  /\ client = [c \in Clients |-> "submit"]
  /\ depth = [c \in Clients |-> 0]
  /\ current = [c \in Clients |-> 0]
  /\ stage = [c \in Clients |-> "none"]
  /\ accepted = 0 /\ rejected = 0 /\ backpressure = 0
  /\ hwm = 0 /\ batches = 0
  /\ submits = [count |-> 0, next |-> 0, slots |-> [i \in 0..(Slots - 1) |-> 0]]
  /\ syncs = 0 /\ wpc = "batch"
  /\ report = NoStats /\ rpc = "submits"
  /\ raised = {}

-----------------------------------------------------------------------------
(***************************************************************************)
(* A client: it sends the command, observes the depth, waits for the       *)
(* answer and observes its latency.                                        *)
(***************************************************************************)
Submit(c) ==
  /\ client[c] = "submit"
  /\ \/ /\ \E d \in Depths : depth' = [depth EXCEPT ![c] = d]
        /\ client' = [client EXCEPT ![c] = "load"]
        /\ stage' = [stage EXCEPT ![c] = "sent"]
        /\ UNCHANGED backpressure
     \/ /\ client' = [client EXCEPT ![c] = "done"]
        /\ backpressure' = backpressure + 1
        /\ UNCHANGED <<depth, stage>>
  /\ UNCHANGED <<current, raised, accepted, rejected, hwm, walVars, submits, reportVars>>

\* updateHWM returns
Raised(c) ==
  /\ client' = [client EXCEPT ![c] = "wait"]
  /\ raised' = raised \cup {depth[c]}
  /\ depth' = [depth EXCEPT ![c] = 0]
  /\ current' = [current EXCEPT ![c] = 0]

\* updateHWM: Load, and the return if the mark is high enough
Load(c) ==
  /\ client[c] = "load"
  /\ \/ depth[c] <= hwm /\ Raised(c)
     \/ /\ depth[c] > hwm
        /\ current' = [current EXCEPT ![c] = hwm]
        /\ client' = [client EXCEPT ![c] = "swap"]
        /\ UNCHANGED <<depth, raised>>
  /\ UNCHANGED <<stage, counters, hwm, walVars, submits, reportVars>>

\* mutant of CompareAndSwap: the value is stored without a comparison
Store(c) ==
  /\ client[c] = "swap"
  /\ hwm' = depth[c]
  /\ Raised(c)
  /\ UNCHANGED <<stage, counters, walVars, submits, reportVars>>

CompareAndSwap(c) ==
  /\ client[c] = "swap"
  /\ \/ /\ hwm = current[c]
        /\ hwm' = depth[c]
        /\ Raised(c)
     \/ /\ hwm # current[c]
        /\ client' = [client EXCEPT ![c] = "load"]
        /\ UNCHANGED <<depth, current, raised, hwm>>
  /\ UNCHANGED <<stage, counters, walVars, submits, reportVars>>

\* reservoir.add
add(r, v) ==
  [count |-> r.count + 1, next |-> r.next + 1, slots |-> [r.slots EXCEPT ![r.next % Slots] = v]]

\* the answer arrives; only one without an error is observed, and the latencies are
\* told apart by the order in which they are added
GetOutcome(c) ==
  /\ client[c] = "wait"
  /\ stage[c] \in {"answered", "failed"}
  /\ client' = [client EXCEPT ![c] = "done"]
  /\ \/ stage[c] = "failed" /\ UNCHANGED submits
     \/ /\ stage[c] = "answered"
        /\ submits' = add(submits, submits.count + 1)
  /\ UNCHANGED <<depth, current, raised, stage, counters, hwm, walVars, reportVars>>

-----------------------------------------------------------------------------
(***************************************************************************)
(* The writer: acks come before its observations; and the loop, which      *)
(* counts a command before it answers.                                     *)
(***************************************************************************)
SyncBatch ==
  /\ wpc = "batch"
  /\ \E cs \in SUBSET {c \in Clients : stage[c] = "sent"} :
       /\ cs # {}
       /\ stage' = [c \in Clients |-> IF c \in cs THEN "acked" ELSE stage[c]]
  /\ wpc' = "batches"
  /\ UNCHANGED <<clientVars, counters, hwm, batches, syncs, submits, reportVars>>

\* the sums of commands and bytes follow the same way and are left out
ObserveWALBatch ==
  /\ wpc = "batches"
  /\ batches' = batches + 1
  /\ wpc' = "sync"
  /\ UNCHANGED <<clientVars, stage, counters, hwm, syncs, submits, reportVars>>

ObserveWALSyncLatency ==
  /\ wpc = "sync"
  /\ syncs' = syncs + 1
  /\ wpc' = "batch"
  /\ UNCHANGED <<clientVars, stage, counters, hwm, batches, submits, reportVars>>

\* completeCommand up to the answer, and the sequencer on an unknown symbol
Count(c) ==
  /\ \/ stage[c] = "acked" /\ accepted' = accepted + 1 /\ UNCHANGED rejected
     \/ stage[c] \in {"sent", "acked"} /\ rejected' = rejected + 1 /\ UNCHANGED accepted
  /\ stage' = [stage EXCEPT ![c] = "counted"]
  /\ UNCHANGED <<clientVars, backpressure, hwm, walVars, submits, reportVars>>

\* the reply, or failPending
Answer(c) ==
  /\ \/ stage[c] = "counted" /\ stage' = [stage EXCEPT ![c] = "answered"]
     \/ stage[c] \in {"sent", "acked"} /\ stage' = [stage EXCEPT ![c] = "failed"]
  /\ UNCHANGED <<clientVars, counters, hwm, walVars, submits, reportVars>>

-----------------------------------------------------------------------------
\* mutant of snapshot: the window starts one sample late
snapshotLate(r) ==
  LET limit == Min({Slots, r.count})
  IN  [i \in 1..limit |-> r.slots[(r.next - limit + i) % Slots]]

\* reservoir.snapshot: the last samples, oldest first
snapshot(r) ==
  LET limit == Min({Slots, r.count})
  IN  [i \in 1..limit |-> r.slots[(r.next - limit + i - 1) % Slots]]

Loads(field, v, from, to) ==
  /\ rpc = from
  /\ rpc' = to
  /\ report' = [report EXCEPT ![field] = v]

\* mutant of LoadReservoirs and LoadCounters: the counters come first
LoadReservoirsLast ==
  \/ Loads("WALBatches", batches, "submits", "accepted")
  \/ Loads("Accepted", accepted, "accepted", "rejected")
  \/ Loads("Rejected", rejected, "rejected", "syncs")
  \/ Loads("WALSyncCount", syncs, "syncs", "last")
  \/ /\ rpc = "last"
     /\ report' = [report EXCEPT !.SubmitCount = submits.count, !.window = snapshot(submits)]
     /\ rpc' = "loaded"

\* Collector.Snapshot, load by load
LoadReservoirs ==
  \/ /\ rpc = "submits"
     /\ report' = [report EXCEPT !.SubmitCount = submits.count, !.window = snapshot(submits)]
     /\ rpc' = "syncs"
  \/ Loads("WALSyncCount", syncs, "syncs", "accepted")

LoadCounters ==
  \/ Loads("Accepted", accepted, "accepted", "rejected")
  \/ Loads("Rejected", rejected, "rejected", "batches")
  \/ Loads("WALBatches", batches, "batches", "loaded")

\* one report, at any time
Report == LoadReservoirs \/ LoadCounters

Observe ==
  \/ \E c \in Clients : Submit(c) \/ Load(c) \/ CompareAndSwap(c) \/ GetOutcome(c) \/ Count(c) \/ Answer(c)
  \/ SyncBatch \/ ObserveWALBatch \/ ObserveWALSyncLatency

CollectorNext ==
  Observe \/ (Report /\ UNCHANGED <<clientVars, stage, counters, hwm, walVars, submits>>)

CollectorSpec == CollectorInit /\ [][CollectorNext]_collectorVars

-----------------------------------------------------------------------------
(***************************************************************************)
(* Properties.                                                             *)
(***************************************************************************)
\* However many clients raise the high-water mark at once, it never falls behind a depth
\* for which the update has returned, and it is a depth that somebody has seen.
HWMIsLargest ==
  /\ \A d \in raised : d <= hwm
  /\ hwm \in {0} \cup raised \cup {depth[c] : c \in Clients}

\* A report is not one moment, and yet adds up: no more latencies than counted commands
\* and no more syncs than batches, as the submits are loaded before the counters
\* that every sample was counted in first.
ReportAddsUp ==
  rpc = "loaded" => /\ report.SubmitCount <= report.Accepted + report.Rejected
                    /\ report.WALSyncCount <= report.WALBatches

\* The window of a report is the latest samples in the order of their arrival, before
\* and after the ring has wrapped (metrics_test.go, "reservoir does not contain latest
\* window").
WindowIsLatest ==
  LET n == report.SubmitCount
  IN  rpc = "loaded" =>
        report.window = [i \in 1..Min({n, Slots}) |-> n - Min({n, Slots}) + i]
=============================================================================
