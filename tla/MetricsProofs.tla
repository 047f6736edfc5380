----------------------------- MODULE MetricsProofs -----------------------------
(***************************************************************************)
(* The collector of Metrics, for any number of clients, any depths and any *)
(* length of the ring: the high-water mark, the sums and the window of a   *)
(* report.                                                                 *)
(***************************************************************************)
EXTENDS Metrics, FiniteSetTheorems, TLAPS

Stats == [SubmitCount : Nat, window : Seq(Nat), WALSyncCount : Nat, Accepted : Nat,
          Rejected : Nat, WALBatches : Nat]

ClientTypes ==
  /\ client \in [Clients -> {"submit", "load", "swap", "wait", "done"}]
  /\ depth \in [Clients -> Nat]
  /\ current \in [Clients -> Nat]
  /\ stage \in [Clients -> {"none", "sent", "acked", "counted", "answered", "failed"}]
  /\ hwm \in Nat
  /\ raised \subseteq Nat

CollectorTypes ==
  /\ accepted \in Nat /\ rejected \in Nat
  /\ batches \in Nat /\ syncs \in Nat
  /\ wpc \in {"batch", "batches", "sync"}
  /\ submits \in [count : Nat, next : Nat, slots : [0..(Slots - 1) -> Nat]]
  /\ report \in Stats
  /\ rpc \in {"submits", "syncs", "accepted", "rejected", "batches", "loaded"}

\* a swap would raise the mark that was loaded, and a client outside updateHWM shows
\* no depth
SwapRaises ==
  \A c \in Clients : /\ client[c] = "swap" => current[c] < depth[c]
                     /\ client[c] = "submit" => depth[c] = 0

\* a client is done before it has sent, or after its answer
DoneAnswered ==
  \A c \in Clients : /\ client[c] = "submit" => stage[c] = "none"
                     /\ client[c] = "done" => stage[c] \in {"none", "answered", "failed"}

Counted == {c \in Clients : stage[c] \in {"counted", "answered"}}
Sampled == {c \in Clients : client[c] = "done" /\ stage[c] = "answered"}

\* each counted command is in one of the counters, each sample of a latency is of a
\* command that was counted, and each sync is of a batch that was
Tallies ==
  /\ accepted + rejected = Cardinality(Counted)
  /\ submits.count = Cardinality(Sampled)
  /\ syncs <= batches
  /\ wpc = "sync" => syncs < batches

\* what has been loaded is covered by what is loaded next, whenever that will be
ReportSoFar ==
  /\ rpc \in {"syncs", "accepted"} => report.SubmitCount <= accepted + rejected
  /\ rpc = "rejected" => report.SubmitCount <= report.Accepted + rejected
  /\ rpc \in {"batches", "loaded"} => report.SubmitCount <= report.Accepted + report.Rejected
  /\ rpc \in {"accepted", "rejected", "batches"} => report.WALSyncCount <= batches
  /\ rpc = "loaded" => report.WALSyncCount <= report.WALBatches

\* sample k is number k + 1; the ring has the last Slots of them, each in its place
RingHolds ==
  /\ submits.next = submits.count
  /\ \A k \in Nat : k < submits.count /\ submits.count <= k + Slots
                      => submits.slots[k % Slots] = k + 1

WindowTaken ==
  LET n == report.SubmitCount
  IN  rpc # "submits" =>
        report.window = [i \in 1..Min({n, Slots}) |-> n - Min({n, Slots}) + i]

-----------------------------------------------------------------------------
(***************************************************************************)
(* The high-water mark.                                                    *)
(***************************************************************************)
MarkInv == ClientTypes /\ SwapRaises /\ HWMIsLargest

LEMMA MarkStep ==
  ASSUME MarkInv, NEW c \in Clients, Submit(c) \/ Load(c) \/ CompareAndSwap(c)
  PROVE  MarkInv'
<1> USE DEF MarkInv
<1>1. CASE Submit(c)
  <2>1. /\ client[c] = "submit"
        /\ \E d \in Nat : depth' = [depth EXCEPT ![c] = d]
        /\ client' = [client EXCEPT ![c] = "load"] \/ client' = [client EXCEPT ![c] = "done"]
        /\ stage' = [stage EXCEPT ![c] = "sent"] \/ stage' = stage
        /\ UNCHANGED <<current, raised, hwm>>
    <3>1. CASE UNCHANGED depth
      <4>1. depth = [depth EXCEPT ![c] = depth[c]] /\ depth[c] \in Nat
        BY DEF ClientTypes
      <4>. QED BY <1>1, <3>1, <4>1 DEF Submit
    <3>2. CASE \E d \in Depths : depth' = [depth EXCEPT ![c] = d]
      BY <1>1, <3>2, MetricsAssumption DEF Submit
    <3>. QED BY <1>1, <3>1, <3>2 DEF Submit
  <2>2. ClientTypes'
    BY <2>1 DEF ClientTypes
  <2>3. SwapRaises'
    BY <2>1 DEF ClientTypes, SwapRaises
  <2>4. depth[c] = 0 /\ \A e \in Clients : e # c => depth'[e] = depth[e]
    BY <2>1 DEF ClientTypes, SwapRaises
  <2>5. HWMIsLargest'
    BY <2>1, <2>4 DEF HWMIsLargest
  <2>. QED BY <2>2, <2>3, <2>5
<1>2. CASE Load(c) \/ CompareAndSwap(c)
  <2>1. CASE Raised(c) /\ UNCHANGED <<stage, hwm>> /\ depth[c] <= hwm
    <3>1. ClientTypes'
      BY <2>1 DEF Raised, ClientTypes
    <3>2. SwapRaises'
      BY <2>1 DEF Raised, ClientTypes, SwapRaises
    <3>3. \A e \in Clients : e # c => depth'[e] = depth[e]
      BY <2>1 DEF Raised, ClientTypes
    <3>4. HWMIsLargest'
      BY <2>1, <3>3 DEF Raised, HWMIsLargest
    <3>. QED BY <3>1, <3>2, <3>4
  <2>2. CASE Raised(c) /\ UNCHANGED stage /\ hwm' = depth[c] /\ hwm < depth[c]
    <3>1. ClientTypes'
      BY <2>2 DEF Raised, ClientTypes
    <3>2. SwapRaises'
      BY <2>2 DEF Raised, ClientTypes, SwapRaises
    <3>3. \A d \in raised : d <= hwm'
      BY <2>2 DEF ClientTypes, HWMIsLargest
    <3>4. HWMIsLargest'
      BY <2>2, <3>1, <3>3 DEF Raised, ClientTypes, HWMIsLargest
    <3>. QED BY <3>1, <3>2, <3>4
  <2>3. CASE /\ client' = [client EXCEPT ![c] = "swap"] \/ client' = [client EXCEPT ![c] = "load"]
             /\ \/ current' = [current EXCEPT ![c] = hwm] /\ hwm < depth[c]
                \/ current' = current /\ client'[c] = "load"
             /\ UNCHANGED <<depth, raised, hwm, stage>>
    <3>1. ClientTypes'
      BY <2>3 DEF ClientTypes
    <3>2. SwapRaises'
      BY <2>3 DEF ClientTypes, SwapRaises
    <3>3. HWMIsLargest'
      BY <2>3 DEF HWMIsLargest
    <3>. QED BY <3>1, <3>2, <3>3
  <2>4. CASE Load(c)
    BY <2>1, <2>3, <2>4 DEF Load, ClientTypes
  <2>5. CASE CompareAndSwap(c)
    <3>1. client[c] = "swap" /\ current[c] < depth[c] /\ UNCHANGED stage
      BY <2>5 DEF CompareAndSwap, SwapRaises
    <3>2. CASE hwm = current[c] /\ hwm' = depth[c] /\ Raised(c)
      BY <2>2, <3>1, <3>2
    <3>3. CASE client' = [client EXCEPT ![c] = "load"] /\ UNCHANGED <<depth, current, raised, hwm>>
      BY <2>3, <3>1, <3>3 DEF ClientTypes
    <3>. QED BY <2>5, <3>2, <3>3 DEF CompareAndSwap
  <2>. QED BY <1>2, <2>4, <2>5
<1>. QED BY <1>1, <1>2

\* the steps of the others, and the end of a client
LEMMA StagesKeepTypes ==
  ASSUME ClientTypes,
         \/ \E c \in Clients : GetOutcome(c) \/ Count(c) \/ Answer(c)
         \/ SyncBatch \/ ObserveWALBatch \/ ObserveWALSyncLatency
         \/ Report /\ UNCHANGED <<clientVars, stage, counters, hwm, walVars, submits>>
         \/ UNCHANGED collectorVars
  PROVE  /\ ClientTypes'
         /\ \A c \in Clients : client'[c] \in {client[c], "done"}
         /\ UNCHANGED <<depth, current, raised, hwm>>
<1>1. ASSUME NEW c \in Clients, GetOutcome(c)
      PROVE  /\ client' = [client EXCEPT ![c] = "done"]
             /\ UNCHANGED <<depth, current, raised, stage, hwm>>
  BY <1>1 DEF GetOutcome
<1>2. ASSUME NEW c \in Clients, Count(c) \/ Answer(c)
      PROVE  /\ \E v \in {"counted", "answered", "failed"} : stage' = [stage EXCEPT ![c] = v]
             /\ UNCHANGED <<client, depth, current, raised, hwm>>
  BY <1>2 DEF Count, Answer, clientVars
<1>3. ASSUME SyncBatch
      PROVE  /\ \E cs \in SUBSET Clients :
                  stage' = [c \in Clients |-> IF c \in cs THEN "acked" ELSE stage[c]]
             /\ UNCHANGED <<client, depth, current, raised, hwm>>
  BY <1>3 DEF SyncBatch, clientVars
<1>4. ASSUME \/ ObserveWALBatch \/ ObserveWALSyncLatency
             \/ Report /\ UNCHANGED <<clientVars, stage, counters, hwm, walVars, submits>>
             \/ UNCHANGED collectorVars
      PROVE  UNCHANGED <<client, depth, current, raised, stage, hwm>>
  BY <1>4, Zenon DEF ObserveWALBatch, ObserveWALSyncLatency, collectorVars, clientVars
<1>5. CASE \E c \in Clients : GetOutcome(c)
  BY <1>1, <1>5 DEF ClientTypes
<1>6. CASE \E c \in Clients : Count(c) \/ Answer(c)
  BY <1>2, <1>6 DEF ClientTypes
<1>7. CASE SyncBatch
  BY <1>3, <1>7 DEF ClientTypes
<1>8. CASE UNCHANGED <<client, depth, current, raised, stage, hwm>>
  BY <1>8 DEF ClientTypes
<1>. QED BY <1>4, <1>5, <1>6, <1>7, <1>8

LEMMA MarkNext == MarkInv /\ [CollectorNext]_collectorVars => MarkInv'
<1> SUFFICES ASSUME MarkInv, [CollectorNext]_collectorVars PROVE MarkInv'
  OBVIOUS
<1>1. CASE \E c \in Clients : Submit(c) \/ Load(c) \/ CompareAndSwap(c)
  BY <1>1, MarkStep
<1>2. CASE \/ \E c \in Clients : GetOutcome(c) \/ Count(c) \/ Answer(c)
           \/ SyncBatch \/ ObserveWALBatch \/ ObserveWALSyncLatency
           \/ Report /\ UNCHANGED <<clientVars, stage, counters, hwm, walVars, submits>>
           \/ UNCHANGED collectorVars
  <2>1. /\ ClientTypes'
        /\ \A c \in Clients : client'[c] \in {client[c], "done"}
        /\ UNCHANGED <<depth, current, raised, hwm>>
    BY <1>2, StagesKeepTypes DEF MarkInv
  <2>2. SwapRaises' /\ HWMIsLargest'
    BY <2>1 DEF MarkInv, SwapRaises, HWMIsLargest
  <2>. QED BY <2>1, <2>2 DEF MarkInv
<1>. QED BY <1>1, <1>2 DEF CollectorNext, Observe

LEMMA InitMark == CollectorInit => MarkInv
BY DEF CollectorInit, MarkInv, ClientTypes, SwapRaises, HWMIsLargest

\* However many clients update it at once, the mark is the largest depth for which
\* updateHWM has returned, or a depth that a client is observing.
THEOREM HWMIsLargestAlways == CollectorSpec => []HWMIsLargest
<1>1. MarkInv => HWMIsLargest
  BY DEF MarkInv
<1>. QED BY <1>1, InitMark, MarkNext, PTL DEF CollectorSpec

-----------------------------------------------------------------------------
(***************************************************************************)
(* The sums and the window of a report.                                    *)
(***************************************************************************)
LEMMA RemainderType ==
  ASSUME NEW k \in Nat
  PROVE  k % Slots \in 0..(Slots - 1)
BY MetricsAssumption

LEMMA MinOfTwo ==
  ASSUME NEW a \in Nat, NEW b \in Nat
  PROVE  Min({a, b}) = IF a <= b THEN a ELSE b
BY DEF Min

\* samples closer than the length of the ring are in different slots
LEMMA SlotsDiffer ==
  ASSUME NEW k \in Nat, NEW n \in Nat, k < n, n < k + Slots
  PROVE  k % Slots # n % Slots
<1> SUFFICES ASSUME k % Slots = n % Slots PROVE FALSE
  OBVIOUS
<1> DEFINE S == Slots
<1>0. S \in Nat \ {0}
  BY MetricsAssumption
<1> HIDE DEF S
<1>1. k \div S \in Int /\ n \div S \in Int
  BY <1>0
<1>2. k = S * (k \div S) + (k % S) /\ n = S * (n \div S) + (n % S)
  BY <1>0
<1>3. PICK q \in Int, p \in Int : /\ k = S * q + (k % S)
                                 /\ n = S * p + (n % S)
  BY <1>1, <1>2
<1>4. PICK d \in Int : d = p - q
  BY <1>3
<1>5. n - k = S * p - S * q
  BY <1>0, <1>3 DEF S
<1>6. S * p - S * q = S * d
  BY <1>0, <1>4
<1>7. d <= 0 => S * d <= 0
  BY <1>0
<1>8. d >= 1 => S * d >= S
  BY <1>0
<1>. QED BY <1>0, <1>5, <1>6, <1>7, <1>8 DEF S

CollectorInv ==
  /\ CollectorTypes /\ DoneAnswered /\ Tallies /\ ReportSoFar /\ RingHolds /\ WindowTaken

LEMMA InitCollector == CollectorInit => CollectorInv
<1> SUFFICES ASSUME CollectorInit PROVE CollectorInv
  OBVIOUS
<1>1. CollectorTypes
  BY MetricsAssumption DEF CollectorInit, CollectorTypes, Stats, NoStats
<1>2. DoneAnswered
  BY DEF CollectorInit, DoneAnswered
<1>3. Counted = {} /\ Sampled = {}
  BY DEF CollectorInit, Counted, Sampled
<1>4. Tallies
  BY <1>3, FS_EmptySet DEF CollectorInit, Tallies
<1>5. ReportSoFar /\ WindowTaken
  BY DEF CollectorInit, ReportSoFar, WindowTaken
<1>6. RingHolds
  BY DEF CollectorInit, RingHolds
<1>. QED BY <1>1, <1>2, <1>4, <1>5, <1>6 DEF CollectorInv

\* a step that counts and samples nothing
LEMMA NothingCounted ==
  ASSUME CollectorInv, DoneAnswered', Counted' = Counted, Sampled' = Sampled,
         wpc' = wpc \/ wpc' = "batches",
         UNCHANGED <<accepted, rejected, batches, syncs, submits, report, rpc>>
  PROVE  CollectorInv'
<1>1. CollectorTypes'
  BY DEF CollectorInv, CollectorTypes
<1>2. Tallies'
  BY DEF CollectorInv, Tallies
<1>3. ReportSoFar' /\ RingHolds' /\ WindowTaken'
  BY DEF CollectorInv, ReportSoFar, RingHolds, WindowTaken
<1>. QED BY <1>1, <1>2, <1>3 DEF CollectorInv

LEMMA ClientCollects ==
  ASSUME ClientTypes, CollectorInv, NEW c \in Clients,
         Submit(c) \/ Load(c) \/ CompareAndSwap(c) \/ Answer(c) \/ SyncBatch
  PROVE  CollectorInv'
<1> USE DEF CollectorInv
<1>1. CASE Submit(c)
  <2>1. /\ client[c] = "submit" /\ stage[c] = "none"
        /\ \/ client' = [client EXCEPT ![c] = "load"] /\ stage' = [stage EXCEPT ![c] = "sent"]
           \/ client' = [client EXCEPT ![c] = "done"] /\ stage' = stage
        /\ UNCHANGED <<accepted, rejected, batches, syncs, wpc, submits, report, rpc>>
    BY <1>1 DEF Submit, DoneAnswered, walVars, reportVars
  <2>2. Counted' = Counted /\ Sampled' = Sampled
    BY <2>1 DEF Counted, Sampled, ClientTypes
  <2>3. DoneAnswered'
    BY <2>1 DEF DoneAnswered, ClientTypes
  <2>. QED BY <2>1, <2>2, <2>3, NothingCounted
<1>2. CASE Load(c) \/ CompareAndSwap(c)
  <2>1. /\ client[c] \in {"load", "swap"}
        /\ \E l \in {"load", "swap", "wait"} : client' = [client EXCEPT ![c] = l]
        /\ UNCHANGED <<stage, accepted, rejected, batches, syncs, wpc, submits, report, rpc>>
    BY <1>2 DEF Load, CompareAndSwap, Raised, counters, walVars, reportVars
  <2>2. Counted' = Counted /\ Sampled' = Sampled
    BY <2>1 DEF Counted, Sampled, ClientTypes
  <2>3. DoneAnswered'
    BY <2>1 DEF DoneAnswered, ClientTypes
  <2>. QED BY <2>1, <2>2, <2>3, NothingCounted
<1>3. CASE Answer(c)
  <2>1. /\ \/ stage[c] = "counted" /\ stage' = [stage EXCEPT ![c] = "answered"]
           \/ stage[c] \in {"sent", "acked"} /\ stage' = [stage EXCEPT ![c] = "failed"]
        /\ UNCHANGED <<client, accepted, rejected, batches, syncs, wpc, submits, report, rpc>>
    BY <1>3 DEF Answer, clientVars, counters, walVars, reportVars
  <2>2. client[c] # "done" /\ client[c] # "submit"
    BY <2>1 DEF DoneAnswered
  <2>3. Counted' = Counted /\ Sampled' = Sampled
    BY <2>1, <2>2 DEF Counted, Sampled, ClientTypes
  <2>4. DoneAnswered'
    BY <2>1, <2>2 DEF DoneAnswered, ClientTypes
  <2>. QED BY <2>1, <2>3, <2>4, NothingCounted
<1>4. CASE SyncBatch
  <2>1. PICK cs \in SUBSET {d \in Clients : stage[d] = "sent"} :
          stage' = [d \in Clients |-> IF d \in cs THEN "acked" ELSE stage[d]]
    BY <1>4 DEF SyncBatch
  <2>2. wpc' = "batches" /\ UNCHANGED <<client, accepted, rejected, batches, syncs, submits, report, rpc>>
    BY <1>4 DEF SyncBatch, clientVars, counters, reportVars
  <2>3. \A d \in Clients : stage'[d] = stage[d] \/ (stage[d] = "sent" /\ stage'[d] = "acked")
    BY <2>1
  <2>4. Counted' = Counted /\ Sampled' = Sampled
    BY <2>2, <2>3 DEF Counted, Sampled
  <2>5. DoneAnswered'
    BY <2>2, <2>3 DEF DoneAnswered
  <2>. QED BY <2>2, <2>4, <2>5, NothingCounted
<1>. QED BY <1>1, <1>2, <1>3, <1>4

LEMMA CountCollects ==
  ASSUME ClientTypes, CollectorInv, NEW c \in Clients, Count(c)
  PROVE  CollectorInv'
<1> USE DEF CollectorInv
<1>1. /\ stage[c] \in {"sent", "acked"}
      /\ stage' = [stage EXCEPT ![c] = "counted"]
      /\ \/ accepted' = accepted + 1 /\ rejected' = rejected
         \/ rejected' = rejected + 1 /\ accepted' = accepted
      /\ UNCHANGED <<client, batches, syncs, wpc, submits, report, rpc>>
  BY DEF Count, clientVars, walVars, reportVars
<1>2. client[c] # "done" /\ client[c] # "submit"
  BY <1>1 DEF DoneAnswered
<1>3. Counted' = Counted \cup {c} /\ c \notin Counted /\ Sampled' = Sampled
  BY <1>1 DEF Counted, Sampled, ClientTypes
<1>4. CollectorTypes'
  BY <1>1 DEF CollectorTypes
<1>5. DoneAnswered'
  BY <1>1, <1>2 DEF DoneAnswered, ClientTypes
<1>6. Cardinality(Counted') = Cardinality(Counted) + 1
  <2>1. IsFiniteSet(Counted)
    BY MetricsAssumption, FS_Subset DEF Counted
  <2>. QED BY <1>3, <2>1, FS_AddElement
<1>7. Tallies'
  BY <1>1, <1>3, <1>6 DEF Tallies, CollectorTypes
<1>8. report.SubmitCount \in Nat /\ report.Accepted \in Nat
  BY DEF CollectorTypes, Stats
<1>9. ReportSoFar'
  BY <1>1, <1>8 DEF ReportSoFar, CollectorTypes
<1>10. RingHolds' /\ WindowTaken'
  BY <1>1 DEF RingHolds, WindowTaken
<1>. QED BY <1>4, <1>5, <1>7, <1>9, <1>10

LEMMA GetOutcomeCollects ==
  ASSUME ClientTypes, CollectorInv, NEW c \in Clients, GetOutcome(c)
  PROVE  CollectorInv'
<1> USE DEF CollectorInv
<1>1. /\ client[c] = "wait" /\ stage[c] \in {"answered", "failed"}
      /\ client' = [client EXCEPT ![c] = "done"]
      /\ UNCHANGED <<stage, accepted, rejected, batches, syncs, wpc, report, rpc>>
  BY DEF GetOutcome, counters, walVars, reportVars
<1>2. Counted' = Counted
  BY <1>1 DEF Counted
<1>3. DoneAnswered'
  BY <1>1 DEF DoneAnswered, ClientTypes
<1>4. CASE stage[c] = "failed"
  <2>1. submits' = submits
    BY <1>4 DEF GetOutcome
  <2>2. Sampled' = Sampled
    BY <1>1, <1>4 DEF Sampled, ClientTypes
  <2>. QED BY <1>1, <1>2, <1>3, <2>1, <2>2, NothingCounted
<1>5. CASE stage[c] = "answered"
  <2> DEFINE n == submits.count
  <2>1. submits' = add(submits, n + 1)
    BY <1>5 DEF GetOutcome
  <2>2. n \in Nat /\ submits.next = n /\ submits.slots \in [0..(Slots - 1) -> Nat]
    BY DEF CollectorTypes, RingHolds
  <2>3. n % Slots \in 0..(Slots - 1)
    BY <2>2, RemainderType
  <2>4. /\ submits'.count = n + 1 /\ submits'.next = n + 1
        /\ submits'.slots = [submits.slots EXCEPT ![n % Slots] = n + 1]
    BY <2>1, <2>2 DEF add
  <2>5. submits' \in [count : Nat, next : Nat, slots : [0..(Slots - 1) -> Nat]]
    BY <2>1, <2>2, <2>3 DEF add
  <2> HIDE DEF n
  <2>6. CollectorTypes'
    BY <1>1, <2>5 DEF CollectorTypes
  <2>7. Sampled' = Sampled \cup {c} /\ c \notin Sampled
    BY <1>1, <1>5 DEF Sampled, ClientTypes
  <2>8. Cardinality(Sampled') = Cardinality(Sampled) + 1
    <3>1. IsFiniteSet(Sampled)
      BY MetricsAssumption, FS_Subset DEF Sampled
    <3>. QED BY <2>7, <3>1, FS_AddElement
  <2>9. Tallies'
    BY <1>1, <1>2, <2>4, <2>8 DEF Tallies, n
  <2>10. ASSUME NEW k \in Nat, k < n + 1, n + 1 <= k + Slots
         PROVE  submits'.slots[k % Slots] = k + 1
    <3>1. CASE k = n
      BY <2>2, <2>3, <2>4, <3>1
    <3>2. CASE k # n
      <4>1. k < n /\ n <= k + Slots /\ n < k + Slots
        BY <2>2, <2>10, <3>2, MetricsAssumption
      <4>2. submits.slots[k % Slots] = k + 1
        BY <4>1 DEF RingHolds, n
      <4>3. k % Slots # n % Slots /\ k % Slots \in 0..(Slots - 1)
        BY <2>2, <4>1, SlotsDiffer, RemainderType
      <4>. QED BY <2>2, <2>4, <4>2, <4>3
    <3>. QED BY <3>1, <3>2
  <2>11. RingHolds'
    BY <2>4, <2>10 DEF RingHolds
  <2>12. ReportSoFar' /\ WindowTaken'
    BY <1>1 DEF ReportSoFar, WindowTaken
  <2>. QED BY <1>3, <2>6, <2>9, <2>11, <2>12
<1>. QED BY <1>1, <1>4, <1>5

LEMMA WriterCollects ==
  ASSUME CollectorInv, ObserveWALBatch \/ ObserveWALSyncLatency
  PROVE  CollectorInv'
<1> USE DEF CollectorInv
<1>1. /\ \/ wpc = "batches" /\ batches' = batches + 1 /\ wpc' = "sync" /\ syncs' = syncs
         \/ wpc = "sync" /\ syncs' = syncs + 1 /\ wpc' = "batch" /\ batches' = batches
      /\ UNCHANGED <<client, stage, accepted, rejected, submits, report, rpc>>
  BY DEF ObserveWALBatch, ObserveWALSyncLatency, clientVars, counters, reportVars
<1>2. CollectorTypes'
  BY <1>1 DEF CollectorTypes
<1>3. Counted' = Counted /\ Sampled' = Sampled /\ DoneAnswered'
  BY <1>1 DEF Counted, Sampled, DoneAnswered
<1>4. Tallies'
  BY <1>1, <1>3 DEF Tallies, CollectorTypes
<1>5. report.WALSyncCount \in Nat
  BY DEF CollectorTypes, Stats
<1>6. ReportSoFar'
  BY <1>1, <1>5 DEF ReportSoFar, CollectorTypes
<1>7. RingHolds' /\ WindowTaken'
  BY <1>1 DEF RingHolds, WindowTaken
<1>. QED BY <1>2, <1>3, <1>4, <1>6, <1>7

\* the ring gives the latest samples in their order
LEMMA SnapshotLatest ==
  ASSUME CollectorTypes, RingHolds
  PROVE  LET n == submits.count
         IN  snapshot(submits) = [i \in 1..Min({n, Slots}) |-> n - Min({n, Slots}) + i]
<1> DEFINE n == submits.count
           l == Min({n, Slots})
<1>1. n \in Nat /\ submits.next = n /\ Slots \in Nat
  BY MetricsAssumption DEF CollectorTypes, RingHolds
<1>2. l \in Nat /\ l <= n /\ l <= Slots
  BY <1>1, MinOfTwo
<1>3. Min({Slots, n}) = l
  BY <1>1, MinOfTwo
<1> HIDE DEF l
<1>4. snapshot(submits) = [i \in 1..l |-> submits.slots[(n - l + i - 1) % Slots]]
  BY <1>1, <1>3 DEF snapshot
<1>5. ASSUME NEW i \in 1..l
      PROVE  submits.slots[(n - l + i - 1) % Slots] = n - l + i
  <2>1. PICK k \in Nat : k = n - l + i - 1
    BY <1>1, <1>2
  <2>2. k < n /\ n <= k + Slots /\ k + 1 = n - l + i
    BY <1>1, <1>2, <2>1
  <2>3. submits.slots[k % Slots] = k + 1
    BY <2>2 DEF RingHolds
  <2>. QED BY <2>1, <2>2, <2>3
<1>6. snapshot(submits) = [i \in 1..l |-> n - l + i]
  BY <1>4, <1>5
<1>. QED BY <1>6 DEF l

LEMMA ReportCollects ==
  ASSUME ClientTypes, CollectorInv, Report,
         UNCHANGED <<clientVars, stage, counters, hwm, walVars, submits>>
  PROVE  CollectorInv'
<1> USE DEF CollectorInv
<1>1. UNCHANGED <<client, stage, accepted, rejected, batches, syncs, wpc, submits>>
  BY DEF clientVars, counters, walVars
<1>2. Counted' = Counted /\ Sampled' = Sampled /\ DoneAnswered'
  BY <1>1 DEF Counted, Sampled, DoneAnswered
<1>3. Tallies'
  BY <1>1, <1>2 DEF Tallies
<1>4. RingHolds'
  BY <1>1 DEF RingHolds
<1>5. /\ accepted \in Nat /\ rejected \in Nat /\ batches \in Nat /\ syncs \in Nat
      /\ submits.count \in Nat /\ report \in Stats
  BY DEF CollectorTypes
<1>6. CASE /\ rpc = "submits" /\ rpc' = "syncs"
           /\ report' = [report EXCEPT !.SubmitCount = submits.count,
                                       !.window = snapshot(submits)]
  <2> DEFINE n == submits.count
  <2>1. snapshot(submits) = [i \in 1..Min({n, Slots}) |-> n - Min({n, Slots}) + i]
    BY SnapshotLatest
  <2>2. Min({n, Slots}) \in Nat /\ Min({n, Slots}) <= n
    BY <1>5, MetricsAssumption, MinOfTwo
  <2>3. snapshot(submits) \in Seq(Nat)
    <3> DEFINE l == Min({n, Slots})
    <3> HIDE DEF l
    <3>1. [i \in 1..l |-> n - l + i] \in [1..l -> Nat]
      BY <1>5, <2>2 DEF l
    <3>2. snapshot(submits) = [i \in 1..l |-> n - l + i] /\ l \in Nat
      BY <2>1, <2>2 DEF l
    <3>3. snapshot(submits) \in [1..l -> Nat]
      BY <3>1, <3>2
    <3>. QED BY <3>2, <3>3
  <2>4. /\ report' \in Stats
        /\ report'.SubmitCount = n /\ report'.window = snapshot(submits)
    BY <1>5, <1>6, <2>3 DEF Stats
  <2>5. Cardinality(Sampled) <= Cardinality(Counted)
    <3>1. Sampled \subseteq Counted /\ IsFiniteSet(Counted)
      BY MetricsAssumption, FS_Subset DEF Sampled, Counted
    <3>. QED BY <3>1, FS_Subset
  <2>6. ReportSoFar'
    BY <1>1, <1>6, <2>4, <2>5 DEF ReportSoFar, Tallies
  <2>7. WindowTaken'
    BY <2>1, <2>4 DEF WindowTaken
  <2>8. CollectorTypes'
    BY <1>1, <1>6, <2>4 DEF CollectorTypes
  <2>. QED BY <1>2, <1>3, <1>4, <2>6, <2>7, <2>8
<1>7. ASSUME rpc # "submits", rpc' # "submits",
             report' \in Stats, report'.SubmitCount = report.SubmitCount,
             report'.window = report.window,
             rpc' \in {"syncs", "accepted", "rejected", "batches", "loaded"},
             ReportSoFar'
      PROVE  CollectorInv'
  <2>1. WindowTaken'
    BY <1>7 DEF WindowTaken
  <2>2. CollectorTypes'
    BY <1>1, <1>7 DEF CollectorTypes
  <2>. QED BY <1>2, <1>3, <1>4, <1>7, <2>1, <2>2
<1>8. CASE Loads("WALSyncCount", syncs, "syncs", "accepted")
  <2>1. rpc = "syncs" /\ rpc' = "accepted" /\ report' = [report EXCEPT !.WALSyncCount = syncs]
    BY <1>8 DEF Loads
  <2>2. ReportSoFar'
    BY <1>1, <1>5, <2>1 DEF ReportSoFar, Tallies, Stats
  <2>. QED BY <1>5, <1>7, <2>1, <2>2 DEF Stats
<1>9. CASE Loads("Accepted", accepted, "accepted", "rejected")
  <2>1. rpc = "accepted" /\ rpc' = "rejected" /\ report' = [report EXCEPT !.Accepted = accepted]
    BY <1>9 DEF Loads
  <2>2. ReportSoFar'
    BY <1>1, <1>5, <2>1 DEF ReportSoFar, Stats
  <2>. QED BY <1>5, <1>7, <2>1, <2>2 DEF Stats
<1>10. CASE Loads("Rejected", rejected, "rejected", "batches")
  <2>1. rpc = "rejected" /\ rpc' = "batches" /\ report' = [report EXCEPT !.Rejected = rejected]
    BY <1>10 DEF Loads
  <2>2. ReportSoFar'
    BY <1>1, <1>5, <2>1 DEF ReportSoFar, Stats
  <2>. QED BY <1>5, <1>7, <2>1, <2>2 DEF Stats
<1>11. CASE Loads("WALBatches", batches, "batches", "loaded")
  <2>1. rpc = "batches" /\ rpc' = "loaded" /\ report' = [report EXCEPT !.WALBatches = batches]
    BY <1>11 DEF Loads
  <2>2. ReportSoFar'
    BY <1>1, <1>5, <2>1 DEF ReportSoFar, Stats
  <2>. QED BY <1>5, <1>7, <2>1, <2>2 DEF Stats
<1>. QED BY <1>6, <1>8, <1>9, <1>10, <1>11 DEF Report, LoadReservoirs, LoadCounters

LEMMA CollectorStep == MarkInv /\ CollectorInv /\ [CollectorNext]_collectorVars => CollectorInv'
<1> SUFFICES ASSUME MarkInv, CollectorInv, [CollectorNext]_collectorVars PROVE CollectorInv'
  OBVIOUS
<1>1. ClientTypes
  BY DEF MarkInv
<1>2. CASE SyncBatch
  <2>1. PICK c \in Clients : TRUE
    BY <1>2 DEF SyncBatch
  <2>. QED BY <1>1, <1>2, <2>1, ClientCollects
<1>3. CASE UNCHANGED collectorVars
  <2>1. UNCHANGED <<client, stage, accepted, rejected, batches, syncs, wpc, submits, report, rpc>>
    BY <1>3 DEF collectorVars, clientVars, counters, walVars, reportVars
  <2>2. Counted' = Counted /\ Sampled' = Sampled /\ DoneAnswered'
    BY <2>1 DEF Counted, Sampled, DoneAnswered, CollectorInv
  <2>. QED BY <2>1, <2>2, NothingCounted
<1>. QED BY <1>1, <1>2, <1>3, ClientCollects, CountCollects, GetOutcomeCollects,
            WriterCollects, ReportCollects DEF CollectorNext, Observe

\* Collector.Snapshot reads one field after the other while clients, loop and writer go
\* on, and what it returns adds up all the same.
THEOREM ReportAddsUpAlways == CollectorSpec => []ReportAddsUp
<1>1. CollectorInv => ReportAddsUp
  BY DEF CollectorInv, ReportSoFar, ReportAddsUp
<1>. QED BY <1>1, InitMark, InitCollector, MarkNext, CollectorStep, PTL DEF CollectorSpec

\* reservoir.snapshot gives the latest samples, oldest first, however often add has gone
\* round the ring.
THEOREM WindowIsLatestAlways == CollectorSpec => []WindowIsLatest
<1>1. CollectorInv => WindowIsLatest
  BY DEF CollectorInv, WindowTaken, WindowIsLatest
<1>. QED BY <1>1, InitMark, InitCollector, MarkNext, CollectorStep, PTL DEF CollectorSpec
=============================================================================
