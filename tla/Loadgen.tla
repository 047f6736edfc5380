------------------------------- MODULE Loadgen --------------------------------
(***************************************************************************)
(* The load generator (cmd/loadgen/main.go): producers that submit random  *)
(* commands until the run's context expires, and main, which collects      *)
(* their latencies and reports.                                            *)
(*                                                                         *)
(* The engine answers a Submit with a result, rejected or not, or with an  *)
(* error.  A command is what it does to the order ids; a batch of          *)
(* latencies is its length.                                                *)
(***************************************************************************)
EXTENDS Integers, Sequences, SequencesExt, FiniteSets, FiniteSetsExt

CONSTANTS Producers,
          MaxCommands  \* bound: commands of a run

VARIABLES pc,          \* where each producer is
          active,      \* its activeOrders
          samples,     \* the length of its latencies
          expired,     \* runCtx is done
          attempted, processed, accepted, rejected, failed,
          nextOrderID,
          batches,     \* the channel latencyBatches
          main,        \* where main is
          collected,   \* the length of the latencies main has collected
          canceled     \* history: the orders that were cancelled

sums == <<attempted, processed, accepted, rejected, failed>>
mainVars == <<main, collected>>
vars == <<pc, active, samples, expired, sums, nextOrderID, batches, mainVars, canceled>>

Init ==
  /\ pc = [p \in Producers |-> "select"]
  /\ active = [p \in Producers |-> <<>>]
  /\ samples = [p \in Producers |-> 0]
  /\ expired = FALSE
  /\ attempted = 0 /\ processed = 0 /\ accepted = 0 /\ rejected = 0 /\ failed = 0
  /\ nextOrderID = 0
  /\ batches = <<>>
  /\ main = "wait" /\ collected = 0
  /\ canceled = {}

-----------------------------------------------------------------------------
\* a limit order, remembered for later
NewOrder(p) ==
  /\ nextOrderID' = nextOrderID + 1
  /\ active' = [active EXCEPT ![p] = Append(@, nextOrderID + 1)]
  /\ UNCHANGED canceled

\* a market order, which never rests
MarketOrder(p) ==
  /\ active[p] # <<>>
  /\ nextOrderID' = nextOrderID + 1
  /\ UNCHANGED <<active, canceled>>

\* mutant of CancelOrder: the last order is dropped, not the cancelled one
CancelOrderDropsLast(p) ==
  /\ \E i \in DOMAIN active[p] :
       /\ active' = [active EXCEPT ![p] = Front(@)]
       /\ canceled' = canceled \cup {active[p][i]}
  /\ UNCHANGED nextOrderID

\* a remembered order; the last one takes its place
CancelOrder(p) ==
  /\ \E i \in DOMAIN active[p] :
       /\ active' = [active EXCEPT ![p] = Front([@ EXCEPT ![i] = Last(active[p])])]
       /\ canceled' = canceled \cup {active[p][i]}
  /\ UNCHANGED nextOrderID

ReplaceOrder(p) == active[p] # <<>> /\ UNCHANGED <<active, nextOrderID, canceled>>

nextCommand(p) == NewOrder(p) \/ MarketOrder(p) \/ CancelOrder(p) \/ ReplaceOrder(p)

\* a tick; it may win against an expired context
Tick(p) ==
  /\ pc[p] = "select"
  /\ attempted < MaxCommands
  /\ nextCommand(p)
  /\ attempted' = attempted + 1
  /\ pc' = [pc EXCEPT ![p] = "submit"]
  /\ UNCHANGED <<samples, expired, processed, accepted, rejected, failed, batches, mainVars>>

\* Submit returns
Submitted(p) ==
  /\ pc[p] = "submit"
  /\ pc' = [pc EXCEPT ![p] = "select"]
  /\ \/ failed' = failed + 1 /\ UNCHANGED <<processed, accepted, rejected, samples>>
     \/ /\ processed' = processed + 1
        /\ \/ rejected' = rejected + 1 /\ UNCHANGED accepted
           \/ accepted' = accepted + 1 /\ UNCHANGED rejected
        /\ samples' = [samples EXCEPT ![p] = @ + 1]
        /\ UNCHANGED failed
  /\ UNCHANGED <<active, expired, attempted, nextOrderID, batches, mainVars, canceled>>

Expire ==
  /\ ~expired
  /\ expired' = TRUE
  /\ UNCHANGED <<pc, active, samples, sums, nextOrderID, batches, mainVars, canceled>>

\* mutant of capacity: room for all producers but one
capacityShort == Cardinality(Producers) - 1

capacity == Cardinality(Producers)

\* mutant of Return: the deferred calls run in the order they were written
ReturnDoneFirst(p) ==
  /\ \/ /\ pc[p] = "select" /\ expired
        /\ pc' = [pc EXCEPT ![p] = "done"]
        /\ UNCHANGED batches
     \/ /\ pc[p] = "done" /\ samples[p] > 0
        /\ Len(batches) < capacity
        /\ batches' = Append(batches, samples[p])
        /\ UNCHANGED pc
  /\ UNCHANGED <<active, samples, expired, sums, nextOrderID, mainVars, canceled>>

\* the deferred calls, last one first: the latencies are sent, then wg.Done
Return(p) ==
  /\ \/ /\ pc[p] = "select" /\ expired
        /\ Len(batches) < capacity
        /\ batches' = Append(batches, samples[p])
        /\ pc' = [pc EXCEPT ![p] = "sent"]
     \/ /\ pc[p] = "sent"
        /\ pc' = [pc EXCEPT ![p] = "done"]
        /\ UNCHANGED batches
  /\ UNCHANGED <<active, samples, expired, sums, nextOrderID, mainVars, canceled>>

-----------------------------------------------------------------------------
\* wg.Wait, then the channel is closed and emptied
Wait ==
  /\ main = "wait"
  /\ \A p \in Producers : pc[p] = "done"
  /\ main' = "collect"
  /\ UNCHANGED <<pc, active, samples, expired, sums, nextOrderID, batches, collected, canceled>>

Collect ==
  /\ main = "collect"
  /\ \/ /\ batches # <<>>
        /\ collected' = collected + Head(batches)
        /\ batches' = Tail(batches)
        /\ UNCHANGED main
     \/ batches = <<>> /\ main' = "report" /\ UNCHANGED <<collected, batches>>
  /\ UNCHANGED <<pc, active, samples, expired, sums, nextOrderID, canceled>>

Producer(p) == Tick(p) \/ Submitted(p) \/ Return(p)
Main == Wait \/ Collect

Next == (\E p \in Producers : Producer(p)) \/ Expire \/ Main

Spec == Init /\ [][Next]_vars

\* The context expires, and an expired context is seen in the end, however often the
\* ticker wins.  Submit is called with a context of its own, which never expires: it
\* returns or it does not.
Fairness ==
  /\ WF_vars(Expire) /\ WF_vars(Main)
  /\ \A p \in Producers : SF_vars(Return(p))

-----------------------------------------------------------------------------
(***************************************************************************)
(* Properties.                                                             *)
(***************************************************************************)
\* What main prints adds up, although producers run on after the context has expired:
\* every attempt is processed or failed, every processed command is accepted or
\* rejected, and has its latency among the samples.
ReportBalances ==
  main = "report" => /\ attempted = processed + failed
                     /\ processed = accepted + rejected
                     /\ collected = processed

\* A producer cancels and replaces only orders that it has sent and not cancelled, each
\* known to it once, and no two producers use one id.
OrdersOwned ==
  /\ \A p \in Producers : /\ IsInjective(active[p])
                          /\ ToSet(active[p]) \subseteq (1..nextOrderID) \ canceled
  /\ \A p, q \in Producers : p # q => ToSet(active[p]) \cap ToSet(active[q]) = {}

\* The run ends with a report, unless some Submit never returns: no producer waits to
\* hand over its latencies while main waits for the producer.
ReportComes == <>(main = "report") \/ \E p \in Producers : <>[](pc[p] = "submit")
=============================================================================
