------------------------------- MODULE MCLive --------------------------------
(***************************************************************************)
(* Liveness of the calls of Engine, and of the load generator, whose       *)
(* producers live on such calls.  The two share no state: a behaviour is   *)
(* one of the engine, while the load generator rests, or the converse.     *)
(***************************************************************************)
EXTENDS MCEngine

CONSTANTS Producers, MaxCommands  \* of Loadgen

VARIABLES producer, active, samples, expired, attempted, processed, accepted, rejected,
          failures, nextOrderID, batches, main, collected, canceled

Load == INSTANCE Loadgen WITH pc <- producer, failed <- failures

loadVars == <<producer, active, samples, expired, attempted, processed, accepted, rejected,
              failures, nextOrderID, batches, main, collected, canceled>>

\* a behaviour of the engine has three calls, one of them a command: a or b, which go to
\* different shards; of the others bar is a barrier, d and e are snapshots, and z and y
\* shutdowns, of which z, the one that may expire, comes with y
Mixes ==
  {M \in kSubset(3, Calls) : Cardinality(M \cap Cmds) = 1 /\ (z \in M => y \in M)}

LiveScenarios ==
  [loadgen : {FALSE}, made : Mixes] \cup [loadgen : {TRUE}, made : {{}}]

LiveInit == Init /\ Load!Init /\ scenario \in LiveScenarios

LiveNext ==
  /\ UNCHANGED scenario
  /\ \/ /\ ~scenario.loadgen
        /\ Next
        /\ \A c \in Calls \ scenario.made : pc'[c] = pc[c]
        /\ UNCHANGED loadVars
     \/ scenario.loadgen /\ Load!Next /\ UNCHANGED vars

\* Before the first call nothing that Fairness obliges to happen can happen.
LiveSpec ==
  /\ LiveInit
  /\ [][LiveNext]_<<vars, loadVars, scenario>>
  /\ Fairness
  /\ scenario.loadgen => Load!Fairness

-----------------------------------------------------------------------------
(***************************************************************************)
(* The properties of Loadgen.                                              *)
(***************************************************************************)
\* The counters and samples that main of the load generator prints add up.
ReportBalances == Load!ReportBalances

\* A producer of the load generator cancels and replaces only orders that it has sent and
\* not cancelled.
OrdersOwned == Load!OrdersOwned

\* The load generator ends with a report, whatever its producers are doing when the
\* context expires, unless one of them is in a Submit that never returns.
ReportComes == scenario.loadgen => Load!ReportComes
=============================================================================
