------------------------------ MODULE MCEngine -------------------------------
(***************************************************************************)
(* Small instances of Engine for TLC.                                      *)
(***************************************************************************)
EXTENDS Engine

CONSTANTS a, b, t, x,   \* commands
          bar, d, e,    \* a barrier and two snapshots
          z, y          \* shutdowns

TwoShards == {1, 2}

\* x has a symbol that is not registered
Routing == [c \in Cmds |-> IF c = x THEN 0 ELSE IF c = b THEN 2 ELSE 1]

-----------------------------------------------------------------------------
(***************************************************************************)
(* Two kinds of scenario in one run: calls of every kind on a shard that   *)
(* may fail, with contexts that expire and a shutdown; and a crash and     *)
(* restart with more commands than there are numbers, where no log fails   *)
(* and no command expires.  A behaviour has any four of the five calls of  *)
(* its kind.                                                               *)
(***************************************************************************)
VARIABLE scenario

Scenarios ==
  [crash : {FALSE}, made : kSubset(4, {a, b, bar, d, z})]
    \cup [crash : {TRUE}, made : kSubset(4, {a, b, t, x, e})]

MCInit == Init /\ scenario \in Scenarios

MCNext ==
  /\ Next
  /\ UNCHANGED scenario
  /\ \A c \in Calls \ scenario.made : pc'[c] = pc[c]
  /\ ~scenario.crash => UNCHANGED crashes
  /\ scenario.crash /\ up' => UNCHANGED failed /\ ret'[a] # "ctx"

MCSpec == MCInit /\ [][MCNext]_<<vars, scenario>>
=============================================================================
