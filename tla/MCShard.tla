------------------------------- MODULE MCShard -------------------------------
(***************************************************************************)
(* Small instances of Shard for TLC.                                       *)
(***************************************************************************)
EXTENDS Shard, FiniteSets, TLC

\* every command is for one symbol: the commands are interchangeable
OneSymbol == [c \in Cmds |-> "a"]
CommandSymmetry == Permutations(Cmds \ Unencodable)

\* the commands that cannot be encoded are those of a symbol of their own, whose
\* name is too long for the record
LongSymbol == [c \in Cmds |-> IF c \in Unencodable THEN "long" ELSE "a"]

\* for answers and shutdown: one process, which nothing ends
ProcessNext ==
  \/ Send \/ CloseInbox
  \/ Loop
  \/ Writer \/ Fault
  \/ CreateSnapshot \/ ReleaseDrain

ProcessSpec == Init /\ [][ProcessNext]_vars /\ Fairness
=============================================================================
