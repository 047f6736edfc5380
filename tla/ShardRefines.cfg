\* One shard through faults, two crashes and a snapshot, by itself and against Loops.
SPECIFICATION RSpec
CONSTANTS
  Cmds = {c1, c2, u}
  Unencodable = {u}
  QueueSize = 1
  MaxBatchCommands = 2
  SegmentMax = 1
  Faults = {"open", "rotate", "write", "sync"}
  Symbols = {"a", "long"}
  SymbolOf <- LongSymbol
  InboxSize = 1
  MaxPending = 2
  MaxControls = 1
  MaxCrashes = 2
INVARIANTS TypeOK AckedDurable RepliedOnce LogReplays SnapshotExact AckedExecuted RefusedOnlyIfTornOrLost
PROPERTIES FailStop ImplementsLoops
SYMMETRY CommandSymmetry
CHECK_DEADLOCK FALSE
