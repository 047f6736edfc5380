\* A torn tail, a restart, and another restart.
SPECIFICATION Spec
CONSTANTS
  Cmds = {c1, c2}
  Unencodable = {}
  QueueSize = 1
  MaxBatchCommands = 2
  SegmentMax = 2
  Faults = {}
  Symbols = {"a"}
  SymbolOf <- OneSymbol
  InboxSize = 1
  MaxPending = 2
  MaxControls = 0
  MaxCrashes = 2
INVARIANTS AlwaysRecovers
CHECK_DEADLOCK FALSE
