\* Answers and shutdown, when the first segment cannot be opened.
SPECIFICATION FairSpec
CONSTANTS
  Cmds = {c1}
  Unencodable = {}
  QueueSize = 1
  MaxBatchCommands = 2
  SegmentMax = 1
  Faults = {"open"}
  Symbols = {"a", "long"}
  SymbolOf <- LongSymbol
  InboxSize = 1
  MaxPending = 2
  MaxControls = 1
  MaxCrashes = 0
PROPERTIES EveryCommandAnswered
CHECK_DEADLOCK FALSE
