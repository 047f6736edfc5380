\* Answers and shutdown, with every fault.
SPECIFICATION ProcessSpec
CONSTANTS
  Cmds = {c1, c2, c3}
  Unencodable = {c2}
  QueueSize = 1
  MaxBatchCommands = 2
  SegmentMax = 1
  Faults = {"open", "rotate", "write", "sync"}
  Symbols = {"a", "long"}
  SymbolOf <- LongSymbol
  InboxSize = 1
  MaxPending = 2
  MaxControls = 1
  MaxCrashes = 0
PROPERTIES AnsweredUnlessStranded ShutdownEnds
CHECK_DEADLOCK FALSE
