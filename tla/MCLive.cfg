\* Every call returns: three calls of every mix, with and without a deadline, on two
\* shards, of which one may be left without a writer; and two producers of the load
\* generator with three commands.
SPECIFICATION LiveSpec
CONSTANTS
  a = a
  b = b
  t = t
  x = x
  bar = bar
  d = d
  e = e
  z = z
  y = y
  Submits = {a}
  Tries = {b}
  Barriers = {bar}
  Snapshots = {d, e}
  Shutdowns = {z, y}
  Cmds = {a, b}
  Callers = {bar, d, e}
  Deadline = {a, d, z}
  Shards <- TwoShards
  MayFail = {1, 2}
  Unopened = {2}
  ShardFor <- Routing
  InboxSize = 1
  IngressSize = 1
  MaxNumber = 3
  MaxCrashes = 0
  Producers = {p1, p2}
  MaxCommands = 3
INVARIANTS ReportBalances OrdersOwned
PROPERTIES EveryCallReturns ReportComes
CHECK_DEADLOCK FALSE
