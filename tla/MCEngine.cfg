\* Two shards in two scenarios: calls with a failing shard, and a crash with a restart.
SPECIFICATION MCSpec
CONSTANTS
  a = a
  b = b
  t = t
  x = x
  bar = bar
  d = d
  e = e
  z = z
  y = y
  Submits = {a, b, x}
  Tries = {t}
  Barriers = {bar}
  Snapshots = {d, e}
  Shutdowns = {z}
  Cmds = {a, b, t, x}
  Callers = {bar, d, e}
  Deadline = {a, d, z}
  Shards <- TwoShards
  MayFail = {1}
  Unopened = {}
  ShardFor <- Routing
  InboxSize = 1
  IngressSize = 1
  MaxNumber = 2
  MaxCrashes = 1
INVARIANTS NothingLeftBehind BarrierCovers SnapshotIsCut ShutdownComplete NumbersFollowQueue
PROPERTIES UsesLoops
CHECK_DEADLOCK FALSE
