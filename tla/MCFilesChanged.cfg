\* The claim about a changed cell in a committed segment.
SPECIFICATION MCSpec
CONSTANTS
  MaxSaves = 3
  MaxSeq = 2
  MaxCrashes = 2
  MaxUint16 = 3
  MaxUint32 = 20
  MaxRecords = 2
  MaxSegments = 2
  Changes = {0, 1, 2, 9}
  A = A
  B = B
  TornHeader = TornHeader
  None = None
  MaxExecuted = 3
  MaxStarts = 3
  Width = 2
  MaxOpens = 103
  Clients = {c1, c2, c3}
  Depths = {1, 2}
  Slots = 2
INVARIANTS CorruptionDetected
CHECK_DEADLOCK FALSE
