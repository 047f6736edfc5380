\* Three saves with two crashes; up to two segments of two records with one damage; three
\* commands and three starts; every segment index that fits the width, and three more;
\* three clients and a ring of two samples.
SPECIFICATION MCSpec
CONSTANTS
  MaxSaves = 3
  MaxSeq = 2
  MaxCrashes = 2
  MaxUint16 = 3
  MaxUint32 = 20
  MaxRecords = 2
  MaxSegments = 2
  Changes = {0, 1, 2, 9}
  A = A
  B = B
  TornHeader = TornHeader
  None = None
  MaxExecuted = 3
  MaxStarts = 3
  Width = 2
  MaxOpens = 103
  Clients = {c1, c2, c3}
  Depths = {1, 2}
  Slots = 2
INVARIANTS StartsFromWhole ReadsBack NothingInvented OwnShardsRecovered RefusedForCause RecoveriesAgree ReadInOrder HWMIsLargest ReportAddsUp WindowIsLatest
PROPERTIES SavedStays
SYMMETRY ClientSymmetry
CHECK_DEADLOCK FALSE
