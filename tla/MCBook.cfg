\* Safety of the matching core, with int64 totals that wrap at 3.
SPECIFICATION Spec
CONSTANTS
  OrderIDs = {o1, o2, o3, o4}
  NoID = NoID
  Symbol = "SYM"
  Commands <- AllCommands
  MaxSeq = 4
  Int64Max = 3
  TradeSeqMod = 2
  Word = 4
  Prices = {1, 2}
  Quantities = {1, 3}
  MarketPrices = {0, 1}
SYMMETRY OrderSymmetry
INVARIANTS CheckInvariants OrdersIndexed FOKExact QuantityConserved TradeIDsDistinct SnapshotRoundTrip
CHECK_DEADLOCK FALSE
