\* A market fill-or-kill order that carries a price.
SPECIFICATION Spec
CONSTANTS
  OrderIDs = {o1, o2, o3}
  NoID = NoID
  Symbol = "SYM"
  Commands <- ValidCommands
  MaxSeq = 3
  Int64Max = 7
  TradeSeqMod = 4
  Word = 16
  Prices = {1, 2}
  Quantities = {1, 2}
  MarketPrices = {1}
SYMMETRY OrderSymmetry
INVARIANTS FOKNeverPartial
CHECK_DEADLOCK FALSE
