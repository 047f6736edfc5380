\* The book implements the price-time specification, and the lists the queues of the book.
SPECIFICATION HSpec
CONSTANTS
  OrderIDs = {o1, o2, o3, o4}
  NoID = NoID
  Symbol = "SYM"
  Commands <- CommandsWithOneLimit
  MaxSeq = 4
  Int64Max = 20
  TradeSeqMod = 4
  Word = 16
  Prices = {1, 2}
  Quantities = {1, 2}
  MarketPrices = {0, 1}
SYMMETRY OrderSymmetry
PROPERTIES ImplementsPriceTime FollowsQueues
CHECK_DEADLOCK FALSE
