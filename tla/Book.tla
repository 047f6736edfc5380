-------------------------------- MODULE Book ---------------------------------
(***************************************************************************)
(* The limit order book of one symbol (internal/book/book.go).             *)
(*                                                                         *)
(* Book.Apply runs on the goroutine of the shard that owns the book, so    *)
(* nobody sees a book in the middle of a command.  The model still shows   *)
(* the middle: one step starts a command, one step is an iteration of the  *)
(* loop of matchAgainst, one step ends the command.  Every fact about the  *)
(* book is then a fact about a single iteration.                           *)
(*                                                                         *)
(* The doubly linked list of a price level is the sequence of the ids in   *)
(* it; Order.Level is the level at the order's side and price.             *)
(***************************************************************************)
EXTENDS Command

CONSTANTS Symbol,       \* the symbol the book was created for
          Commands,     \* the commands the book may be given
          MaxSeq,       \* bound: the number of commands
          Int64Max,     \* the largest int64
          TradeSeqMod,  \* 2^20, the trades a trade id tells apart
          Word          \* 2^64, the number of uint64 values

Int64 == (-Int64Max - 1) .. Int64Max

ASSUME BoundsAssumption ==
  /\ MaxSeq \in Nat
  /\ Int64Max \in Nat \ {0}
  /\ TradeSeqMod \in Nat \ {0}
  /\ Word \in Nat \ {0}

ASSUME CommandsAssumption ==
  Commands \subseteq
    [Symbol : STRING, Type : STRING, OrderID : OrderIDs \cup {NoID},
     Side : STRING, OrderType : STRING, TimeInForce : STRING, Price : Int64,
     Quantity : Int64, NewPrice : Int64, NewLeavesQty : Int64]

VARIABLES sides,         \* bids and asks: the sorted price index and the levels
          orders,        \* the active orders by id
          nextTradeSeq,  \* the counter behind the trade ids
          seq,           \* the Seq of the last command given to the book
          cur,           \* the command in hand, or the last one
          taker,         \* the order that is being matched
          events,        \* Result.Events of that command
          pc             \* "idle", or "match" inside match

book == <<sides, orders, nextTradeSeq>>
vars == <<sides, orders, nextTradeSeq, seq, cur, taker, events, pc>>

NoOrder == [ID |-> NoID, Side |-> "Buy", Price |-> 0, LeavesQty |-> 0, Seq |-> 0]
NoCommand ==
  [Symbol |-> "", Type |-> "", OrderID |-> NoID, Side |-> "", OrderType |-> "",
   TimeInForce |-> "", Price |-> 0, Quantity |-> 0, NewPrice |-> 0,
   NewLeavesQty |-> 0]

(***************************************************************************)
(* int64 addition and subtraction of two int64 values wrap around.         *)
(***************************************************************************)
Wrap(x) == IF x > Int64Max THEN x - 2 * (Int64Max + 1)
           ELSE IF x < -Int64Max - 1 THEN x + 2 * (Int64Max + 1)
           ELSE x

Opposite(side) == IF side = "Buy" THEN "Sell" ELSE "Buy"

\* p comes before q in the price index of the side
Better(side, p, q) == IF side = "Buy" THEN p > q ELSE p < q

-----------------------------------------------------------------------------
(***************************************************************************)
(* One side of the book.                                                   *)
(***************************************************************************)
newSideBook == [prices |-> <<>>, levels |-> [p \in {} |-> 0]]

\* On a sorted index the binary search ends at the first price that is not
\* better than the one searched for.
findInsertIndex(side, sb, price) ==
  LET i == SelectInSeq(sb.prices, LAMBDA p : ~Better(side, p, price))
  IN  IF i = 0 THEN Len(sb.prices) + 1 ELSE i

getOrCreateLevel(side, sb, price) ==
  IF price \in DOMAIN sb.levels THEN sb
  ELSE [prices |-> InsertAt(sb.prices, findInsertIndex(side, sb, price), price),
        levels |-> [p \in DOMAIN sb.levels \cup {price} |->
                      IF p = price THEN [TotalQty |-> 0, queue |-> <<>>]
                      ELSE sb.levels[p]]]

removeLevelIfEmpty(side, sb, price) ==
  LET i == findInsertIndex(side, sb, price)
  IN  IF sb.levels[price].queue # <<>> THEN sb
      ELSE [prices |-> IF i <= Len(sb.prices) /\ sb.prices[i] = price
                       THEN RemoveAt(sb.prices, i) ELSE sb.prices,
            levels |-> [p \in DOMAIN sb.levels \ {price} |-> sb.levels[p]]]

\* PriceLevel.append
appendOrder(sb, price, id, qty) ==
  [sb EXCEPT !.levels[price] =
     [TotalQty |-> Wrap(@.TotalQty + qty), queue |-> Append(@.queue, id)]]

\* PriceLevel.remove
removeOrder(sb, price, id, qty) ==
  [sb EXCEPT !.levels[price] =
     [TotalQty |-> Wrap(@.TotalQty - qty), queue |-> RemoveFirst(@.queue, id)]]

\* mutant of reduceLevel: the level total is not reduced
reduceLevelForgets(sb, price, qty) == sb

reduceLevel(sb, price, qty) ==
  [sb EXCEPT !.levels[price].TotalQty = Wrap(@ - qty)]

\* the side of the book after Book.rest and after Book.removeActive
restSide(sb, o) ==
  appendOrder(getOrCreateLevel(o.Side, sb, o.Price), o.Price, o.ID, o.LeavesQty)

removeActiveSide(sb, o) ==
  removeLevelIfEmpty(o.Side, removeOrder(sb, o.Price, o.ID, o.LeavesQty), o.Price)

\* the orders after Book.rest and after Book.removeActive
restOrders(os, o) ==
  [id \in DOMAIN os \cup {o.ID} |-> IF id = o.ID THEN o ELSE os[id]]

\* mutant of removeActiveOrders: the order stays in the map
removeActiveOrdersForgets(os, o) == os

removeActiveOrders(os, o) == [id \in DOMAIN os \ {o.ID} |-> os[id]]

-----------------------------------------------------------------------------
(***************************************************************************)
(* The quantity a fill-or-kill order can take, from the level totals.      *)
(***************************************************************************)
availableQtyFor(side, limitPrice, orderType, requiredQty) ==
  LET opp == sides[Opposite(side)]
      n == Len(opp.prices)
      qty(i) == opp.levels[opp.prices[i]].TotalQty
      total[i \in 0..n] == IF i = 0 THEN 0 ELSE Wrap(total[i - 1] + qty(i))
      canTake(i) == orderType = "Market" \/ ~Better(side, opp.prices[i], limitPrice)
      enough(i) == qty(i) >= Wrap(requiredQty - total[i - 1])
      ends == {i \in 1..n : ~canTake(i) \/ enough(i)}
  IN  IF ends = {} THEN total[n]
      ELSE IF canTake(Min(ends)) THEN requiredQty
      ELSE total[Min(ends) - 1]

\* the closures given to matchAgainst: a buyer takes prices up to the limit, a
\* seller prices down to it, and the price 0 sets no limit
priceAllowed(o, price) == o.Price = 0 \/ ~Better(o.Side, price, o.Price)

\* mutant of TradeID: the id is made of the command number alone
TradeIDOfCommand == (seq * TradeSeqMod) % Word

\* nextTradeID: the high bits of the sequence number fall off the word
TradeID == ((seq * TradeSeqMod) % Word) + (nextTradeSeq % TradeSeqMod)

-----------------------------------------------------------------------------
(***************************************************************************)
(* Events.                                                                 *)
(***************************************************************************)
Accepted(id) == [type |-> "Accepted", OrderID |-> id]
Rejected(id, why) == [type |-> "Rejected", OrderID |-> id, Reason |-> why]
Trade(tid, maker, o, price, qty) ==
  [type |-> "Trade", TradeID |-> tid, Maker |-> maker, Taker |-> o.ID,
   Price |-> price, Quantity |-> qty]
Reduced(id, leaves) == [type |-> "Reduced", OrderID |-> id, LeavesQty |-> leaves]
Rested(o) ==
  [type |-> "Rested", OrderID |-> o.ID, Price |-> o.Price, LeavesQty |-> o.LeavesQty]
Canceled(id, qty, why) ==
  [type |-> "Canceled", OrderID |-> id, CanceledQty |-> qty, CancelReason |-> why]
Replaced(id, price, leaves, kept) ==
  [type |-> "Replaced", OrderID |-> id, Price |-> price, LeavesQty |-> leaves,
   PriorityRetained |-> kept]

-----------------------------------------------------------------------------
Init ==
  /\ sides = [s \in Sides |-> newSideBook]
  /\ orders = [id \in {} |-> NoOrder]
  /\ nextTradeSeq = 1
  /\ seq = 0
  /\ cur = NoCommand
  /\ taker = NoOrder
  /\ events = <<>>
  /\ pc = "idle"

\* Apply receives a command; the sequencer numbers them upwards
Receive(c) ==
  /\ pc = "idle"
  /\ seq < MaxSeq
  /\ seq' = seq + 1
  /\ cur' = c

Reject(c, why) ==
  /\ events' = <<Rejected(c.OrderID, why)>>
  /\ UNCHANGED <<sides, orders, nextTradeSeq, taker, pc>>

\* The branches of Apply that reach no handler
ApplyInvalid(c) ==
  /\ Receive(c)
  /\ \/ c.Symbol # Symbol /\ Reject(c, "InvalidSymbol")
     \/ /\ c.Symbol = Symbol
        /\ ~Validate(c)
        /\ Reject(c, ValidationRejectReason(c))

Dispatch(c, type) ==
  /\ Receive(c)
  /\ c.Symbol = Symbol
  /\ Validate(c)
  /\ c.Type = type

\* mutants of WouldNotFullyFill: one unit short passes; the exact quantity does not
WouldNotFullyFillByTwo(c) ==
  /\ c.TimeInForce = "FOK"
  /\ availableQtyFor(c.Side, c.Price, c.OrderType, c.Quantity) < c.Quantity - 1

WouldNotFullyFill(c) ==
  /\ c.TimeInForce = "FOK"
  /\ availableQtyFor(c.Side, c.Price, c.OrderType, c.Quantity) < c.Quantity

StartMatch(o) ==
  /\ taker' = o
  /\ pc' = "match"

handleNew(c) ==
  /\ Dispatch(c, "New")
  /\ \/ c.OrderID \in DOMAIN orders /\ Reject(c, "DuplicateOrderID")
     \/ /\ c.OrderID \notin DOMAIN orders
        /\ WouldNotFullyFill(c)
        /\ Reject(c, "WouldNotFullyFill")
     \/ /\ c.OrderID \notin DOMAIN orders
        /\ ~WouldNotFullyFill(c)
        /\ events' = <<Accepted(c.OrderID)>>
        /\ StartMatch([ID |-> c.OrderID, Side |-> c.Side, Price |-> c.Price,
                       LeavesQty |-> c.Quantity, Seq |-> seq'])
        /\ UNCHANGED book

handleCancel(c) ==
  /\ Dispatch(c, "Cancel")
  /\ \/ c.OrderID \notin DOMAIN orders /\ Reject(c, "UnknownOrderID")
     \/ /\ c.OrderID \in DOMAIN orders
        /\ LET o == orders[c.OrderID]
           IN  /\ sides' = [sides EXCEPT ![o.Side] = removeActiveSide(@, o)]
               /\ orders' = removeActiveOrders(orders, o)
               /\ events' = <<Accepted(o.ID), Canceled(o.ID, o.LeavesQty, "ByUser")>>
        /\ UNCHANGED <<nextTradeSeq, taker, pc>>

\* mutant of RetainPriority: an order may grow in its place
RetainPriorityOfPrice(o, newPrice, newLeaves) == newPrice = o.Price

\* handleReplace: the order keeps its place when its price stays and its
\* quantity does not grow
RetainPriority(o, newPrice, newLeaves) ==
  newPrice = o.Price /\ newLeaves <= o.LeavesQty

NewPriceOf(c, o) == IF c.NewPrice > 0 THEN c.NewPrice ELSE o.Price

\* Both checks of the second disjunct repeat what Validate and the book
\* already guarantee; nothing that is given to Apply reaches it.
ReplaceRejected(c) ==
  IF c.OrderID \notin DOMAIN orders THEN "UnknownOrderID"
  ELSE IF NewPriceOf(c, orders[c.OrderID]) <= 0 \/ c.NewLeavesQty <= 0
       THEN "InvalidReplace" ELSE "None"

ReplaceInPlace(c, o) ==
  /\ RetainPriority(o, NewPriceOf(c, o), c.NewLeavesQty)
  /\ LET reduced == o.LeavesQty - c.NewLeavesQty
         new == [o EXCEPT !.LeavesQty = c.NewLeavesQty]
     IN  /\ sides' = [sides EXCEPT ![o.Side] = reduceLevel(@, o.Price, reduced)]
         /\ orders' = [orders EXCEPT ![o.ID] = new]
         /\ events' = <<Accepted(o.ID)>>
              \o (IF reduced > 0 THEN <<Reduced(o.ID, new.LeavesQty)>> ELSE <<>>)
              \o <<Replaced(o.ID, o.Price, new.LeavesQty, TRUE)>>
  /\ UNCHANGED <<nextTradeSeq, taker, pc>>

ReplaceAndMatch(c, o) ==
  /\ ~RetainPriority(o, NewPriceOf(c, o), c.NewLeavesQty)
  /\ sides' = [sides EXCEPT ![o.Side] = removeActiveSide(@, o)]
  /\ orders' = removeActiveOrders(orders, o)
  /\ events' = <<Accepted(o.ID)>>
  /\ StartMatch([o EXCEPT !.Price = NewPriceOf(c, o), !.LeavesQty = c.NewLeavesQty,
                          !.Seq = seq'])
  /\ UNCHANGED nextTradeSeq

handleReplace(c) ==
  /\ Dispatch(c, "Replace")
  /\ \/ ReplaceRejected(c) # "None" /\ Reject(c, ReplaceRejected(c))
     \/ /\ ReplaceRejected(c) = "None"
        /\ ReplaceInPlace(c, orders[c.OrderID])
     \/ /\ ReplaceRejected(c) = "None"
        /\ ReplaceAndMatch(c, orders[c.OrderID])

-----------------------------------------------------------------------------
(***************************************************************************)
(* matchAgainst: the loop runs while CanTrade holds.                       *)
(***************************************************************************)
BestPrice(side) == sides[side].prices[1]

CanTrade ==
  /\ taker.LeavesQty > 0
  /\ sides[Opposite(taker.Side)].prices # <<>>
  /\ priceAllowed(taker, BestPrice(Opposite(taker.Side)))

matchAgainst ==
  /\ pc = "match"
  /\ CanTrade
  /\ LET s == Opposite(taker.Side)
         maker == orders[Head(sides[s].levels[BestPrice(s)].queue)]
         qty == IF taker.LeavesQty < maker.LeavesQty
                THEN taker.LeavesQty ELSE maker.LeavesQty
         left == [maker EXCEPT !.LeavesQty = @ - qty]
         traded == reduceLevel(sides[s], maker.Price, qty)
         trade == Trade(TradeID, maker.ID, taker, maker.Price, qty)
     IN  /\ taker' = [taker EXCEPT !.LeavesQty = @ - qty]
         /\ nextTradeSeq' = (nextTradeSeq + 1) % Word
         /\ \/ /\ left.LeavesQty = 0
               /\ sides' = [sides EXCEPT ![s] = removeActiveSide(traded, left)]
               /\ orders' = removeActiveOrders(orders, left)
               /\ events' = Append(events, trade)
            \/ /\ left.LeavesQty > 0
               /\ sides' = [sides EXCEPT ![s] = traded]
               /\ orders' = [orders EXCEPT ![left.ID] = left]
               /\ events' = events \o <<trade, Reduced(left.ID, left.LeavesQty)>>
  /\ UNCHANGED <<seq, cur, pc>>

\* the end of a command: Go drops the taker unless it rests
EndCommand ==
  /\ taker' = NoOrder
  /\ pc' = "idle"
  /\ UNCHANGED <<nextTradeSeq, seq, cur>>

rest ==
  /\ sides' = [sides EXCEPT ![taker.Side] = restSide(@, taker)]
  /\ orders' = restOrders(orders, taker)

Matched(type) == pc = "match" /\ ~CanTrade /\ cur.Type = type

FinishNew ==
  /\ Matched("New")
  /\ EndCommand
  /\ \/ /\ taker.LeavesQty = 0
        /\ UNCHANGED <<sides, orders, events>>
     \/ /\ taker.LeavesQty > 0
        /\ cur.OrderType = "Market" \/ cur.TimeInForce = "IOC"
        /\ events' = Append(events,
                            Canceled(taker.ID, taker.LeavesQty, "UnfilledRemainder"))
        /\ UNCHANGED <<sides, orders>>
     \/ /\ taker.LeavesQty > 0
        /\ cur.OrderType # "Market" /\ cur.TimeInForce # "IOC"
        /\ rest
        /\ events' = Append(events, Rested(taker))

\* mutant of FinishReplace: the remainder of a re-priced order does not rest
FinishReplaceDrops ==
  /\ Matched("Replace")
  /\ EndCommand
  /\ events' = Append(events, Replaced(taker.ID, taker.Price, taker.LeavesQty, FALSE))
  /\ UNCHANGED <<sides, orders>>

FinishReplace ==
  /\ Matched("Replace")
  /\ EndCommand
  /\ LET replaced == Replaced(taker.ID, taker.Price, taker.LeavesQty, FALSE)
     IN  \/ /\ taker.LeavesQty > 0
            /\ rest
            /\ events' = events \o <<Rested(taker), replaced>>
         \/ /\ taker.LeavesQty = 0
            /\ events' = Append(events, replaced)
            /\ UNCHANGED <<sides, orders>>

Next ==
  \/ \E c \in Commands :
       ApplyInvalid(c) \/ handleNew(c) \/ handleCancel(c) \/ handleReplace(c)
  \/ matchAgainst
  \/ FinishNew
  \/ FinishReplace

Spec == Init /\ [][Next]_vars

-----------------------------------------------------------------------------
(***************************************************************************)
(* Snapshot lists the levels in price order and the orders in queue order; *)
(* NewFromSnapshot rests them one by one in an empty book.                 *)
(***************************************************************************)
snapshotSide(sb) ==
  FlattenSeq([i \in 1..Len(sb.prices) |->
    LET q == sb.levels[sb.prices[i]].queue
    IN  [j \in 1..Len(q) |-> orders[q[j]]]])

\* mutant of Snapshot: the trade counter starts over
SnapshotWithoutCounter ==
  [NextTradeSeq |-> 1,
   Bids |-> snapshotSide(sides["Buy"]), Asks |-> snapshotSide(sides["Sell"])]

Snapshot == [NextTradeSeq |-> nextTradeSeq,
             Bids |-> snapshotSide(sides["Buy"]), Asks |-> snapshotSide(sides["Sell"])]

NewFromSnapshot(snap) ==
  LET restored == snap.Bids \o snap.Asks
      restOne(b, o) == [sides |-> [b.sides EXCEPT ![o.Side] = restSide(@, o)],
                        orders |-> restOrders(b.orders, o)]
      new == [sides |-> [s \in Sides |-> newSideBook],
              orders |-> [id \in {} |-> NoOrder]]
      b == FoldLeft(restOne, new, restored)
  IN  <<b.sides, b.orders, snap.NextTradeSeq>>

-----------------------------------------------------------------------------
(***************************************************************************)
(* Properties.                                                             *)
(***************************************************************************)
IndexSorted ==
  \A s \in Sides : \A i, j \in DOMAIN sides[s].prices :
    i < j => Better(s, sides[s].prices[i], sides[s].prices[j])

LevelsIndexed ==
  \A s \in Sides :
    /\ DOMAIN sides[s].levels = ToSet(sides[s].prices)
    /\ \A p \in DOMAIN sides[s].levels : sides[s].levels[p].queue # <<>>

LeavesPositive ==
  \A id \in DOMAIN orders : orders[id].LeavesQty > 0 /\ orders[id].Price > 0

LeavesAt(s, p) ==
  LET q == sides[s].levels[p].queue
  IN  MapThenSumSet(LAMBDA i : orders[q[i]].LeavesQty, DOMAIN q)

\* as far as int64 can tell: both sides of the comparison wrap
TotalsMatch ==
  \A s \in Sides : \A p \in DOMAIN sides[s].levels :
    (sides[s].levels[p].TotalQty - LeavesAt(s, p)) % (2 * (Int64Max + 1)) = 0

\* No bid reaches an ask, at any point of a command.
NotCrossed ==
  \A b, a \in DOMAIN orders :
    orders[b].Side = "Buy" /\ orders[a].Side = "Sell" => orders[b].Price < orders[a].Price

\* What Book.CheckInvariants tests, here between any two iterations of the
\* matching loop and not only after a command: each price index is strictly
\* sorted, has exactly the non-empty levels, every order has quantity left, the
\* level totals are the sums of their orders, and the book is not crossed.
CheckInvariants ==
  IndexSorted /\ LevelsIndexed /\ LeavesPositive /\ TotalsMatch /\ NotCrossed

\* Every active order is in exactly one queue, once, at its own side and price,
\* and every queued order is active: what a stale Order.Level or a missed delete
\* from b.orders would break.  Each queue is ordered by the sequence number that gave
\* the order its place: a replace that loses priority goes to the tail with the new
\* number, one that retains it keeps both (DESIGN.md, "Reducing quantity at the same
\* price retains queue priority").
OrdersIndexed ==
  /\ \A s \in Sides : \A p \in DOMAIN sides[s].levels :
       LET q == sides[s].levels[p].queue
       IN  /\ \A i \in DOMAIN q : /\ q[i] \in DOMAIN orders
                                 /\ orders[q[i]].Side = s
                                 /\ orders[q[i]].Price = p
           /\ \A i, j \in DOMAIN q : i < j => orders[q[i]].Seq < orders[q[j]].Seq
  /\ \A id \in DOMAIN orders :
       LET o == orders[id]
       IN  /\ o.Price \in DOMAIN sides[o.Side].levels
           /\ id \in ToSet(sides[o.Side].levels[o.Price].queue)

TradesIn(es) == {i \in DOMAIN es : es[i].type = "Trade"}
TradedQty(es) == MapThenSumSet(LAMBDA i : es[i].Quantity, TradesIn(es))

AcceptedFOK == /\ cur.Type = "New"
               /\ cur.TimeInForce = "FOK"
               /\ events # <<>>
               /\ events[1].type = "Accepted"

\* Every accepted fill-or-kill order fills in full, also a market order with a price.
FOKNeverPartial == pc = "idle" /\ AcceptedFOK => TradedQty(events) = cur.Quantity

\* the quantity the matching loop could give to the command
FillableQty(c) ==
  MapThenSumSet(LAMBDA id : orders[id].LeavesQty,
                {id \in DOMAIN orders :
                   /\ orders[id].Side = Opposite(c.Side)
                   /\ priceAllowed(c, orders[id].Price)})

LevelsFitInt64 ==
  \A s \in Sides : \A p \in DOMAIN sides[s].levels : LeavesAt(s, p) <= Int64Max

\* Fill-or-kill is decided from the (wrapping) level totals and must be right about the
\* queues.  An accepted order fills in full: what availableQtyFor counted is there for
\* the matching loop.  One is rejected as WouldNotFullyFill only when the orders it may
\* take hold less than its quantity, as long as no level total has left int64.  The first
\* holds for limit orders and for market orders without price.
FOKExact ==
  /\ pc = "idle" /\ AcceptedFOK /\ (cur.OrderType = "Market" => cur.Price = 0) =>
       TradedQty(events) = cur.Quantity
  /\ events = <<Rejected(cur.OrderID, "WouldNotFullyFill")>> /\ LevelsFitInt64 =>
       FillableQty(cur) < cur.Quantity

\* A command creates and loses no quantity: what a new or re-priced order asked
\* for is what it traded, plus what is left of it, rested or canceled.
QuantityConserved ==
  LET asked == IF cur.Type = "New" THEN cur.Quantity ELSE cur.NewLeavesQty
      left == MapThenSumSet(
                LAMBDA i : IF events[i].type = "Canceled" THEN events[i].CanceledQty
                           ELSE events[i].LeavesQty,
                {i \in DOMAIN events : events[i].type \in {"Canceled", "Rested"}})
      matched == cur.Type \in {"New", "Replace"} /\ events[1].type = "Accepted"
      kept == events[Len(events)].type = "Replaced" /\ events[Len(events)].PriorityRetained
  IN  events # <<>> /\ matched /\ ~kept =>
        asked = TradedQty(events) + left + taker.LeavesQty

\* Two trades of a command have different ids unless TradeSeqMod trades or more
\* lie between them: the counter is cut to 20 bits and wraps with its word.
TradeIDsDistinct ==
  \A i, j \in TradesIn(events) :
    /\ i < j
    /\ Cardinality({k \in TradesIn(events) : i <= k /\ k < j}) < TradeSeqMod
    => events[i].TradeID # events[j].TradeID

\* A book restored from its snapshot is the book: index, levels, totals, queue
\* order, sequence numbers and trade counter.
SnapshotRoundTrip == pc = "idle" => NewFromSnapshot(Snapshot) = book
=============================================================================
