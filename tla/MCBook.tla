------------------------------- MODULE MCBook --------------------------------
(***************************************************************************)
(* Small instances of Book for TLC.                                        *)
(***************************************************************************)
EXTENDS Book

CONSTANTS Prices, Quantities, MarketPrices

Blank == [NoCommand EXCEPT !.Symbol = Symbol]

LimitOrders ==
  {[Blank EXCEPT !.Type = "New", !.OrderID = id, !.Side = s, !.OrderType = "Limit",
                 !.TimeInForce = tif, !.Price = p, !.Quantity = q] :
     id \in OrderIDs, s \in Sides, tif \in TimesInForce, p \in Prices, q \in Quantities}

MarketOrders ==
  {[Blank EXCEPT !.Type = "New", !.OrderID = id, !.Side = s, !.OrderType = "Market",
                 !.TimeInForce = tif, !.Price = p, !.Quantity = q] :
     id \in OrderIDs, s \in Sides, tif \in {"GTC", "FOK"}, p \in MarketPrices,
     q \in Quantities}

Cancels == {[Blank EXCEPT !.Type = "Cancel", !.OrderID = id] : id \in OrderIDs}

Replaces ==
  {[Blank EXCEPT !.Type = "Replace", !.OrderID = id, !.NewPrice = p,
                 !.NewLeavesQty = q] :
     id \in OrderIDs, p \in Prices \cup {0}, q \in Quantities}

ValidCommands == LimitOrders \cup MarketOrders \cup Cancels \cup Replaces

\* one command for each check of the validation, and one for another book
BadCommands ==
  UNION {LET new == [Blank EXCEPT !.Type = "New", !.OrderID = id, !.Side = "Buy",
                                  !.OrderType = "Limit", !.TimeInForce = "GTC",
                                  !.Price = 1, !.Quantity = 1]
             replace == [new EXCEPT !.Type = "Replace", !.NewLeavesQty = 1]
         IN  {[new EXCEPT !.Symbol = "other"], [new EXCEPT !.Type = "bad"],
              [new EXCEPT !.OrderID = NoID], [new EXCEPT !.Side = "bad"],
              [new EXCEPT !.OrderType = "bad"], [new EXCEPT !.TimeInForce = "bad"],
              [new EXCEPT !.Quantity = 0], [new EXCEPT !.Price = 0],
              [replace EXCEPT !.NewLeavesQty = 0], [replace EXCEPT !.NewPrice = -1],
              [new EXCEPT !.Type = "Cancel", !.OrderID = NoID]} : id \in OrderIDs}

AllCommands == ValidCommands \cup BadCommands

OrderSymmetry == Permutations(OrderIDs)
=============================================================================
