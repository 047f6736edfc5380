------------------------------ MODULE PriceTime ------------------------------
(***************************************************************************)
(* What an order book promises: each command is one atomic step on a set   *)
(* of resting orders, and an incoming order is filled by the orders it may *)
(* trade with in the order of price, then time.  There is no index, no     *)
(* level, no queue, no cached total and no loop: the fill of each resting  *)
(* order is given in closed form.                                          *)
(***************************************************************************)
EXTENDS Command

CONSTANTS Symbol, Commands, MaxSeq

VARIABLES resting,  \* the orders of the book
          trades,   \* the trades of the last command, in order
          seq       \* the number of the last command

ptvars == <<resting, trades, seq>>

Minimum(a, b) == IF a < b THEN a ELSE b

\* o accepts the price p; the price 0 accepts every price
Accepts(o, p) == o.Price = 0 \/ (IF o.Side = "Buy" THEN p <= o.Price ELSE p >= o.Price)

\* m comes before n among the orders of their side
Before(m, n) ==
  \/ m.Price # n.Price /\ (IF m.Side = "Buy" THEN m.Price > n.Price
                                             ELSE m.Price < n.Price)
  \/ m.Price = n.Price /\ m.Seq < n.Seq

Leaves(S) == MapThenSumSet(LAMBDA m : m.LeavesQty, S)

Makers(pool, o) == {m \in pool : m.Side # o.Side /\ Accepts(o, m.Price)}

\* what m gives to o: all it has, or what the makers before m leave over
Fill(pool, o, m) ==
  LET ahead == Leaves({n \in Makers(pool, o) : Before(n, m)})
  IN  IF ahead >= o.LeavesQty THEN 0 ELSE Minimum(m.LeavesQty, o.LeavesQty - ahead)

Remainder(pool, o) ==
  o.LeavesQty - Minimum(o.LeavesQty, Leaves(Makers(pool, o)))

TradesOf(pool, o) ==
  LET filled == SetToSortSeq({m \in Makers(pool, o) : Fill(pool, o, m) > 0}, Before)
  IN  [i \in 1..Len(filled) |->
         [Maker |-> filled[i].ID, Taker |-> o.ID, Price |-> filled[i].Price,
          Quantity |-> Fill(pool, o, filled[i])]]

\* o meets the orders of the pool; its remainder rests if it may
Place(pool, o, mayRest) ==
  LET makers == Makers(pool, o)
      left == {[m EXCEPT !.LeavesQty = @ - Fill(pool, o, m)] : m \in makers}
      rem == Remainder(pool, o)
  IN  /\ trades' = TradesOf(pool, o)
      /\ resting' = (pool \ makers)
                      \cup {m \in left : m.LeavesQty > 0}
                      \cup (IF mayRest /\ rem > 0
                            THEN {[o EXCEPT !.LeavesQty = rem]} ELSE {})

Refuse == trades' = <<>> /\ UNCHANGED resting

NewOrder(c) ==
  LET o == [ID |-> c.OrderID, Side |-> c.Side, Price |-> c.Price,
            LeavesQty |-> c.Quantity, Seq |-> seq']
      known == \E r \in resting : r.ID = c.OrderID
      short == c.TimeInForce = "FOK" /\ Remainder(resting, o) > 0
  IN  IF known \/ short THEN Refuse
      ELSE Place(resting, o, c.OrderType = "Limit" /\ c.TimeInForce # "IOC")

CancelOrder(c) ==
  /\ trades' = <<>>
  /\ resting' = {r \in resting : r.ID # c.OrderID}

\* an order that only shrinks keeps its time, any other is a new arrival
ReplaceOrder(c) ==
  IF \A r \in resting : r.ID # c.OrderID THEN Refuse
  ELSE LET r == CHOOSE x \in resting : x.ID = c.OrderID
           new == [r EXCEPT !.LeavesQty = c.NewLeavesQty,
                            !.Price = IF c.NewPrice = 0 THEN @ ELSE c.NewPrice]
       IN  IF new.Price = r.Price /\ new.LeavesQty <= r.LeavesQty
           THEN trades' = <<>> /\ resting' = (resting \ {r}) \cup {new}
           ELSE Place(resting \ {r}, [new EXCEPT !.Seq = seq'], TRUE)

Execute(c) ==
  /\ seq < MaxSeq
  /\ seq' = seq + 1
  /\ IF c.Symbol # Symbol \/ ~Validate(c) THEN Refuse
     ELSE \/ c.Type = "New" /\ NewOrder(c)
          \/ c.Type = "Cancel" /\ CancelOrder(c)
          \/ c.Type = "Replace" /\ ReplaceOrder(c)

Init == resting = {} /\ trades = <<>> /\ seq = 0

Next == \E c \in Commands : Execute(c)

Spec == Init /\ [][Next]_ptvars
=============================================================================
