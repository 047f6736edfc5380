---------------------------- MODULE BookRefines ------------------------------
(***************************************************************************)
(* Two refinements.  The book implements PriceTime: a command takes        *)
(* several steps in Book and one in PriceTime, which is the last of them.  *)
(* The history variable shown is the book as it was between commands, and  *)
(* the refinement mapping reads it.  And the lists and the price index of  *)
(* SideBook implement the queues of Book.  A behaviour is one of the book  *)
(* or one of the lists.                                                    *)
(***************************************************************************)
EXTENDS MCBook

VARIABLES shown,
          part,                        \* "book" or "lists"
          side, prices, levels, order  \* of SideBook

View ==
  LET made == SelectSeq(events, LAMBDA e : e.type = "Trade")
  IN  [resting |-> {orders[id] : id \in DOMAIN orders},
       trades |-> [i \in 1..Len(made) |->
                     [Maker |-> made[i].Maker, Taker |-> made[i].Taker,
                      Price |-> made[i].Price, Quantity |-> made[i].Quantity]],
       seq |-> seq]

Lists == INSTANCE SideBook WITH Prices <- 1..4, Quantities <- {1, 2}, Int64Max <- 3

listVars == <<side, prices, levels, order>>

HInit ==
  /\ Init /\ shown = View /\ Lists!Init
  /\ part \in {"book", "lists"}
  /\ part = "book" => side = "Buy"

HNext ==
  /\ UNCHANGED part
  /\ \/ /\ part = "book"
        /\ Next /\ shown' = IF pc' = "idle" THEN View' ELSE shown
        /\ UNCHANGED listVars
     \/ /\ part = "lists"
        /\ Lists!Next
        /\ UNCHANGED <<vars, shown>>

HSpec == HInit /\ [][HNext]_<<vars, shown, part, listVars>>

Abstract == INSTANCE PriceTime WITH
  resting <- shown.resting, trades <- shown.trades, seq <- shown.seq

\* Apply is atomic and fills by price, then time: the levels, queues, totals and
\* the loop of matchAgainst leave exactly the orders and make exactly the trades,
\* in the order, that PriceTime defines in closed form.
ImplementsPriceTime == Abstract!Spec

\* Every valid command but a market fill-or-kill that carries a price, for which
\* availableQtyFor and match disagree about the limit; and of those that the
\* validation refuses, the ones without a quantity.
CommandsWithOneLimit ==
  {c \in ValidCommands :
     ~(c.OrderType = "Market" /\ c.TimeInForce = "FOK" /\ c.Price # 0)}
    \cup {c \in BadCommands : c.Type = "New" /\ c.Quantity = 0}

\* append, remove and the bisection of the price index do to the lists what Book does to
\* its queues and its index, and leave every list linked both ways.
FollowsQueues == Lists!FollowsQueues
=============================================================================
