------------------------------- MODULE SideBook -------------------------------
(***************************************************************************)
(* One side of a book as the code stores it (internal/book/book.go): price *)
(* levels that are doubly linked lists of orders, and a price index that   *)
(* is searched by bisection.  Book has a sequence of ids for each list and *)
(* the first price that is not better for each search; this module shows   *)
(* that it may.                                                            *)
(***************************************************************************)
EXTENDS Command, SequencesExt

CONSTANTS Symbol, Commands, MaxSeq, Int64Max, TradeSeqMod, Word,  \* as in Book
          Prices, Quantities

VARIABLES side,    \* isBid: "Buy" or "Sell"
          prices,  \* the price index
          levels,  \* the PriceLevel of each price in the map: [TotalQty, Head, Tail]
          order    \* the Order of each id: [Prev, Next, Level, Price, LeavesQty]

vars == <<side, prices, levels, order>>

NoLevel == 0  \* a nil *PriceLevel; prices are positive

Blank == [Prev |-> NoID, Next |-> NoID, Level |-> NoLevel, Price |-> 0, LeavesQty |-> 0]

sb == [prices |-> prices, levels |-> levels, order |-> order]

\* the operators of Book on one side of it
Queues == INSTANCE Book WITH sides <- levels, orders <- order, nextTradeSeq <- 0, seq <- 0,
                             cur <- 0, taker <- 0, events <- 0, pc <- 0

Wrap(x) == Queues!Wrap(x)

-----------------------------------------------------------------------------
(***************************************************************************)
(* The operations, on a record b of the index, the levels and the orders.  *)
(***************************************************************************)
Before(p, q) == IF side = "Buy" THEN p > q ELSE p < q

\* the index counts from 0, as in the code
findInsertIndex(b, price) ==
  LET n == Len(b.prices)
      search[left \in 0..n, right \in 0..n] ==
        IF left >= right THEN left
        ELSE LET mid == left + (right - left) \div 2
             IN IF Before(b.prices[mid + 1], price) THEN search[mid + 1, right]
                ELSE search[left, mid]
  IN search[0, n]

findPriceIndex(b, price) ==
  LET idx == findInsertIndex(b, price)
  IN IF idx >= Len(b.prices) \/ b.prices[idx + 1] # price THEN -1 ELSE idx

getOrCreateLevel(b, price) ==
  IF price \in DOMAIN b.levels THEN b
  ELSE [b EXCEPT !.levels = (price :> [TotalQty |-> 0, Head |-> NoID, Tail |-> NoID]) @@ @,
                 !.prices = InsertAt(@, findInsertIndex(b, price) + 1, price)]

removeLevelIfEmpty(b, price) ==
  LET idx == findPriceIndex(b, price)
  IN IF b.levels[price].Head # NoID THEN b
     ELSE [b EXCEPT !.levels = [p \in DOMAIN @ \ {price} |-> @[p]],
                    !.prices = IF idx >= 0 THEN RemoveAt(@, idx + 1) ELSE @]

\* PriceLevel.append
append(b, price, id) ==
  LET tail == b.levels[price].Tail
      linked == [b.order EXCEPT ![id].Prev = tail, ![id].Next = NoID, ![id].Level = price]
  IN [b EXCEPT !.order = IF tail = NoID THEN linked ELSE [linked EXCEPT ![tail].Next = id],
               !.levels[price] =
                 [Head |-> IF tail = NoID THEN id ELSE @.Head, Tail |-> id,
                  TotalQty |-> Wrap(@.TotalQty + b.order[id].LeavesQty)]]

\* mutant of remove: the tail of the level is not moved
removeKeepsTail(b, price, id) ==
  LET o == b.order[id]
      past == [i \in OrderIDs |->
                 [b.order[i] EXCEPT !.Next = IF i = o.Prev THEN o.Next ELSE @,
                                    !.Prev = IF i = o.Next THEN o.Prev ELSE @]]
  IN [b EXCEPT !.order = [past EXCEPT ![id].Prev = NoID, ![id].Next = NoID, ![id].Level = NoLevel],
               !.levels[price] =
                 [Head |-> IF o.Prev = NoID THEN o.Next ELSE @.Head,
                  Tail |-> @.Tail,
                  TotalQty |-> Wrap(@.TotalQty - o.LeavesQty)]]

\* PriceLevel.remove: the neighbours, or the ends of the level, are linked past the order
remove(b, price, id) ==
  LET o == b.order[id]
      past == [i \in OrderIDs |->
                 [b.order[i] EXCEPT !.Next = IF i = o.Prev THEN o.Next ELSE @,
                                    !.Prev = IF i = o.Next THEN o.Prev ELSE @]]
  IN [b EXCEPT !.order = [past EXCEPT ![id].Prev = NoID, ![id].Next = NoID, ![id].Level = NoLevel],
               !.levels[price] =
                 [Head |-> IF o.Prev = NoID THEN o.Next ELSE @.Head,
                  Tail |-> IF o.Next = NoID THEN o.Prev ELSE @.Tail,
                  TotalQty |-> Wrap(@.TotalQty - o.LeavesQty)]]

\* an order in the book shrinks: a fill, or a Replace that keeps its priority
reduced(b, id, qty) ==
  [b EXCEPT !.order[id].LeavesQty = @ - qty,
            !.levels[b.order[id].Level].TotalQty = Wrap(@ - qty)]

\* Book.removeActive; nothing refers to the order any more
removed(b, id) ==
  LET price == b.order[id].Level
      left == removeLevelIfEmpty(remove(b, price, id), price)
  IN [left EXCEPT !.order[id].Price = 0, !.order[id].LeavesQty = 0]

-----------------------------------------------------------------------------
Becomes(b) == prices' = b.prices /\ levels' = b.levels /\ order' = b.order /\ UNCHANGED side

Resting == {id \in OrderIDs : order[id].Level # NoLevel}

Init ==
  /\ side \in Sides
  /\ prices = <<>> /\ levels = <<>>
  /\ order = [id \in OrderIDs |-> Blank]

\* Book.rest
rest(id, price, qty) ==
  /\ id \notin Resting
  /\ LET new == [sb EXCEPT !.order[id].Price = price, !.order[id].LeavesQty = qty]
     IN Becomes(append(getOrCreateLevel(new, price), price, id))

\* removeActive, called by a cancel or a Replace that loses its priority
removeActive(id) == id \in Resting /\ Becomes(removed(sb, id))

\* the head of the best level trades; it leaves when nothing is left of it
Trade(qty) ==
  /\ prices # <<>>
  /\ LET id == levels[prices[1]].Head
         b == reduced(sb, id, qty)
     IN /\ qty <= order[id].LeavesQty
        /\ Becomes(IF qty = order[id].LeavesQty THEN removed(b, id) ELSE b)

Shrink(id, qty) == id \in Resting /\ qty < order[id].LeavesQty /\ Becomes(reduced(sb, id, qty))

Next ==
  \/ \E id \in OrderIDs, price \in Prices, qty \in Quantities : rest(id, price, qty)
  \/ \E id \in OrderIDs : removeActive(id)
  \/ \E qty \in Quantities : Trade(qty)
  \/ \E id \in OrderIDs, qty \in Quantities : Shrink(id, qty)

Spec == Init /\ [][Next]_vars

-----------------------------------------------------------------------------
(***************************************************************************)
(* Properties.                                                             *)
(***************************************************************************)
\* the ids met on the way from an order along a link, at most as many as there are ids
Along(link, from) ==
  LET walk[n \in 0..Cardinality(OrderIDs), id \in OrderIDs \cup {NoID}] ==
        IF n = 0 \/ id = NoID THEN <<>> ELSE <<id>> \o walk[n - 1, order[id][link]]
  IN walk[Cardinality(OrderIDs), from]

\* the side as Book has it
View ==
  [prices |-> prices,
   levels |-> [p \in DOMAIN levels |->
                 [TotalQty |-> levels[p].TotalQty, queue |-> Along("Next", levels[p].Head)]]]

AsInBook(id) ==
  [ID |-> id, Side |-> side, Price |-> order[id].Price, LeavesQty |-> order[id].LeavesQty]

\* the links of a level agree in both directions and end at its Head and its Tail, every
\* resting order is in the list of its own level, and an order that has left keeps no link
LinkedBothWays ==
  /\ \A p \in DOMAIN levels :
       LET queue == Along("Next", levels[p].Head)
       IN /\ Reverse(queue) = Along("Prev", levels[p].Tail)
          /\ ToSet(queue) = {id \in Resting : order[id].Level = p}
  /\ \A id \in OrderIDs \ Resting : order[id].Prev = NoID /\ order[id].Next = NoID

\* Every operation on the lists and the index does to the side what Book says of it, and
\* leaves every list linked both ways: an order that enters is rested, one that leaves is
\* removed with what was left of it, one that shrinks reduces its level, and the bisection
\* finds the place in the index.
FollowsQueues ==
  [][/\ order' # order
     /\ \E id \in OrderIDs :
          \/ id \in Resting' \ Resting /\ View' = Queues!restSide(View, AsInBook(id)')
          \/ id \in Resting \ Resting' /\ View' = Queues!removeActiveSide(View, AsInBook(id))
          \/ /\ Resting = Resting' /\ order[id].LeavesQty > order'[id].LeavesQty
             /\ View' = Queues!reduceLevel(View, order[id].Price,
                                           order[id].LeavesQty - order'[id].LeavesQty)
     /\ LinkedBothWays']_vars
=============================================================================
