------------------------------- MODULE Command -------------------------------
(***************************************************************************)
(* Commands and their validation (internal/model/types.go).                *)
(*                                                                         *)
(* A command is a record with the fields of model.Command except Seq,      *)
(* which the sequencer adds.  An enumeration is a set of strings; a value  *)
(* outside the set stands for a byte outside the Go constants.  Order ids  *)
(* are only ever compared for equality, so they are model values, with     *)
(* NoID for the id 0.                                                      *)
(***************************************************************************)
EXTENDS Integers, Sequences, SequencesExt

CONSTANTS OrderIDs,   \* the non-zero order ids
          NoID        \* the order id 0

ASSUME NoIDAssumption == NoID \notin OrderIDs

Sides == {"Buy", "Sell"}
OrderTypes == {"Limit", "Market"}
TimesInForce == {"GTC", "IOC", "FOK"}

(***************************************************************************)
(* The position of the first failing check decides the reason.             *)
(***************************************************************************)
FirstFailing(checks) ==
  LET i == SelectInSeq(checks, LAMBDA k : k.fails)
  IN  IF i = 0 THEN "None" ELSE checks[i].reason

Check(fails, reason) == [fails |-> fails, reason |-> reason]

ValidationRejectReason(c) ==
  LET symbol == Check(c.Symbol = "", "InvalidSymbol")
      id     == Check(c.OrderID = NoID, "InvalidOrderID")
  IN  CASE c.Type = "New" ->
             FirstFailing(<<symbol, id,
               Check(c.Side \notin Sides, "InvalidSide"),
               Check(c.OrderType \notin OrderTypes, "InvalidOrderType"),
               Check(c.TimeInForce \notin TimesInForce, "InvalidTimeInForce"),
               Check(c.Quantity <= 0, "InvalidQuantity"),
               Check(c.OrderType = "Limit" /\ c.Price <= 0, "InvalidPrice")>>)
        [] c.Type = "Cancel" -> FirstFailing(<<symbol, id>>)
        [] c.Type = "Replace" ->
             FirstFailing(<<symbol, id,
               Check(c.NewLeavesQty <= 0 \/ c.NewPrice < 0, "InvalidReplace")>>)
        [] OTHER -> FirstFailing(<<symbol, Check(TRUE, "InvalidCommandType")>>)

Validate(c) ==
  /\ c.Symbol # ""
  /\ \/ /\ c.Type = "New"
        /\ c.OrderID # NoID
        /\ c.Side \in Sides
        /\ c.OrderType \in OrderTypes
        /\ c.TimeInForce \in TimesInForce
        /\ c.Quantity > 0
        /\ c.OrderType = "Limit" => c.Price > 0
     \/ /\ c.Type = "Cancel"
        /\ c.OrderID # NoID
     \/ /\ c.Type = "Replace"
        /\ c.OrderID # NoID
        /\ c.NewLeavesQty > 0
        /\ c.NewPrice >= 0
=============================================================================
