---------------------------- MODULE MCSettlement ----------------------------
(* Small instances of Settlement.  The weights keep single products and    *)
(* pairs apart; the freezer's products are aliased: two of b within its    *)
(* gate of five of a.                                                      *)
EXTENDS Settlement

Grams100And250 == ("a" :> 100) @@ ("b" :> 250)
Grams100And300 == ("a" :> 100) @@ ("b" :> 300)
StockOfThree   == [p \in Product |-> 3]

(* HonestBill is not vacuous here.                                         *)
ASSUME ToldApart == Separated
-----------------------------------------------------------------------------
(* ledger/settler.py:364: a correction of layer 2 erases the unmatched     *)
(* return it explains, which prevents a second deduction in another zone.  *)
(* Then an honest session would never be refunded more than it put back.   *)
RefundedOnce ==
    honest => refunded <= returned + Len(log) * Tolerance
=============================================================================
