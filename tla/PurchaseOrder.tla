---------------------------- MODULE PurchaseOrder ----------------------------
(***************************************************************************)
(* A sourcing purchase order (app/sourcing.py, app/store/matching.py) as a *)
(* record, and the functions that move it:                                 *)
(*                                                                         *)
(*   quantity  the ordered quantity                                        *)
(*   status    draft | released | delivered, or lost: the number is known  *)
(*             to no store any more, because a restart found sourcing.json *)
(*             half written                                                *)
(*   ct        ct_gr_qty, received through site GRNs                       *)
(*   sap       sap_gr_qty, received through the SAP webhook                *)
(*                                                                         *)
(* Quantities are natural numbers; an absent quantity (None) is 0, as every*)
(* reader of the code treats it.  The 5% headroom is kept exact by counting*)
(* in twentieths.  Nothing in app/ ever sets the status in_transit on a    *)
(* sourcing PO, so it is not a value here.                                 *)
(***************************************************************************)
EXTENDS Integers

PoStatuses == {"draft", "released", "delivered"}

Known(po) == po.status # "lost"

SapKinds == {"po_released", "gr_posted", "po_closed"}

Larger(a, b) == IF a >= b THEN a ELSE b

\* The quantity received, by whichever channel has seen more of it.
ReceivedQty(po) == Larger(po.ct, po.sap)

\* matching.remaining_qty in twentieths of a unit: 1.05 * quantity - received.
RemainingTwentieths(po) == 21 * po.quantity - 20 * ReceivedQty(po)

\* The pool that lines are matched against: released and with headroom left.
IsOpen(po) == po.status = "released" /\ RemainingTwentieths(po) > 0

\* Fault: a delivered PO takes no further receipt.
SkipDelivered(po, qty) ==
    IF po.status = "delivered" THEN po
    ELSE [po EXCEPT !.ct = @ + qty,
                    !.status = IF Larger(po.ct + qty, po.sap) >= po.quantity
                               THEN "delivered" ELSE @]

\* sourcing.apply_ct_receipt: a site receipt accumulates on ct and delivers
\* the PO as soon as either channel reaches the ordered quantity.
ApplyCtReceipt(po, qty) ==
    LET ct == po.ct + qty
    IN  [po EXCEPT !.ct = ct,
                   !.status = IF Larger(ct, po.sap) >= po.quantity
                              THEN "delivered" ELSE @]

\* sourcing._apply_to_po: what a SAP event does to the PO it names.  A
\* release overwrites whatever status the PO had.
ApplyToPo(po, kind, qty) ==
    CASE kind = "po_released" -> [po EXCEPT !.status = "released"]
      [] kind = "po_closed"   -> [po EXCEPT !.status = "delivered"]
      [] kind = "gr_posted"   ->
           [po EXCEPT !.sap = @ + qty,
                      !.status = IF po.sap + qty >= po.quantity
                                 THEN "delivered" ELSE @]

\* Fault: the two channels are added up.
AddedToEither(po, added) == ReceivedQty(po) + added

\* cumulative total confirm_grn predicts for a PO before the receipts of the
\* GRN being confirmed are accumulated on it.
PredictedTotal(po, added) == Larger(ReceivedQty(po), po.ct + added)

WillBeDelivered(po, added) == PredictedTotal(po, added) >= po.quantity
=============================================================================
