---------------------------- MODULE LineProgress ----------------------------
(***************************************************************************)
(* Where one BOM line stands (app/process_map.py), derived at every read   *)
(* from the BOM, the sourcing store, the technical evaluations and the     *)
(* shipment events (app/logistics.py).  The sourcing steps are those of    *)
(* Sourcing and PurchaseOrder; here they belong to one line, which may be  *)
(* requisitioned more than once, with no limit on who does what when.      *)
(***************************************************************************)
EXTENDS Sourcing, Sequences, FiniteSetsExt

PO == INSTANCE PurchaseOrder

CONSTANTS Totals,    \* what a quote may come to
          OrderedQty, MaxPrs, MaxRfqs, MaxPos, MaxReceipts

ItemStatuses == {"spec_missing", "planned", "requisitioned", "ordered", "delivered"}

STAGE_ORDER == <<"spec", "pr", "rfq", "quotes", "technical_eval", "award", "po",
                 "shipment", "site_grn", "delivery">>

\* logistics._STAGE_ORDER and the stages in which goods move.
ShipmentStages == {"manufacturing", "ready_to_dispatch", "dispatched",
                   "in_transit", "at_port", "at_customs", "last_mile", "delivered"}
Moving == {"dispatched", "in_transit", "at_port", "at_customs", "last_mile"}

\* One stage of each kind is enough: the reader asks only whether goods move.
EventStages == {"in_transit", "delivered"}

VARIABLES
    item,       \* status of the BOM line
    store,      \* the sourcing store; every requisition is for this line
    orders,     \* po_no -> [quantity, status, ct, sap]
    evaluated,  \* RFQs with a technical evaluation
    lastEvent   \* po_no -> stage of the latest shipment event, or NoEvent

lineVars == <<item, store, orders, evaluated, lastEvent>>

NoEvent == "none"

Init ==
    /\ item \in ItemStatuses
    /\ store = EmptyStore
    /\ orders = EmptyTable
    /\ evaluated = {}
    /\ lastEvent = EmptyTable

-----------------------------------------------------------------------------
(* What happens to the line *)

\* A BOM upload rewrites the line.
Upload(status) ==
    /\ item' = status /\ status # item
    /\ UNCHANGED <<store, orders, evaluated, lastEvent>>

NewPr ==
    /\ NextNo(store, "pr") <= MaxPrs
    /\ store' = CreatePr(store)
    /\ UNCHANGED <<item, orders, evaluated, lastEvent>>

NewRfq(p) ==
    /\ NextNo(store, "rfq") <= MaxRfqs
    /\ MayIssueRfq(store, p)
    /\ store' = IssueRfq(store, p)
    /\ UNCHANGED <<item, orders, evaluated, lastEvent>>

\* add_quote; the model takes one quote for each RFQ.
NewQuote(r) ==
    /\ QuotesOf(store, r) = {}
    /\ \E v \in Vendors, total \in Totals : store' = AddQuote(store, r, v, total)
    /\ UNCHANGED <<item, orders, evaluated, lastEvent>>

\* tbe.set_evaluation
Evaluate(r) ==
    /\ QuotesOf(store, r) # {}
    /\ evaluated' = evaluated \cup {r}
    /\ UNCHANGED <<item, store, orders, lastEvent>>

NewOrder(r) ==
    /\ NextNo(store, "po") <= MaxPos
    /\ \E q \in QuotesOf(store, r) : store' = Award(store, r, q)
    /\ LET n == NextNo(store, "po")
       IN  /\ orders' = Put(orders, n, [quantity |-> OrderedQty, status |-> "draft",
                                        ct |-> 0, sap |-> 0])
           /\ lastEvent' = Put(lastEvent, n, NoEvent)
    /\ UNCHANGED <<item, evaluated>>

PrReleased(p) ==
    /\ store' = ReleasePr(store, p)
    /\ UNCHANGED <<item, orders, evaluated, lastEvent>>

\* One more receipt of either channel is within the model's bound.
MayReceive(n) == orders[n].ct + orders[n].sap < MaxReceipts

SapReports(n, kind) ==
    /\ kind = "gr_posted" => MayReceive(n)
    /\ orders' = [orders EXCEPT ![n] = PO!ApplyToPo(@, kind, 1)]
    /\ UNCHANGED <<item, store, evaluated, lastEvent>>

SiteReceipt(n) ==
    /\ MayReceive(n)
    /\ orders' = [orders EXCEPT ![n] = PO!ApplyCtReceipt(@, 1)]
    /\ UNCHANGED <<item, store, evaluated, lastEvent>>

\* logistics.list_shipments leaves delivered orders out, and add_event looks
\* its order up there.
ListedShipments == {n \in DOMAIN orders : orders[n].status # "delivered"}

\* logistics.add_event: stages come in any order.
AddEvent(n, stage) ==
    /\ n \in ListedShipments
    /\ lastEvent' = [lastEvent EXCEPT ![n] = stage]
    /\ UNCHANGED <<item, store, orders, evaluated>>

-----------------------------------------------------------------------------
(* The map *)

\* logistics._current_stage, for an order that is listed; nothing sets an order
\* in_transit, so the fallback is manufacturing.
CurrentStage(n) ==
    IF lastEvent[n] # NoEvent THEN lastEvent[n] ELSE "manufacturing"

\* The map reads the shipment list through the read cache (module ReadCache); here
\* it is read as it is.
InTransit(n) == n \in ListedShipments /\ CurrentStage(n) \in Moving

\* Fault: the newest requisition stands for the line.
NewestPr == Max(DOMAIN store.prs)

\* _pr_progress: the furthest along, an order before an RFQ, then the newest.
FurthestPr ==
    LET With(f) == {p \in DOMAIN store.prs : store.prs[p][f] # None}
    IN  IF With("po") # {} THEN Max(With("po"))
        ELSE IF With("rfq") # {} THEN Max(With("rfq"))
        ELSE Max(DOMAIN store.prs)

Requisition == IF DOMAIN store.prs = {} THEN None ELSE FurthestPr
Order   == IF Requisition = None THEN None ELSE store.prs[Requisition].po
Request == IF Requisition = None THEN None ELSE store.prs[Requisition].rfq

\* Fault: goods under way hide what has arrived.
TransitBeforeSite(n) ==
    CASE orders[n].status = "delivered" -> "delivery"
      [] InTransit(n)                   -> "shipment"
      [] ~InTransit(n) /\ orders[n].ct > 0 -> "site_grn"
      [] OTHER                          -> "po"

\* _classify with an order.
StageOfOrder(n) ==
    CASE orders[n].status = "delivered" -> "delivery"
      [] orders[n].status # "delivered" /\ orders[n].ct > 0 -> "site_grn"
      [] orders[n].status # "delivered" /\ orders[n].ct = 0 ->
           IF InTransit(n) THEN "shipment" ELSE "po"

\* _classify with an RFQ and no order.
StageOfRequest(r) ==
    CASE store.rfqs[r].status = "awarded" -> "award"
      [] store.rfqs[r].status # "awarded" /\ r \in evaluated -> "technical_eval"
      [] store.rfqs[r].status # "awarded" /\ r \notin evaluated ->
           IF QuotesOf(store, r) # {} THEN "quotes" ELSE "rfq"

StageOfPr(p) ==
    CASE store.prs[p].status = "rfq_issued" -> "rfq"
      [] store.prs[p].status = "quoted"     -> "quotes"
      [] OTHER                              -> "pr"

\* _classify
Stage ==
    CASE item = "spec_missing" -> "spec"
      [] item = "delivered"    -> "delivery"
      [] item \notin {"spec_missing", "delivered"} ->
           IF Order # None THEN StageOfOrder(Order)
           ELSE IF Request # None THEN StageOfRequest(Request)
           ELSE IF Requisition # None THEN StageOfPr(Requisition)
           ELSE IF item = "ordered" THEN "po" ELSE "pr"

Rank(stage) == CHOOSE k \in DOMAIN STAGE_ORDER : STAGE_ORDER[k] = stage

OrderRow == [quantity : {OrderedQty}, status : PO!PoStatuses, ct : 0..MaxReceipts,
             sap : 0..MaxReceipts]

\* The rows of the store, and what every reader of it follows.
TypeOK ==
    /\ item \in ItemStatuses
    /\ \A p \in DOMAIN store.prs : store.prs[p] \in PurchaseRequisition
    /\ \A r \in DOMAIN store.rfqs : store.rfqs[r] \in RFQ
    /\ \A q \in DOMAIN store.quotes : store.quotes[q] \in Quote
    /\ \A a \in DOMAIN store.awards : store.awards[a] \in AwardRow
    /\ \A n \in DOMAIN store.pos : store.pos[n] \in SourcingPO
    /\ DOMAIN orders = DOMAIN store.pos
    /\ \A n \in DOMAIN orders : orders[n] \in OrderRow
    /\ evaluated \subseteq DOMAIN store.rfqs
    /\ DOMAIN lastEvent = DOMAIN orders
    /\ \A n \in DOMAIN orders : lastEvent[n] \in EventStages \cup {NoEvent}

Next ==
    \/ \E s \in ItemStatuses : Upload(s)
    \/ NewPr
    \/ \E p \in DOMAIN store.prs : NewRfq(p) \/ PrReleased(p)
    \/ \E r \in DOMAIN store.rfqs : NewQuote(r) \/ Evaluate(r) \/ NewOrder(r)
    \/ \E n \in DOMAIN orders :
          \/ \E kind \in PO!SapKinds : SapReports(n, kind)
          \/ SiteReceipt(n)
          \/ \E s \in EventStages : AddEvent(n, s)

Spec == Init /\ [][Next]_lineVars

-----------------------------------------------------------------------------
(* Properties *)

\* However often a line was requisitioned, and whatever SAP did to its
\* requisitions since, a line with an order is shown with its order.
OrderIsSeen ==
    item \notin {"spec_missing", "delivered"} /\ DOMAIN orders # {} =>
       Rank(Stage) >= Rank("po")

\* The step gives the line another requisition, RFQ or order to be judged by,
\* or takes something back: the BOM was rewritten, a shipment event says that
\* the goods do not move any more, or SAP released a delivered order again.
Restarted ==
    \/ item' # item
    \/ <<Requisition, Request, Order>>' # <<Requisition, Request, Order>>
    \/ \E n \in DOMAIN orders :
          \/ CurrentStage(n) \in Moving /\ CurrentStage(n)' \notin Moving
          \/ orders[n].status = "delivered" /\ orders'[n].status # "delivered"

\* Otherwise a line never moves back on the map, in whatever order quotes,
\* evaluations, receipts of both channels, SAP events and shipment events come.
LineNeverStepsBack == [][Restarted \/ Rank(Stage') >= Rank(Stage)]_lineVars
=============================================================================
