------------------------------ MODULE LineViews ------------------------------
(***************************************************************************)
(* What two more readers make of the documents of one BOM line: the        *)
(* traceability chain (audit.trace_from_bom) and the commercial lines      *)
(* (app/commercial.py).  Both walk the sourcing store on their own: the    *)
(* chain forward from the line, the commercial line backward from lists    *)
(* that are sorted newest first.  LineProgress has the store and its steps.*)
(*                                                                         *)
(* The chain's spec, SAP and invoice stages show one field of the line or  *)
(* of an order and are left out.                                           *)
(***************************************************************************)
EXTENDS LineProgress

CONSTANT Budget     \* of every requisition

-----------------------------------------------------------------------------
(* audit.trace_from_bom *)

\* The first award of an RFQ, as the table of awards has them.
TracedAward(r) ==
    LET awards == {a \in DOMAIN store.awards : store.awards[a].rfq = r}
    IN  IF awards = {} THEN None ELSE Min(awards)

\* The order of that award.
TracedOrders(r) ==
    {n \in DOMAIN orders : TracedAward(r) # None /\ store.pos[n].award = TracedAward(r)}

Link(stage, of, complete) == [stage |-> stage, of |-> of, complete |-> complete]

\* What the chain shows of an order: its receipts on site, and its shipment if
\* logistics.get_shipment finds one.
OrderLinks(n) ==
    {Link("po", n, orders[n].status \in {"released", "delivered"})}
    \cup {Link("site_grn", m, orders[m].ct >= orders[m].quantity) :
            m \in {k \in {n} : orders[k].ct > 0}}
    \cup {Link("shipment", m, CurrentStage(m) \in {"last_mile", "delivered"}) :
            m \in {n} \cap ListedShipments}
    \cup {Link("delivery", m, TRUE) :
            m \in {k \in {n} \cap ListedShipments : CurrentStage(k) = "delivered"}}

RequestLinks(r) ==
    {Link("rfq", r, store.rfqs[r].status = "awarded")}
    \cup {Link("quotes", r, Cardinality(QuotesOf(store, r)) >= 2) :
            q \in QuotesOf(store, r)}
    \cup {Link("award", a, TRUE) : a \in {TracedAward(r)} \ {None}}
    \cup UNION {OrderLinks(n) : n \in TracedOrders(r)}

Chain ==
    {Link("bom_item", None, TRUE)}
    \cup (IF DOMAIN store.prs = {} THEN {Link("pr", None, FALSE)} ELSE {})
    \cup {Link("pr", p, store.prs[p].status # "draft") : p \in DOMAIN store.prs}
    \cup UNION {RequestLinks(r) : r \in DOMAIN store.rfqs}

-----------------------------------------------------------------------------
(* commercial.build_commercial_lines *)

\* pos_by_pr: the last entry of a list that is sorted newest first.
OrdersOf(p) == {n \in DOMAIN orders : store.pos[n].pr = p}
FinalPo(p)  == IF OrdersOf(p) = {} THEN None ELSE Min(OrdersOf(p))

\* Fault: the award is looked up by requisition in that way too.
OldestAward(p) ==
    LET awards == {a \in DOMAIN store.awards : store.awards[a].pr = p}
    IN  IF awards = {} THEN None ELSE Min(awards)

\* The award the requisition names.
AwardOfPr(p) == store.prs[p].award

\* awarded_value_usd, quoted_value_usd; 0 where there is none.
AwardedValue(p) ==
    IF AwardOfPr(p) = None THEN 0
    ELSE store.quotes[store.awards[AwardOfPr(p)].quote].total

QuotedMin(p) ==
    LET r == store.prs[p].rfq
        totals == {store.quotes[q].total : q \in QuotesOf(store, r)}
    IN  IF r = None \/ totals = {} THEN 0 ELSE Min(totals)

FinalValue(p) == IF FinalPo(p) = None THEN 0 ELSE store.pos[FinalPo(p)].value

\* final_po or awarded or quoted_min
Reference(p) ==
    IF FinalValue(p) # 0 THEN FinalValue(p)
    ELSE IF AwardedValue(p) # 0 THEN AwardedValue(p) ELSE QuotedMin(p)

State(p) ==
    CASE FinalPo(p) # None \/ AwardOfPr(p) # None -> "awarded"
      [] FinalPo(p) = None /\ AwardOfPr(p) = None ->
           IF QuotedMin(p) # 0 THEN "quoted" ELSE "budget_only"

\* A reference of 0 is a quote of 0, which counts, or none at all.
HasReference(p) ==
    \/ Reference(p) # 0
    \/ store.prs[p].rfq # None /\ QuotesOf(store, store.prs[p].rfq) # {}

Savings(p) == IF HasReference(p) THEN Budget - Reference(p) ELSE 0

\* build_commercial_summary, for the one project there is.
Summary ==
    [awarded |-> MapThenSumSet(LAMBDA p :
                    IF AwardedValue(p) # 0 THEN AwardedValue(p) ELSE FinalValue(p),
                    DOMAIN store.prs),
     savings |-> MapThenSumSet(Savings, {p \in DOMAIN store.prs : Savings(p) > 0}),
     overruns |-> Cardinality({p \in DOMAIN store.prs : Reference(p) > Budget})]

\* The steps that change the sourcing store: the others leave the orders and
\* awards of both views as they are.
StoreNext ==
    \/ NewPr
    \/ \E p \in DOMAIN store.prs : NewRfq(p) \/ PrReleased(p)
    \/ \E r \in DOMAIN store.rfqs : NewQuote(r) \/ NewOrder(r)

-----------------------------------------------------------------------------
(* Properties *)

\* The order of the requisition now, through which everything else refers to it.
CurrentValue(p) ==
    IF store.prs[p].po = None THEN 0 ELSE store.pos[store.prs[p].po].value

\* However often requisitions are issued and awarded again: the awarded total of
\* the commercial summary is what the requisitions' current orders come to, and
\* the order a commercial line takes its savings from is in the line's chain.
ViewsNameTheSameOrders ==
    /\ Summary.awarded = MapThenSumSet(CurrentValue, DOMAIN store.prs)
    /\ \A p \in DOMAIN store.prs : State(p) = "awarded" =>
          \E link \in Chain : /\ link.stage = "po" /\ link.of \in OrdersOf(p)
                              /\ Savings(p) = Budget - store.pos[link.of].value

\* The chain goes "from a BOM item (or any entity) to delivery" (schemas.py:687):
\* one that shows a delivered order shows its delivery.
DeliveredEndsChain ==
    \A n \in DOMAIN orders :
       Link("po", n, TRUE) \in Chain /\ orders[n].status = "delivered" =>
          Link("delivery", n, TRUE) \in Chain
=============================================================================
