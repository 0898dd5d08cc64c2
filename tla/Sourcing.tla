------------------------------ MODULE Sourcing ------------------------------
(***************************************************************************)
(* The sourcing store (app/sourcing.py) as one record of tables and the    *)
(* functions that move it:                                                 *)
(*                                                                         *)
(*   prs     purchase requisitions  [status, rfq, award, po]               *)
(*   rfqs    requests for quotation [pr, status]                           *)
(*   quotes  [rfq, vendor, total]                                          *)
(*   awards  [rfq, pr, quote]                                              *)
(*   pos     sourcing orders        [award, rfq, pr, vendor, value]        *)
(*   counter the last number handed out, per kind                          *)
(*                                                                         *)
(* A table is a function from document numbers.  Numbers come from the     *)
(* counters, never from the tables, so a number is not reused after its    *)
(* document is gone.  0 is None.  Texts, dates, quantities and SAP fields  *)
(* are left out: nothing here decides from them.                           *)
(***************************************************************************)
EXTENDS Integers

CONSTANT Vendors

None == 0

PrStatuses  == {"draft", "rfq_issued", "quoted", "po_created"}
RfqStatuses == {"open", "quotes_received", "awarded"}

\* The record types of app/schemas.py.
PurchaseRequisition == [status : PrStatuses, rfq : Nat, award : Nat, po : Nat]
RFQ        == [pr : Nat, status : RfqStatuses]
Quote      == [rfq : Nat, vendor : Vendors, total : Nat]
AwardRow   == [rfq : Nat, pr : Nat, quote : Nat]
SourcingPO == [award : Nat, rfq : Nat, pr : Nat, vendor : Vendors, value : Nat]

EmptyTable == [k \in {} |-> None]

\* A dict with one key set.
Put(table, k, v) ==
    [x \in DOMAIN table \cup {k} |-> IF x = k THEN v ELSE table[x]]

EmptyStore ==
    [prs |-> EmptyTable, rfqs |-> EmptyTable, quotes |-> EmptyTable,
     awards |-> EmptyTable, pos |-> EmptyTable,
     counter |-> [pr |-> 0, rfq |-> 0, quote |-> 0, award |-> 0, po |-> 0]]

\* sourcing._next
NextNo(s, kind) == s.counter[kind] + 1

\* sourcing.create_pr
CreatePr(s) ==
    LET p == NextNo(s, "pr")
    IN  [s EXCEPT !.prs = Put(@, p, [status |-> "draft", rfq |-> None,
                                     award |-> None, po |-> None]),
                  !.counter.pr = p]

MayIssueRfq(s, p) == s.prs[p].status \in {"draft", "rfq_issued"}

\* sourcing.issue_rfq: a requisition may be issued again, and then points to
\* its latest RFQ only.
IssueRfq(s, p) ==
    LET r == NextNo(s, "rfq")
    IN  [s EXCEPT !.rfqs = Put(@, r, [pr |-> p, status |-> "open"]),
                  !.prs[p].status = "rfq_issued",
                  !.prs[p].rfq = r,
                  !.counter.rfq = r]

\* Fault: a quote moves its RFQ back from awarded.
AddQuoteReopens(s, r, vendor, total) ==
    LET q == NextNo(s, "quote")
        p == s.rfqs[r].pr
    IN  [s EXCEPT !.quotes = Put(@, q, [rfq |-> r, vendor |-> vendor,
                                        total |-> total]),
                  !.rfqs[r].status = "quotes_received",
                  !.prs[p].status = IF @ = "rfq_issued" THEN "quoted" ELSE @,
                  !.counter.quote = q]

\* Fault: the RFQ takes the requisition's status.
AddQuoteSharesStatus(s, r, vendor, total) ==
    LET q == NextNo(s, "quote")
        p == s.rfqs[r].pr
    IN  [s EXCEPT !.quotes = Put(@, q, [rfq |-> r, vendor |-> vendor,
                                        total |-> total]),
                  !.rfqs[r].status = IF @ = "open" THEN "quoted" ELSE @,
                  !.prs[p].status = IF @ = "rfq_issued" THEN "quoted" ELSE @,
                  !.counter.quote = q]

\* sourcing.add_quote: whatever the RFQ's status, and from any vendor.
AddQuote(s, r, vendor, total) ==
    LET q == NextNo(s, "quote")
        p == s.rfqs[r].pr
    IN  [s EXCEPT !.quotes = Put(@, q, [rfq |-> r, vendor |-> vendor,
                                        total |-> total]),
                  !.rfqs[r].status = IF @ = "open" THEN "quotes_received" ELSE @,
                  !.prs[p].status = IF @ = "rfq_issued" THEN "quoted" ELSE @,
                  !.counter.quote = q]

QuotesOf(s, r) == {q \in DOMAIN s.quotes : s.quotes[q].rfq = r}

VendorsOf(s, r) == {s.quotes[q].vendor : q \in QuotesOf(s, r)}

\* Fault: the requisition keeps the number of its first order.
AwardKeepsPo(s, r, q) ==
    LET a == NextNo(s, "award")
        n == NextNo(s, "po")
        p == s.rfqs[r].pr
    IN  [s EXCEPT !.awards = Put(@, a, [rfq |-> r, pr |-> p, quote |-> q]),
                  !.rfqs[r].status = "awarded",
                  !.pos = Put(@, n, [award |-> a, rfq |-> r, pr |-> p,
                                     vendor |-> s.quotes[q].vendor,
                                     value |-> s.quotes[q].total]),
                  !.prs[p] = [@ EXCEPT !.status = "po_created", !.award = a,
                                       !.po = IF @ = None THEN n ELSE @],
                  !.counter.award = a, !.counter.po = n]

\* sourcing.award_rfq for a quote of that RFQ, with _create_po_from_award.
\* Nothing asks whether the RFQ is awarded already.
Award(s, r, q) ==
    LET a == NextNo(s, "award")
        n == NextNo(s, "po")
        p == s.rfqs[r].pr
    IN  [s EXCEPT !.awards = Put(@, a, [rfq |-> r, pr |-> p, quote |-> q]),
                  !.rfqs[r].status = "awarded",
                  !.pos = Put(@, n, [award |-> a, rfq |-> r, pr |-> p,
                                     vendor |-> s.quotes[q].vendor,
                                     value |-> s.quotes[q].total]),
                  !.prs[p] = [@ EXCEPT !.status = "po_created", !.award = a,
                                       !.po = n],
                  !.counter.award = a, !.counter.po = n]

\* sourcing._apply_to_pr for pr_released: whatever the requisition's status,
\* it is ready to source again.
ReleasePr(s, p) == [s EXCEPT !.prs[p].status = "rfq_issued"]

\* approvals._po_for_award: the order of an award, found through its PR.
PoForAward(s, a) == s.prs[s.awards[a].pr].po
=============================================================================
