---------------------------- MODULE TraceProofs -----------------------------
(***************************************************************************)
(* What the desk shows of a line: the stage it has come to, the documents  *)
(* behind it, what the views say of its orders, and the receipts that its  *)
(* orders are traced to in the audit log.  Proved for every value of the   *)
(* constants, where the components run.                                    *)
(***************************************************************************)
EXTENDS Desk, FiniteSetTheorems, SequenceTheorems, Sums, TLAPS

\* A step of the desk is a step of the audit log, or leaves it alone.
LEMMA TrailRuns == Spec => Trail!Spec
<1>1. Init => Trail!Init
  BY DEF Init
<1>2. [Next]_deskVars => [Trail!Next]_(Trail!auditVars)
  BY DEF Next, Rest, deskVars, auditVars, Trail!auditVars
<1> QED
  BY <1>1, <1>2, PTL DEF Spec, Trail!Spec

-----------------------------------------------------------------------------
(* One line and its documents *)

\* A store is its fields, and numbers are handed out from zero.
Whole(s) ==
    /\ s = [prs |-> s.prs, rfqs |-> s.rfqs, quotes |-> s.quotes, awards |-> s.awards,
            pos |-> s.pos, counter |-> s.counter]
    /\ s.counter \in [pr : Nat, rfq : Nat, quote : Nat, award : Nat, po : Nat]

\* Rows have their types, and numbers that have been handed out.
Rows(s) ==
    /\ \A p \in DOMAIN s.prs : s.prs[p] \in Line!PurchaseRequisition
    /\ \A r \in DOMAIN s.rfqs : s.rfqs[r] \in Line!RFQ
    /\ \A q \in DOMAIN s.quotes : s.quotes[q] \in Line!Quote
    /\ \A a \in DOMAIN s.awards : s.awards[a] \in Line!AwardRow
    /\ \A n \in DOMAIN s.pos : s.pos[n] \in Line!SourcingPO
    /\ \A p \in DOMAIN s.prs : p \in Nat \ {0} /\ p <= s.counter.pr
    /\ \A r \in DOMAIN s.rfqs : r \in Nat \ {0} /\ r <= s.counter.rfq
    /\ \A q \in DOMAIN s.quotes : q \in Nat \ {0} /\ q <= s.counter.quote
    /\ \A n \in DOMAIN s.pos : n \in Nat \ {0} /\ n <= s.counter.po

\* A requisition, its RFQs and their quotes lead to each other.
Asked(s) ==
    /\ \A p \in DOMAIN s.prs :
          /\ s.prs[p].rfq # 0 => s.prs[p].rfq \in DOMAIN s.rfqs
          /\ s.prs[p].rfq = 0 => s.prs[p].status \in {"draft", "rfq_issued"}
    /\ \A r \in DOMAIN s.rfqs : /\ s.rfqs[r].pr \in DOMAIN s.prs
                                /\ s.prs[s.rfqs[r].pr].rfq # 0
    /\ \A q \in DOMAIN s.quotes : s.quotes[q].rfq \in DOMAIN s.rfqs

\* A requisition leads to the order it names.
OrderNamed(s, p, pr) ==
    /\ pr.award = pr.po
    /\ pr.po # 0 => pr.po \in DOMAIN s.pos /\ s.pos[pr.po].pr = p

\* An order leads back to its requisition, and an order and its award are made
\* together and are of the same RFQ and quote.
OrderPlaced(s, n, po, aw) ==
    /\ po.pr \in DOMAIN s.prs /\ s.prs[po.pr].po # 0
    /\ po.rfq \in DOMAIN s.rfqs /\ s.rfqs[po.rfq].pr = po.pr
    /\ po.award = n
    /\ aw.rfq = po.rfq /\ aw.pr = po.pr
    /\ aw.quote \in DOMAIN s.quotes
    /\ s.quotes[aw.quote].total = po.value

Ordered(s) ==
    /\ s.counter.award = s.counter.po
    /\ DOMAIN s.awards = DOMAIN s.pos
    /\ \A p \in DOMAIN s.prs : OrderNamed(s, p, s.prs[p])
    /\ \A n \in DOMAIN s.pos : OrderPlaced(s, n, s.pos[n], s.awards[n])

StoreFits(s) == Whole(s) /\ Rows(s) /\ Asked(s) /\ Ordered(s)

\* What no function of the store takes back.
Onward(s, t) ==
    /\ \A p \in DOMAIN s.prs :
          p \in DOMAIN t.prs /\ (t.prs[p].status = "draft" => s.prs[p].status = "draft")
    /\ \A r \in DOMAIN s.rfqs :
          r \in DOMAIN t.rfqs /\ (s.rfqs[r].status = "awarded" => t.rfqs[r].status = "awarded")
    /\ \A q \in DOMAIN s.quotes : q \in DOMAIN t.quotes /\ t.quotes[q] = s.quotes[q]

\* Orders and awards are left alone, and what they refer to stays.
OrdersStay(s, t) ==
    /\ t.awards = s.awards /\ t.pos = s.pos
    /\ t.counter.award = s.counter.award /\ t.counter.po = s.counter.po
    /\ \A p \in DOMAIN s.prs : /\ p \in DOMAIN t.prs /\ t.prs[p].po = s.prs[p].po
                               /\ t.prs[p].award = s.prs[p].award
    /\ \A p \in DOMAIN t.prs \ DOMAIN s.prs : t.prs[p].po = 0 /\ t.prs[p].award = 0
    /\ \A r \in DOMAIN s.rfqs : r \in DOMAIN t.rfqs /\ t.rfqs[r].pr = s.rfqs[r].pr
    /\ \A q \in DOMAIN s.quotes : q \in DOMAIN t.quotes /\ t.quotes[q] = s.quotes[q]

LEMMA OrderedKept ==
    ASSUME NEW s, NEW t, Ordered(s), OrdersStay(s, t)
    PROVE  Ordered(t)
<1>1. /\ t.counter.award = t.counter.po /\ DOMAIN t.awards = DOMAIN t.pos
      /\ t.awards = s.awards /\ t.pos = s.pos
  BY Zenon DEF Ordered, OrdersStay
<1>2. ASSUME NEW p \in DOMAIN t.prs
      PROVE  OrderNamed(t, p, t.prs[p])
  <2>1. CASE p \in DOMAIN s.prs
    <3>1. OrderNamed(s, p, s.prs[p])
      BY Zenon, <2>1 DEF Ordered
    <3>2. t.prs[p].po = s.prs[p].po /\ t.prs[p].award = s.prs[p].award
      BY Zenon, <2>1 DEF OrdersStay
    <3> QED
      BY ZenonT(60), <1>1, <3>1, <3>2 DEF OrderNamed
  <2>2. CASE p \notin DOMAIN s.prs
    <3>1. t.prs[p].po = 0 /\ t.prs[p].award = 0
      BY <2>2 DEF OrdersStay
    <3> QED
      BY Zenon, <3>1 DEF OrderNamed
  <2> QED
    BY Zenon, <2>1, <2>2
<1>3. ASSUME NEW n \in DOMAIN t.pos
      PROVE  OrderPlaced(t, n, t.pos[n], t.awards[n])
  <2>1. PICK po, aw : po = t.pos[n] /\ aw = t.awards[n]
    OBVIOUS
  <2>2. OrderPlaced(s, n, po, aw)
    BY Zenon, <1>1, <2>1 DEF Ordered
  <2>3. /\ po.pr \in DOMAIN s.prs => po.pr \in DOMAIN t.prs /\ t.prs[po.pr].po = s.prs[po.pr].po
        /\ po.rfq \in DOMAIN s.rfqs => po.rfq \in DOMAIN t.rfqs /\ t.rfqs[po.rfq].pr = s.rfqs[po.rfq].pr
        /\ aw.quote \in DOMAIN s.quotes =>
              aw.quote \in DOMAIN t.quotes /\ t.quotes[aw.quote] = s.quotes[aw.quote]
    BY Zenon DEF OrdersStay
  <2>4. OrderPlaced(t, n, po, aw)
    BY ZenonT(60), <2>2, <2>3 DEF OrderPlaced
  <2> QED
    BY Zenon, <2>1, <2>4
<1> QED
  BY Zenon, <1>1, <1>2, <1>3 DEF Ordered

\* Requisitions and RFQs keep leading to each other.
LeadsStay(s, t) ==
    /\ DOMAIN t.prs = DOMAIN s.prs /\ DOMAIN t.rfqs = DOMAIN s.rfqs
    /\ \A p \in DOMAIN s.prs : /\ t.prs[p].rfq = s.prs[p].rfq
                               /\ s.prs[p].rfq = 0 => t.prs[p].status = s.prs[p].status
    /\ \A r \in DOMAIN s.rfqs : t.rfqs[r].pr = s.rfqs[r].pr
    /\ \A q \in DOMAIN t.quotes : t.quotes[q].rfq \in DOMAIN s.rfqs

LEMMA AskedKept ==
    ASSUME NEW s, NEW t, Asked(s), LeadsStay(s, t)
    PROVE  Asked(t)
<1>1. ASSUME NEW p \in DOMAIN t.prs
      PROVE  /\ t.prs[p].rfq # 0 => t.prs[p].rfq \in DOMAIN t.rfqs
             /\ t.prs[p].rfq = 0 => t.prs[p].status \in {"draft", "rfq_issued"}
  <2>1. p \in DOMAIN s.prs /\ DOMAIN t.rfqs = DOMAIN s.rfqs
    BY Zenon DEF LeadsStay
  <2>2. /\ s.prs[p].rfq # 0 => s.prs[p].rfq \in DOMAIN s.rfqs
        /\ s.prs[p].rfq = 0 => s.prs[p].status \in {"draft", "rfq_issued"}
    BY Zenon, <2>1 DEF Asked
  <2>3. /\ t.prs[p].rfq = s.prs[p].rfq
        /\ s.prs[p].rfq = 0 => t.prs[p].status = s.prs[p].status
    BY <2>1 DEF LeadsStay
  <2> QED
    BY Zenon, <2>1, <2>2, <2>3
<1>2. ASSUME NEW r \in DOMAIN t.rfqs
      PROVE  t.rfqs[r].pr \in DOMAIN t.prs /\ t.prs[t.rfqs[r].pr].rfq # 0
  <2>1. PICK p : p = s.rfqs[r].pr
    OBVIOUS
  <2>2. r \in DOMAIN s.rfqs /\ t.rfqs[r].pr = p
    BY <2>1 DEF LeadsStay
  <2>3. p \in DOMAIN s.prs /\ s.prs[p].rfq # 0
    BY Zenon, <2>1, <2>2 DEF Asked
  <2>4. p \in DOMAIN t.prs /\ t.prs[p].rfq = s.prs[p].rfq
    BY <2>3 DEF LeadsStay
  <2> QED
    BY Zenon, <2>2, <2>3, <2>4
<1>3. \A q \in DOMAIN t.quotes : t.quotes[q].rfq \in DOMAIN t.rfqs
  BY Zenon DEF LeadsStay
<1> QED
  BY Zenon, <1>1, <1>2, <1>3 DEF Asked

\* A row is added under a new number, and the other rows stay.
Added(f, g, k, row) ==
    /\ DOMAIN g = DOMAIN f \cup {k} /\ g[k] = row
    /\ \A x \in DOMAIN f : g[x] = f[x]

LEMMA PutNew ==
    ASSUME NEW f, NEW k, k \notin DOMAIN f, NEW row
    PROVE  Added(f, Line!Put(f, k, row), k, row)
  BY DEF Line!Put, Added

\* sourcing.create_pr
LEMMA LineCreatesPr ==
    ASSUME NEW s, StoreFits(s), NEW t, t = Line!CreatePr(s)
    PROVE  /\ StoreFits(t) /\ Onward(s, t)
           /\ t.pos = s.pos /\ t.quotes = s.quotes
<1> DEFINE row == [status |-> "draft", rfq |-> Line!None, award |-> Line!None, po |-> Line!None]
<1>0. PICK p : p = s.counter.pr + 1
  OBVIOUS
<1>1. t = [s EXCEPT !.prs = Line!Put(@, p, row), !.counter.pr = p]
  BY <1>0 DEF Line!CreatePr, Line!NextNo
<1> HIDE DEF row
<1>2. /\ Whole(s) /\ Rows(s) /\ Asked(s) /\ Ordered(s)
      /\ s.counter.pr \in Nat /\ p \in Nat \ {0} /\ p \notin DOMAIN s.prs
  BY <1>0 DEF StoreFits, Whole, Rows
<1>3. /\ t.prs = Line!Put(s.prs, p, row)
      /\ t.rfqs = s.rfqs /\ t.quotes = s.quotes /\ t.awards = s.awards /\ t.pos = s.pos
      /\ t.counter = [s.counter EXCEPT !.pr = p]
      /\ t = [prs |-> t.prs, rfqs |-> t.rfqs, quotes |-> t.quotes, awards |-> t.awards,
              pos |-> t.pos, counter |-> t.counter]
  BY <1>1, <1>2 DEF Whole
<1>4. /\ Whole(t) /\ t.counter.pr = p /\ t.counter.rfq = s.counter.rfq
      /\ t.counter.quote = s.counter.quote /\ t.counter.award = s.counter.award
      /\ t.counter.po = s.counter.po
  BY <1>2, <1>3 DEF Whole
<1>5. /\ DOMAIN t.prs = DOMAIN s.prs \cup {p} /\ t.prs[p] = row
      /\ \A x \in DOMAIN s.prs : t.prs[x] = s.prs[x]
  <2>1. p \notin DOMAIN s.prs /\ t.prs = Line!Put(s.prs, p, row)
    BY <1>2, <1>3
  <2>2. Added(s.prs, t.prs, p, row)
    BY <2>1, PutNew
  <2> QED
    BY <2>2 DEF Added
<1>6. /\ row \in Line!PurchaseRequisition /\ row.status = "draft"
      /\ row.rfq = 0 /\ row.po = 0 /\ row.award = 0
  BY DEF row, Line!PurchaseRequisition, Line!PrStatuses, Line!None
<1>7. Rows(t)
  BY <1>0, <1>2, <1>3, <1>4, <1>5, <1>6 DEF Rows
<1>8. Asked(t)
  BY SMTT(60), <1>2, <1>3, <1>5, <1>6 DEF Asked
<1>9. Ordered(t)
  <2>1. OrdersStay(s, t)
    BY <1>2, <1>3, <1>4, <1>5, <1>6 DEF OrdersStay
  <2> QED
    BY Zenon, <1>2, <2>1, OrderedKept
<1>10. Onward(s, t)
  BY <1>3, <1>5 DEF Onward
<1> QED
  BY <1>3, <1>4, <1>7, <1>8, <1>9, <1>10 DEF StoreFits

\* sourcing.issue_rfq
LEMMA LineIssuesRfq ==
    ASSUME NEW s, StoreFits(s), NEW p \in DOMAIN s.prs, NEW t, t = Line!IssueRfq(s, p)
    PROVE  /\ StoreFits(t) /\ Onward(s, t)
           /\ t.pos = s.pos /\ t.quotes = s.quotes
<1> DEFINE row == [pr |-> p, status |-> "open"]
<1>0. PICK r : r = s.counter.rfq + 1
  OBVIOUS
<1>1. t = [s EXCEPT !.rfqs = Line!Put(@, r, row), !.prs[p].status = "rfq_issued",
                    !.prs[p].rfq = r, !.counter.rfq = r]
  BY <1>0 DEF Line!IssueRfq, Line!NextNo
<1> HIDE DEF row
<1>2. /\ Whole(s) /\ Rows(s) /\ Asked(s) /\ Ordered(s)
      /\ s.counter.rfq \in Nat /\ r \in Nat \ {0} /\ r \notin DOMAIN s.rfqs
      /\ s.prs[p] \in Line!PurchaseRequisition
  BY <1>0 DEF StoreFits, Whole, Rows
<1>3. /\ t.prs = [s.prs EXCEPT ![p] = [@ EXCEPT !.status = "rfq_issued", !.rfq = r]]
      /\ t.rfqs = Line!Put(s.rfqs, r, row)
      /\ t.quotes = s.quotes /\ t.awards = s.awards /\ t.pos = s.pos
      /\ t.counter = [s.counter EXCEPT !.rfq = r]
      /\ t = [prs |-> t.prs, rfqs |-> t.rfqs, quotes |-> t.quotes, awards |-> t.awards,
              pos |-> t.pos, counter |-> t.counter]
  <2>1. t.prs = [s.prs EXCEPT ![p] = [@ EXCEPT !.status = "rfq_issued", !.rfq = r]]
    BY <1>1, <1>2 DEF Whole
  <2>2. t.rfqs = Line!Put(s.rfqs, r, row) /\ t.counter = [s.counter EXCEPT !.rfq = r]
    BY <1>1, <1>2 DEF Whole
  <2>3. /\ t.quotes = s.quotes /\ t.awards = s.awards /\ t.pos = s.pos
        /\ t = [prs |-> t.prs, rfqs |-> t.rfqs, quotes |-> t.quotes, awards |-> t.awards,
                pos |-> t.pos, counter |-> t.counter]
    BY <1>1, <1>2 DEF Whole
  <2> QED
    BY <2>1, <2>2, <2>3
<1>4. /\ Whole(t) /\ t.counter.rfq = r /\ t.counter.pr = s.counter.pr
      /\ t.counter.quote = s.counter.quote /\ t.counter.award = s.counter.award
      /\ t.counter.po = s.counter.po
  BY <1>2, <1>3 DEF Whole
<1>5. /\ DOMAIN t.rfqs = DOMAIN s.rfqs \cup {r} /\ t.rfqs[r] = row
      /\ \A x \in DOMAIN s.rfqs : t.rfqs[x] = s.rfqs[x]
  <2>1. r \notin DOMAIN s.rfqs /\ t.rfqs = Line!Put(s.rfqs, r, row)
    BY <1>2, <1>3
  <2>2. Added(s.rfqs, t.rfqs, r, row)
    BY <2>1, PutNew
  <2> QED
    BY <2>2 DEF Added
<1>6. row \in [pr : {p}, status : {"open"}] /\ row.pr = p /\ row.status = "open"
  BY DEF row
<1>7. /\ DOMAIN t.prs = DOMAIN s.prs
      /\ t.prs[p] \in Line!PurchaseRequisition
      /\ t.prs[p].status = "rfq_issued" /\ t.prs[p].rfq = r
      /\ t.prs[p].po = s.prs[p].po /\ t.prs[p].award = s.prs[p].award
      /\ \A x \in DOMAIN s.prs : x # p => t.prs[x] = s.prs[x]
  <2>1. PICK pr : pr = s.prs[p]
    OBVIOUS
  <2>2. pr \in Line!PurchaseRequisition
    BY <1>2, <2>1
  <2>3. /\ DOMAIN t.prs = DOMAIN s.prs
        /\ t.prs[p] = [pr EXCEPT !.status = "rfq_issued", !.rfq = r]
        /\ \A x \in DOMAIN s.prs : x # p => t.prs[x] = s.prs[x]
    BY <1>3, <2>1
  <2> QED
    BY <1>2, <2>1, <2>2, <2>3 DEF Line!PurchaseRequisition, Line!PrStatuses
<1>8. row \in Line!RFQ
  BY <1>2, <1>6 DEF Line!RFQ, Line!RfqStatuses, Rows
<1>9. Rows(t)
  BY SMTT(60), <1>0, <1>2, <1>3, <1>4, <1>5, <1>7, <1>8 DEF Rows
<1>10. Asked(t)
  BY SMTT(60), <1>2, <1>3, <1>5, <1>6, <1>7 DEF Asked
<1>11. Ordered(t)
  <2>1. OrdersStay(s, t)
    BY <1>2, <1>3, <1>4, <1>5, <1>7 DEF OrdersStay
  <2> QED
    BY Zenon, <1>2, <2>1, OrderedKept
<1>12. Onward(s, t)
  BY <1>3, <1>5, <1>7 DEF Onward
<1> QED
  BY <1>3, <1>4, <1>9, <1>10, <1>11, <1>12 DEF StoreFits

\* sourcing.add_quote
LEMMA LineAddsQuote ==
    ASSUME NEW s, StoreFits(s), NEW r \in DOMAIN s.rfqs, NEW vendor \in LineVendors,
           NEW total \in Nat, NEW t, t = Line!AddQuote(s, r, vendor, total)
    PROVE  /\ StoreFits(t) /\ Onward(s, t) /\ t.pos = s.pos
           /\ \A q \in DOMAIN t.quotes : q \in DOMAIN s.quotes \/ t.quotes[q].total = total
<1> DEFINE row == [rfq |-> r, vendor |-> vendor, total |-> total]
<1>0. PICK q, p : q = s.counter.quote + 1 /\ p = s.rfqs[r].pr
  OBVIOUS
<1>1. t = [s EXCEPT !.quotes = Line!Put(@, q, row),
                    !.rfqs[r].status = IF @ = "open" THEN "quotes_received" ELSE @,
                    !.prs[p].status = IF @ = "rfq_issued" THEN "quoted" ELSE @,
                    !.counter.quote = q]
  BY <1>0 DEF Line!AddQuote, Line!NextNo
<1> HIDE DEF row
<1>2. /\ Whole(s) /\ Rows(s) /\ Asked(s) /\ Ordered(s)
      /\ s.counter.quote \in Nat /\ q \in Nat \ {0} /\ q \notin DOMAIN s.quotes
      /\ p \in DOMAIN s.prs /\ s.prs[p] \in Line!PurchaseRequisition
      /\ s.rfqs[r] \in Line!RFQ /\ r \in Nat
  BY <1>0 DEF StoreFits, Whole, Rows, Asked
<1>3. /\ t.prs = [s.prs EXCEPT ![p].status = IF @ = "rfq_issued" THEN "quoted" ELSE @]
      /\ t.rfqs = [s.rfqs EXCEPT ![r].status = IF @ = "open" THEN "quotes_received" ELSE @]
      /\ t.quotes = Line!Put(s.quotes, q, row)
      /\ t.awards = s.awards /\ t.pos = s.pos
      /\ t.counter = [s.counter EXCEPT !.quote = q]
      /\ t = [prs |-> t.prs, rfqs |-> t.rfqs, quotes |-> t.quotes, awards |-> t.awards,
              pos |-> t.pos, counter |-> t.counter]
  BY <1>1, <1>2 DEF Whole
<1>4. /\ Whole(t) /\ t.counter.quote = q /\ t.counter.pr = s.counter.pr
      /\ t.counter.rfq = s.counter.rfq /\ t.counter.award = s.counter.award
      /\ t.counter.po = s.counter.po
  BY <1>2, <1>3 DEF Whole
<1>5. /\ DOMAIN t.quotes = DOMAIN s.quotes \cup {q} /\ t.quotes[q] = row
      /\ \A x \in DOMAIN s.quotes : t.quotes[x] = s.quotes[x]
  <2>1. q \notin DOMAIN s.quotes /\ t.quotes = Line!Put(s.quotes, q, row)
    BY <1>2, <1>3
  <2>2. Added(s.quotes, t.quotes, q, row)
    BY <2>1, PutNew
  <2> QED
    BY <2>2 DEF Added
<1>6. row \in Line!Quote /\ row.rfq = r /\ row.total = total
  BY <1>2 DEF row, Line!Quote
<1>7. /\ DOMAIN t.prs = DOMAIN s.prs
      /\ t.prs[p] \in Line!PurchaseRequisition
      /\ t.prs[p].status = IF s.prs[p].status = "rfq_issued" THEN "quoted" ELSE s.prs[p].status
      /\ t.prs[p].rfq = s.prs[p].rfq
      /\ t.prs[p].po = s.prs[p].po /\ t.prs[p].award = s.prs[p].award
      /\ \A x \in DOMAIN s.prs : x # p => t.prs[x] = s.prs[x]
  BY <1>2, <1>3 DEF Line!PurchaseRequisition, Line!PrStatuses
<1>8. /\ DOMAIN t.rfqs = DOMAIN s.rfqs
      /\ t.rfqs[r] \in Line!RFQ /\ t.rfqs[r].pr = s.rfqs[r].pr
      /\ s.rfqs[r].status = "awarded" => t.rfqs[r].status = "awarded"
      /\ \A x \in DOMAIN s.rfqs : x # r => t.rfqs[x] = s.rfqs[x]
  BY SMTT(60), <1>2, <1>3 DEF Line!RFQ, Line!RfqStatuses
<1>9. Rows(t)
  <2>1. /\ \A x \in DOMAIN t.prs : t.prs[x] \in Line!PurchaseRequisition
        /\ \A x \in DOMAIN t.prs : x \in Nat \ {0} /\ x <= t.counter.pr
    BY <1>2, <1>4, <1>7 DEF Rows
  <2>2. /\ \A x \in DOMAIN t.rfqs : t.rfqs[x] \in Line!RFQ
        /\ \A x \in DOMAIN t.rfqs : x \in Nat \ {0} /\ x <= t.counter.rfq
    BY <1>2, <1>4, <1>8 DEF Rows
  <2>3. /\ \A x \in DOMAIN t.quotes : t.quotes[x] \in Line!Quote
        /\ \A x \in DOMAIN t.quotes : x \in Nat \ {0} /\ x <= t.counter.quote
    BY SMTT(60), <1>0, <1>2, <1>4, <1>5, <1>6 DEF Rows
  <2> QED
    BY SMTT(60), <1>2, <1>3, <1>4, <2>1, <2>2, <2>3 DEF Rows
<1>10. Asked(t)
  <2>1. s.prs[p].rfq # 0
    BY ZenonT(60), <1>0, <1>2 DEF Asked
  <2>2. \A x \in DOMAIN t.quotes : t.quotes[x].rfq \in DOMAIN s.rfqs
    BY <1>2, <1>5, <1>6, <1>8 DEF Asked
  <2>3. LeadsStay(s, t)
    BY <1>2, <1>7, <1>8, <2>1, <2>2 DEF LeadsStay
  <2> QED
    BY Zenon, <1>2, <2>3, AskedKept
<1>11. Ordered(t)
  <2>1. OrdersStay(s, t)
    BY <1>2, <1>3, <1>4, <1>5, <1>7, <1>8 DEF OrdersStay
  <2> QED
    BY Zenon, <1>2, <2>1, OrderedKept
<1>12. Onward(s, t)
  BY SMTT(60), <1>5, <1>7, <1>8 DEF Onward
<1> QED
  BY <1>3, <1>4, <1>5, <1>6, <1>9, <1>10, <1>11, <1>12 DEF StoreFits

\* sourcing.award_rfq
LEMMA LineAwards ==
    ASSUME NEW s, StoreFits(s), NEW r \in DOMAIN s.rfqs, NEW q \in DOMAIN s.quotes,
           NEW t, t = Line!Award(s, r, q)
    PROVE  /\ StoreFits(t) /\ Onward(s, t)
           /\ t.quotes = s.quotes
           /\ t.counter.po = s.counter.po + 1
           /\ t.counter.po \notin DOMAIN s.pos
           /\ DOMAIN t.pos = DOMAIN s.pos \cup {t.counter.po}
<1>0. PICK a, n, p : a = s.counter.award + 1 /\ n = s.counter.po + 1 /\ p = s.rfqs[r].pr
  OBVIOUS
<1> DEFINE award == [rfq |-> r, pr |-> p, quote |-> q]
           order == [award |-> a, rfq |-> r, pr |-> p, vendor |-> s.quotes[q].vendor,
                     value |-> s.quotes[q].total]
<1>1. t = [s EXCEPT !.awards = Line!Put(@, a, award),
                    !.rfqs[r].status = "awarded",
                    !.pos = Line!Put(@, n, order),
                    !.prs[p] = [@ EXCEPT !.status = "po_created", !.award = a, !.po = n],
                    !.counter.award = a, !.counter.po = n]
  BY SMTT(60), <1>0 DEF Line!Award, Line!NextNo
<1> HIDE DEF award, order
<1>2. /\ Whole(s) /\ Rows(s) /\ Asked(s) /\ Ordered(s)
      /\ s.counter.award = s.counter.po /\ s.counter.po \in Nat
      /\ a = n /\ n \in Nat \ {0} /\ n \notin DOMAIN s.pos /\ n \notin DOMAIN s.awards
      /\ p \in DOMAIN s.prs /\ s.prs[p] \in Line!PurchaseRequisition
      /\ s.rfqs[r] \in Line!RFQ /\ r \in Nat /\ q \in Nat /\ p \in Nat
      /\ s.quotes[q] \in Line!Quote
  BY <1>0 DEF StoreFits, Whole, Rows, Asked, Ordered, OrderNamed, OrderPlaced
<1>3. /\ t.prs = [s.prs EXCEPT ![p] = [@ EXCEPT !.status = "po_created", !.award = a, !.po = n]]
      /\ t.rfqs = [s.rfqs EXCEPT ![r].status = "awarded"]
      /\ t.quotes = s.quotes
      /\ t.awards = Line!Put(s.awards, a, award)
      /\ t.pos = Line!Put(s.pos, n, order)
      /\ t.counter = [s.counter EXCEPT !.award = a, !.po = n]
      /\ t = [prs |-> t.prs, rfqs |-> t.rfqs, quotes |-> t.quotes, awards |-> t.awards,
              pos |-> t.pos, counter |-> t.counter]
  <2>1. t.prs = [s.prs EXCEPT ![p] = [@ EXCEPT !.status = "po_created", !.award = a, !.po = n]]
    BY <1>1, <1>2 DEF Whole
  <2>2. t.rfqs = [s.rfqs EXCEPT ![r].status = "awarded"] /\ t.quotes = s.quotes
    BY <1>1, <1>2 DEF Whole
  <2>3. /\ t.awards = Line!Put(s.awards, a, award)
        /\ t.pos = Line!Put(s.pos, n, order)
        /\ t.counter = [s.counter EXCEPT !.award = a, !.po = n]
    BY <1>1, <1>2 DEF Whole
  <2>4. t = [prs |-> t.prs, rfqs |-> t.rfqs, quotes |-> t.quotes, awards |-> t.awards,
             pos |-> t.pos, counter |-> t.counter]
    BY <1>1, <1>2 DEF Whole
  <2> QED
    BY <2>1, <2>2, <2>3, <2>4
<1>4. /\ Whole(t) /\ t.counter.award = n /\ t.counter.po = n
      /\ t.counter.pr = s.counter.pr /\ t.counter.rfq = s.counter.rfq
      /\ t.counter.quote = s.counter.quote
  BY ZenonT(60), <1>2, <1>3 DEF Whole
<1>5. /\ DOMAIN t.pos = DOMAIN s.pos \cup {n} /\ t.pos[n] = order
      /\ \A x \in DOMAIN s.pos : t.pos[x] = s.pos[x]
  <2>1. n \notin DOMAIN s.pos /\ t.pos = Line!Put(s.pos, n, order)
    BY <1>2, <1>3
  <2>2. Added(s.pos, t.pos, n, order)
    BY <2>1, PutNew
  <2> QED
    BY <2>2 DEF Added
<1>6. /\ DOMAIN t.awards = DOMAIN s.awards \cup {n} /\ t.awards[n] = award
      /\ \A x \in DOMAIN s.awards : t.awards[x] = s.awards[x]
  <2>1. n \notin DOMAIN s.awards /\ t.awards = Line!Put(s.awards, n, award)
    BY <1>2, <1>3
  <2>2. Added(s.awards, t.awards, n, award)
    BY <2>1, PutNew
  <2> QED
    BY <2>2 DEF Added
<1>7. /\ award \in Line!AwardRow /\ award.rfq = r /\ award.pr = p /\ award.quote = q
      /\ order \in Line!SourcingPO /\ order.award = n /\ order.rfq = r /\ order.pr = p
      /\ order.value = s.quotes[q].total
  BY <1>2 DEF award, order, Line!AwardRow, Line!SourcingPO, Line!Quote
<1>8. /\ DOMAIN t.prs = DOMAIN s.prs
      /\ t.prs[p] \in Line!PurchaseRequisition
      /\ t.prs[p].status = "po_created" /\ t.prs[p].rfq = s.prs[p].rfq
      /\ t.prs[p].po = n /\ t.prs[p].award = n
      /\ \A x \in DOMAIN s.prs : x # p => t.prs[x] = s.prs[x]
  <2>1. t.prs[p] = [s.prs[p] EXCEPT !.status = "po_created", !.award = a, !.po = n]
    BY <1>2, <1>3
  <2> QED
    BY <1>2, <1>3, <2>1 DEF Line!PurchaseRequisition, Line!PrStatuses
<1>9. /\ DOMAIN t.rfqs = DOMAIN s.rfqs
      /\ t.rfqs[r] \in Line!RFQ /\ t.rfqs[r].pr = s.rfqs[r].pr /\ t.rfqs[r].status = "awarded"
      /\ \A x \in DOMAIN s.rfqs : x # r => t.rfqs[x] = s.rfqs[x]
  BY <1>2, <1>3 DEF Line!RFQ, Line!RfqStatuses
<1>10. Rows(t)
  <2>1. /\ \A x \in DOMAIN t.prs : t.prs[x] \in Line!PurchaseRequisition
        /\ \A x \in DOMAIN t.prs : x \in Nat \ {0} /\ x <= t.counter.pr
    BY <1>2, <1>4, <1>8 DEF Rows
  <2>2. /\ \A x \in DOMAIN t.rfqs : t.rfqs[x] \in Line!RFQ
        /\ \A x \in DOMAIN t.rfqs : x \in Nat \ {0} /\ x <= t.counter.rfq
    BY <1>2, <1>4, <1>9 DEF Rows
  <2>3. /\ \A x \in DOMAIN t.awards : t.awards[x] \in Line!AwardRow
        /\ \A x \in DOMAIN t.pos : t.pos[x] \in Line!SourcingPO
    BY <1>2, <1>5, <1>6, <1>7 DEF Rows
  <2>4. \A x \in DOMAIN t.pos : x \in Nat \ {0} /\ x <= t.counter.po
    BY SMTT(60), <1>0, <1>2, <1>4, <1>5 DEF Rows
  <2> QED
    BY <1>2, <1>3, <1>4, <2>1, <2>2, <2>3, <2>4 DEF Rows
<1>11. Asked(t)
  <2>1. s.prs[p].rfq # 0
    BY ZenonT(60), <1>0, <1>2 DEF Asked
  <2>2. \A x \in DOMAIN t.quotes : t.quotes[x].rfq \in DOMAIN s.rfqs
    BY <1>2, <1>3 DEF Asked
  <2>3. LeadsStay(s, t)
    BY <1>2, <1>8, <1>9, <2>1, <2>2 DEF LeadsStay
  <2> QED
    BY Zenon, <1>2, <2>3, AskedKept
<1>12. Ordered(t)
  <2>1. Ordered(s)
    BY <1>2
  <2>2. t.counter.award = t.counter.po /\ DOMAIN t.awards = DOMAIN t.pos
    BY Zenon, <1>4, <1>5, <1>6, <2>1 DEF Ordered
  <2>3. ASSUME NEW x \in DOMAIN t.prs
        PROVE  OrderNamed(t, x, t.prs[x])
    <3>1. CASE x = p
      <4>1. order.pr = p /\ t.prs[x].po = n /\ t.prs[x].award = n
        BY <1>7, <1>8, <3>1
      <4> QED
        BY <1>5, <3>1, <4>1 DEF OrderNamed
    <3>2. CASE x # p
      <4>1. OrderNamed(s, x, s.prs[x]) /\ t.prs[x] = s.prs[x]
        BY Zenon, <1>8, <2>1, <3>2 DEF Ordered
      <4>2. PICK pr : pr = s.prs[x] /\ pr = t.prs[x]
        BY <4>1
      <4>3. OrderNamed(s, x, pr)
        BY Zenon, <4>1, <4>2
      <4>4. \A m \in DOMAIN s.pos : m \in DOMAIN t.pos /\ t.pos[m].pr = s.pos[m].pr
        BY <1>5
      <4>5. OrderNamed(t, x, pr)
        BY Zenon, <4>3, <4>4 DEF OrderNamed
      <4> QED
        BY Zenon, <4>2, <4>5
    <3> QED
      BY Zenon, <3>1, <3>2
  <2>4. ASSUME NEW m \in DOMAIN t.pos
        PROVE  OrderPlaced(t, m, t.pos[m], t.awards[m])
    <3>1. CASE m = n
      <4>1. /\ t.pos[m] = order /\ t.awards[m] = award
            /\ order.pr = p /\ order.rfq = r /\ order.award = m
            /\ order.value = s.quotes[q].total
            /\ award.rfq = r /\ award.pr = p /\ award.quote = q
        BY <1>5, <1>6, <1>7, <3>1
      <4>2. p \in DOMAIN t.prs /\ t.prs[p].po = n /\ n # 0
        BY <1>2, <1>8
      <4>3. r \in DOMAIN t.rfqs /\ t.rfqs[r].pr = p
        BY <1>0, <1>9
      <4>4. q \in DOMAIN t.quotes /\ t.quotes[q] = s.quotes[q]
        BY <1>3
      <4>5. OrderPlaced(t, m, order, award)
        BY Zenon, <4>1, <4>2, <4>3, <4>4 DEF OrderPlaced
      <4> QED
        BY Zenon, <4>1, <4>5
    <3>2. CASE m # n
      <4>1. m \in DOMAIN s.pos /\ t.pos[m] = s.pos[m]
        BY <1>5, <3>2
      <4>2. m \in DOMAIN s.awards /\ t.awards[m] = s.awards[m]
        BY Zenon, <1>6, <2>1, <4>1 DEF Ordered
      <4>3. PICK po, aw : po = s.pos[m] /\ aw = s.awards[m]
        OBVIOUS
      <4>4. OrderPlaced(s, m, po, aw)
        BY Zenon, <2>1, <4>1, <4>3 DEF Ordered
      <4>5. \A x \in DOMAIN s.prs : x \in DOMAIN t.prs /\ (s.prs[x].po # 0 => t.prs[x].po # 0)
        BY <1>2, <1>8
      <4>6. \A x \in DOMAIN s.rfqs : x \in DOMAIN t.rfqs /\ t.rfqs[x].pr = s.rfqs[x].pr
        BY <1>9
      <4>7. \A x \in DOMAIN s.quotes : x \in DOMAIN t.quotes /\ t.quotes[x] = s.quotes[x]
        BY <1>3
      <4>8. OrderPlaced(t, m, po, aw)
        BY Zenon, <4>4, <4>5, <4>6, <4>7 DEF OrderPlaced
      <4> QED
        BY Zenon, <4>1, <4>2, <4>3, <4>8
    <3> QED
      BY Zenon, <3>1, <3>2
  <2> QED
    BY Zenon, <2>2, <2>3, <2>4 DEF Ordered
<1>13. Onward(s, t)
  BY <1>3, <1>8, <1>9 DEF Onward
<1> QED
  BY <1>0, <1>2, <1>3, <1>4, <1>5, <1>10, <1>11, <1>12, <1>13 DEF StoreFits

\* A release of the requisition by SAP.
LEMMA LineReleasesPr ==
    ASSUME NEW s, StoreFits(s), NEW p \in DOMAIN s.prs, NEW t, t = Line!ReleasePr(s, p)
    PROVE  /\ StoreFits(t) /\ Onward(s, t)
           /\ t.pos = s.pos /\ t.quotes = s.quotes
<1>1. t = [s EXCEPT !.prs[p].status = "rfq_issued"]
  BY DEF Line!ReleasePr
<1>2. /\ Whole(s) /\ Rows(s) /\ Asked(s) /\ Ordered(s)
      /\ s.prs[p] \in Line!PurchaseRequisition
  BY DEF StoreFits, Rows
<1>3. /\ t.prs = [s.prs EXCEPT ![p].status = "rfq_issued"]
      /\ t.rfqs = s.rfqs /\ t.quotes = s.quotes /\ t.awards = s.awards /\ t.pos = s.pos
      /\ t.counter = s.counter
      /\ t = [prs |-> t.prs, rfqs |-> t.rfqs, quotes |-> t.quotes, awards |-> t.awards,
              pos |-> t.pos, counter |-> t.counter]
  BY <1>1, <1>2 DEF Whole
<1>4. /\ DOMAIN t.prs = DOMAIN s.prs
      /\ t.prs[p] \in Line!PurchaseRequisition
      /\ t.prs[p].status = "rfq_issued" /\ t.prs[p].rfq = s.prs[p].rfq
      /\ t.prs[p].po = s.prs[p].po /\ t.prs[p].award = s.prs[p].award
      /\ \A x \in DOMAIN s.prs : x # p => t.prs[x] = s.prs[x]
  <2>1. PICK pr : pr = s.prs[p]
    OBVIOUS
  <2>2. pr \in Line!PurchaseRequisition
    BY <1>2, <2>1
  <2>3. /\ DOMAIN t.prs = DOMAIN s.prs
        /\ t.prs[p] = [pr EXCEPT !.status = "rfq_issued"]
        /\ \A x \in DOMAIN s.prs : x # p => t.prs[x] = s.prs[x]
    BY <1>3, <2>1
  <2> QED
    BY <2>1, <2>2, <2>3 DEF Line!PurchaseRequisition, Line!PrStatuses
<1>5. Whole(t) /\ Rows(t)
  BY SMTT(60), <1>2, <1>3, <1>4 DEF Whole, Rows
<1>6. Asked(t)
  BY <1>2, <1>3, <1>4 DEF Asked
<1>7. Ordered(t)
  <2>1. OrdersStay(s, t)
    BY <1>2, <1>3, <1>4 DEF OrdersStay
  <2> QED
    BY Zenon, <1>2, <2>1, OrderedKept
<1>8. Onward(s, t)
  BY <1>3, <1>4 DEF Onward
<1> QED
  BY <1>3, <1>5, <1>6, <1>7, <1>8 DEF StoreFits

\* The largest of numbers that are bounded.
LEMMA LargestThere ==
    ASSUME NEW T \in SUBSET Nat, NEW m \in Nat, \A x \in T : x <= m, T # {}
    PROVE  Line!Max(T) \in T
<1>1. \E x \in T : \A y \in T : x >= y
  <2> DEFINE D == {m - x : x \in T}
  <2>0. \A x \in T : m - x \in Nat
    OBVIOUS
  <2>1. D \in SUBSET Nat /\ D # {}
    BY <2>0
  <2> HIDE DEF D
  <2>2. PICK d \in D : \A e \in D : d <= e
    BY <2>1, LeastNat
  <2>3. PICK x \in T : d = m - x
    BY <2>2 DEF D
  <2>4. \A y \in T : m - x <= m - y
    BY <2>2, <2>3 DEF D
  <2> QED
    BY <2>4
<1> QED
  BY <1>1 DEF Line!Max

\* What the line's variables keep to.
LineInv ==
    /\ item \in Line!ItemStatuses
    /\ StoreFits(store)
    /\ DOMAIN orders = DOMAIN store.pos
    /\ DOMAIN lastEvent = DOMAIN orders
    /\ evaluated \subseteq DOMAIN store.rfqs
    /\ \A n \in DOMAIN lastEvent : lastEvent[n] \in Line!EventStages \cup {Line!NoEvent}
    /\ \A n \in DOMAIN orders : orders[n].ct \in Nat
    /\ focus = "line"  => \A n \in DOMAIN orders : orders[n] \in Line!OrderRow
    /\ focus = "views" => \A n \in DOMAIN orders : orders[n] \in Views!OrderRow
    /\ focus = "views" /\ 0 \notin ViewTotals => \A q \in DOMAIN store.quotes : store.quotes[q].total # 0

\* What no step of the line takes back.
LineMoves ==
    /\ Onward(store, store')
    /\ evaluated \subseteq evaluated'
    /\ \A n \in DOMAIN orders : n \in DOMAIN orders' /\ orders'[n].ct >= orders[n].ct

LEMMA InitLine == Init => LineInv
<1> SUFFICES ASSUME Init PROVE LineInv
  OBVIOUS
<1>1. /\ item \in Line!ItemStatuses /\ store = Line!EmptyStore
      /\ orders = Line!EmptyTable /\ evaluated = {} /\ lastEvent = Line!EmptyTable
  BY DEF Init, Line!Init
<1>2. /\ store.prs = Line!EmptyTable /\ store.rfqs = Line!EmptyTable
      /\ store.quotes = Line!EmptyTable /\ store.awards = Line!EmptyTable
      /\ store.pos = Line!EmptyTable
      /\ store.counter = [pr |-> 0, rfq |-> 0, quote |-> 0, award |-> 0, po |-> 0]
  BY <1>1 DEF Line!EmptyStore
<1>3. DOMAIN Line!EmptyTable = {}
  BY DEF Line!EmptyTable
<1>4. Whole(store)
  BY <1>1, <1>2 DEF Whole, Line!EmptyStore
<1>5. Rows(store) /\ Asked(store) /\ Ordered(store)
  BY <1>2, <1>3 DEF Rows, Asked, Ordered, OrderNamed, OrderPlaced
<1> QED
  BY <1>1, <1>2, <1>3, <1>4, <1>5 DEF LineInv, StoreFits

\* A step that moves the sourcing store only, and makes no order.
LEMMA StoreMoves ==
    ASSUME LineInv, focus' = focus,
           UNCHANGED <<item, orders, evaluated, lastEvent>>,
           StoreFits(store'), Onward(store, store'), store'.pos = store.pos,
           focus = "views" /\ 0 \notin ViewTotals =>
              \A q \in DOMAIN store'.quotes : store'.quotes[q].total # 0
    PROVE  LineInv' /\ LineMoves
<1>1. evaluated' \subseteq DOMAIN store'.rfqs
  BY DEF LineInv, Onward
<1>2. LineInv'
  BY <1>1 DEF LineInv
<1> QED
  BY <1>2 DEF LineInv, LineMoves

\* A step that leaves the sourcing store alone.
LEMMA RestMoves ==
    ASSUME LineInv, focus' = focus, store' = store,
           item' \in Line!ItemStatuses,
           evaluated \subseteq evaluated', evaluated' \subseteq DOMAIN store.rfqs,
           DOMAIN orders' = DOMAIN orders, DOMAIN lastEvent' = DOMAIN lastEvent,
           \A n \in DOMAIN orders : orders'[n].ct \in Nat /\ orders'[n].ct >= orders[n].ct,
           focus = "line"  => \A n \in DOMAIN orders : orders'[n] \in Line!OrderRow,
           focus # "views",
           \A n \in DOMAIN lastEvent : lastEvent'[n] \in Line!EventStages \cup {Line!NoEvent}
    PROVE  LineInv' /\ LineMoves
<1>1. Onward(store, store')
  BY DEF Onward
<1> QED
  BY <1>1 DEF LineInv, LineMoves

\* A new order.
LEMMA OrderMoves ==
    ASSUME LineInv, focus' = focus, NEW r \in DOMAIN store.rfqs,
           NEW q \in Line!QuotesOf(store, r), store' = Line!Award(store, r, q),
           NEW n, n = store.counter.po + 1, NEW quantity,
           orders' = Line!Put(orders, n, [quantity |-> quantity, status |-> "draft",
                                          ct |-> 0, sap |-> 0]),
           lastEvent' = Line!Put(lastEvent, n, Line!NoEvent),
           UNCHANGED <<item, evaluated>>,
           focus = "line"  => quantity = LineQty,
           focus = "views" => quantity = ViewQty
    PROVE  LineInv' /\ LineMoves
<1> DEFINE row == [quantity |-> quantity, status |-> "draft", ct |-> 0, sap |-> 0]
           t == store'
<1>1. q \in DOMAIN store.quotes /\ StoreFits(store)
  BY DEF Line!QuotesOf, LineInv
<1>2. t = Line!Award(store, r, q)
  OBVIOUS
<1> HIDE DEF t
<1>3. /\ StoreFits(t) /\ Onward(store, t) /\ t.quotes = store.quotes
      /\ t.counter.po = store.counter.po + 1
      /\ t.counter.po \notin DOMAIN store.pos
      /\ DOMAIN t.pos = DOMAIN store.pos \cup {t.counter.po}
  BY <1>1, <1>2, LineAwards
<1> HIDE DEF row
<1>4. /\ n \notin DOMAIN orders /\ DOMAIN orders' = DOMAIN orders \cup {n}
      /\ orders'[n] = row /\ \A x \in DOMAIN orders : orders'[x] = orders[x]
  <2>1. n \notin DOMAIN orders
    BY <1>3 DEF LineInv
  <2>2. orders' = Line!Put(orders, n, row)
    BY DEF row
  <2> QED
    BY <2>1, <2>2 DEF Line!Put
<1>5. /\ DOMAIN lastEvent' = DOMAIN lastEvent \cup {n}
      /\ \A x \in DOMAIN lastEvent' : lastEvent'[x] \in Line!EventStages \cup {Line!NoEvent}
  BY DEF Line!Put, LineInv
<1>6. /\ row.ct = 0
      /\ focus = "line" => row \in Line!OrderRow
      /\ focus = "views" => row \in Views!OrderRow
  BY LineConstants DEF row, Line!OrderRow, Views!OrderRow, Line!PO!PoStatuses, Views!PO!PoStatuses
<1>7. /\ \A x \in DOMAIN orders' : orders'[x].ct \in Nat
      /\ focus = "line"  => \A x \in DOMAIN orders' : orders'[x] \in Line!OrderRow
      /\ focus = "views" => \A x \in DOMAIN orders' : orders'[x] \in Views!OrderRow
  BY <1>4, <1>6 DEF LineInv
<1>8. evaluated' \subseteq DOMAIN t.rfqs
  BY <1>3 DEF LineInv, Onward
<1>9. LineInv'
  BY SMTT(60), <1>3, <1>4, <1>5, <1>7, <1>8 DEF LineInv, t
<1>10. LineMoves
  BY <1>3, <1>4 DEF LineInv, LineMoves, t
<1> QED
  BY <1>9, <1>10

\* app/process_map.py: every step of the line.
LEMMA StepLine ==
    ASSUME LineInv, Line!Next, focus = "line", focus' = focus
    PROVE  LineInv' /\ LineMoves
<1>0. StoreFits(store)
  BY DEF LineInv
<1>1. ASSUME NEW s \in Line!ItemStatuses, Line!Upload(s)
      PROVE  LineInv' /\ LineMoves
  <2>1. /\ item' \in Line!ItemStatuses
        /\ UNCHANGED <<store, orders, evaluated, lastEvent>>
    BY <1>1 DEF Line!Upload
  <2>2. Onward(store, store')
    BY <2>1 DEF Onward
  <2> QED
    BY <2>1, <2>2 DEF LineInv, LineMoves
<1>2. ASSUME Line!NewPr
      PROVE  LineInv' /\ LineMoves
  <2>1. store' = Line!CreatePr(store) /\ UNCHANGED <<item, orders, evaluated, lastEvent>>
    BY <1>2 DEF Line!NewPr
  <2>2. StoreFits(store') /\ Onward(store, store') /\ store'.pos = store.pos
    BY <1>0, <2>1, LineCreatesPr
  <2> QED
    BY <2>1, <2>2, StoreMoves
<1>3. ASSUME NEW p \in DOMAIN store.prs, Line!NewRfq(p)
      PROVE  LineInv' /\ LineMoves
  <2>1. store' = Line!IssueRfq(store, p) /\ UNCHANGED <<item, orders, evaluated, lastEvent>>
    BY <1>3 DEF Line!NewRfq
  <2>2. StoreFits(store') /\ Onward(store, store') /\ store'.pos = store.pos
    BY <1>0, <2>1, LineIssuesRfq
  <2> QED
    BY <2>1, <2>2, StoreMoves
<1>4. ASSUME NEW p \in DOMAIN store.prs, Line!PrReleased(p)
      PROVE  LineInv' /\ LineMoves
  <2>1. store' = Line!ReleasePr(store, p) /\ UNCHANGED <<item, orders, evaluated, lastEvent>>
    BY <1>4 DEF Line!PrReleased
  <2>2. StoreFits(store') /\ Onward(store, store') /\ store'.pos = store.pos
    BY <1>0, <2>1, LineReleasesPr
  <2> QED
    BY <2>1, <2>2, StoreMoves
<1>5. ASSUME NEW r \in DOMAIN store.rfqs, Line!NewQuote(r)
      PROVE  LineInv' /\ LineMoves
  <2>1. /\ \E v \in LineVendors, total \in LineTotals : store' = Line!AddQuote(store, r, v, total)
        /\ UNCHANGED <<item, orders, evaluated, lastEvent>>
    BY <1>5 DEF Line!NewQuote
  <2>2. PICK v \in LineVendors, total \in LineTotals : store' = Line!AddQuote(store, r, v, total)
    BY <2>1
  <2>3. total \in Nat
    BY LineConstants
  <2>4. StoreFits(store') /\ Onward(store, store') /\ store'.pos = store.pos
    BY <1>0, <2>2, <2>3, LineAddsQuote
  <2> QED
    BY <2>1, <2>4, StoreMoves
<1>6. ASSUME NEW r \in DOMAIN store.rfqs, Line!Evaluate(r)
      PROVE  LineInv' /\ LineMoves
  <2>1. evaluated' = evaluated \cup {r} /\ UNCHANGED <<item, store, orders, lastEvent>>
    BY <1>6 DEF Line!Evaluate
  <2>2. Onward(store, store')
    BY <2>1 DEF Onward
  <2>3. \A n \in DOMAIN orders : orders[n].ct \in Nat /\ orders'[n].ct >= orders[n].ct
    BY <2>1 DEF LineInv
  <2> QED
    BY <2>1, <2>2, <2>3 DEF LineInv, LineMoves
<1>7. ASSUME NEW r \in DOMAIN store.rfqs, Line!NewOrder(r)
      PROVE  LineInv' /\ LineMoves
  <2>1. PICK n : n = store.counter.po + 1
    OBVIOUS
  <2>2. /\ \E q \in Line!QuotesOf(store, r) : store' = Line!Award(store, r, q)
        /\ orders' = Line!Put(orders, n, [quantity |-> LineQty, status |-> "draft",
                                          ct |-> 0, sap |-> 0])
        /\ lastEvent' = Line!Put(lastEvent, n, Line!NoEvent)
        /\ UNCHANGED <<item, evaluated>>
    BY <1>7, <2>1 DEF Line!NewOrder, Line!NextNo
  <2> QED
    BY <2>1, <2>2, OrderMoves
<1>8. ASSUME NEW n \in DOMAIN orders, NEW row,
             orders' = [orders EXCEPT ![n] = row],
             row \in Line!OrderRow, row.ct >= orders[n].ct,
             UNCHANGED <<item, store, evaluated, lastEvent>>
      PROVE  LineInv' /\ LineMoves
  <2>1. /\ DOMAIN orders' = DOMAIN orders
        /\ \A x \in DOMAIN orders : /\ orders'[x] \in Line!OrderRow
                                    /\ orders'[x].ct \in Nat /\ orders'[x].ct >= orders[x].ct
    BY <1>8, LineConstants DEF LineInv, Line!OrderRow
  <2> QED
    BY <1>8, <2>1, RestMoves DEF LineInv
<1>9. ASSUME NEW n \in DOMAIN orders
      PROVE  /\ orders[n] \in Line!OrderRow
             /\ Line!MayReceive(n) => /\ orders[n].ct + 1 \in 0..MaxReceipts
                                      /\ orders[n].sap + 1 \in 0..MaxReceipts
  <2>1. orders[n] \in Line!OrderRow
    BY DEF LineInv
  <2> QED
    BY <2>1, LineConstants DEF Line!OrderRow, Line!MayReceive
<1>10. ASSUME NEW n \in DOMAIN orders, NEW kind \in Line!PO!SapKinds, Line!SapReports(n, kind)
       PROVE  LineInv' /\ LineMoves
  <2> DEFINE row == Line!PO!ApplyToPo(orders[n], kind, 1)
  <2>1. /\ orders' = [orders EXCEPT ![n] = row]
        /\ UNCHANGED <<item, store, evaluated, lastEvent>>
        /\ kind = "gr_posted" => Line!MayReceive(n)
    BY <1>10 DEF Line!SapReports
  <2>2. row \in Line!OrderRow /\ row.ct = orders[n].ct
    BY <1>9, <1>10, <2>1
       DEF Line!PO!ApplyToPo, Line!PO!SapKinds, Line!OrderRow, Line!PO!PoStatuses
  <2>3. row.ct >= orders[n].ct
    BY <2>2, LineConstants DEF Line!OrderRow
  <2> QED
    BY <1>8, <2>1, <2>2, <2>3
<1>11. ASSUME NEW n \in DOMAIN orders, Line!SiteReceipt(n)
       PROVE  LineInv' /\ LineMoves
  <2> DEFINE row == Line!PO!ApplyCtReceipt(orders[n], 1)
  <2>1. /\ orders' = [orders EXCEPT ![n] = row]
        /\ UNCHANGED <<item, store, evaluated, lastEvent>>
        /\ Line!MayReceive(n)
    BY <1>11 DEF Line!SiteReceipt
  <2>2. row \in Line!OrderRow /\ row.ct = orders[n].ct + 1
    BY <1>9, <2>1 DEF Line!PO!ApplyCtReceipt, Line!OrderRow, Line!PO!PoStatuses
  <2>3. row.ct >= orders[n].ct
    BY <1>9, <2>2, LineConstants DEF Line!OrderRow
  <2> QED
    BY <1>8, <2>1, <2>2, <2>3
<1>12. ASSUME NEW n \in DOMAIN orders, NEW s \in Line!EventStages, Line!AddEvent(n, s)
       PROVE  LineInv' /\ LineMoves
  <2>1. /\ lastEvent' = [lastEvent EXCEPT ![n] = s]
        /\ UNCHANGED <<item, store, orders, evaluated>>
    BY <1>12 DEF Line!AddEvent
  <2>2. /\ DOMAIN lastEvent' = DOMAIN lastEvent
        /\ \A x \in DOMAIN lastEvent : lastEvent'[x] \in Line!EventStages \cup {Line!NoEvent}
    BY <2>1 DEF LineInv
  <2>3. \A x \in DOMAIN orders : orders'[x].ct \in Nat /\ orders'[x].ct >= orders[x].ct
    BY <2>1 DEF LineInv
  <2> QED
    BY <2>1, <2>2, <2>3, RestMoves DEF LineInv
<1> QED
  BY <1>1, <1>2, <1>3, <1>4, <1>5, <1>6, <1>7, <1>10, <1>11, <1>12 DEF Line!Next

\* The views read the same store.
LEMMA SameSteps ==
    /\ \A s : Views!CreatePr(s) = Line!CreatePr(s)
    /\ \A s, p : Views!IssueRfq(s, p) = Line!IssueRfq(s, p)
    /\ \A s, p : Views!ReleasePr(s, p) = Line!ReleasePr(s, p)
    /\ \A s, r, v, total : Views!AddQuote(s, r, v, total) = Line!AddQuote(s, r, v, total)
    /\ \A s, r, q : Views!Award(s, r, q) = Line!Award(s, r, q)
    /\ \A s, r : Views!QuotesOf(s, r) = Line!QuotesOf(s, r)
    /\ \A t, k, v : Views!Put(t, k, v) = Line!Put(t, k, v)
<1>1. /\ \A t, k, v : Views!Put(t, k, v) = Line!Put(t, k, v)
      /\ \A s, k : Views!NextNo(s, k) = Line!NextNo(s, k)
      /\ Views!None = Line!None
      /\ \A s, r : Views!QuotesOf(s, r) = Line!QuotesOf(s, r)
  BY DEF Views!Put, Line!Put, Views!NextNo, Line!NextNo, Views!None, Line!None,
         Views!QuotesOf, Line!QuotesOf
<1>2. \A s : Views!CreatePr(s) = Line!CreatePr(s)
  BY <1>1 DEF Views!CreatePr, Line!CreatePr
<1>3. \A s, p : Views!IssueRfq(s, p) = Line!IssueRfq(s, p)
  <2> SUFFICES ASSUME NEW s, NEW p PROVE Views!IssueRfq(s, p) = Line!IssueRfq(s, p)
    OBVIOUS
  <2> DEFINE row == [pr |-> p, status |-> "open"]
  <2>1. PICK r : r = Line!NextNo(s, "rfq")
    OBVIOUS
  <2>2. PICK rfqs : rfqs = Line!Put(s.rfqs, r, row)
    OBVIOUS
  <2>3. Views!NextNo(s, "rfq") = r /\ Views!Put(s.rfqs, r, row) = rfqs
    BY <1>1, <2>1, <2>2
  <2>4. Views!IssueRfq(s, p) = [s EXCEPT !.rfqs = rfqs, !.prs[p].status = "rfq_issued",
                                         !.prs[p].rfq = r, !.counter.rfq = r]
    BY <2>3 DEF Views!IssueRfq
  <2>5. Line!IssueRfq(s, p) = [s EXCEPT !.rfqs = rfqs, !.prs[p].status = "rfq_issued",
                                        !.prs[p].rfq = r, !.counter.rfq = r]
    BY <2>1, <2>2 DEF Line!IssueRfq
  <2> QED
    BY <2>4, <2>5
<1>4. \A s, p : Views!ReleasePr(s, p) = Line!ReleasePr(s, p)
  BY DEF Views!ReleasePr, Line!ReleasePr
<1>5. \A s, r, v, total : Views!AddQuote(s, r, v, total) = Line!AddQuote(s, r, v, total)
  <2> SUFFICES ASSUME NEW s, NEW r, NEW v, NEW total
               PROVE  Views!AddQuote(s, r, v, total) = Line!AddQuote(s, r, v, total)
    OBVIOUS
  <2> DEFINE row == [rfq |-> r, vendor |-> v, total |-> total]
             Quoted(q, quotesNow) ==
                [s EXCEPT !.quotes = quotesNow,
                          !.rfqs[r].status = IF @ = "open" THEN "quotes_received" ELSE @,
                          !.prs[s.rfqs[r].pr].status = IF @ = "rfq_issued" THEN "quoted" ELSE @,
                          !.counter.quote = q]
  <2>1. PICK q : q = Line!NextNo(s, "quote")
    OBVIOUS
  <2>2. PICK quotesNow : quotesNow = Line!Put(s.quotes, q, row)
    OBVIOUS
  <2>3. Views!NextNo(s, "quote") = q /\ Views!Put(s.quotes, q, row) = quotesNow
    BY <1>1, <2>1, <2>2
  <2>4. Views!AddQuote(s, r, v, total) = Quoted(q, quotesNow)
    BY <2>3 DEF Views!AddQuote
  <2>5. Line!AddQuote(s, r, v, total) = Quoted(q, quotesNow)
    BY <2>1, <2>2 DEF Line!AddQuote
  <2> HIDE DEF Quoted
  <2> QED
    BY <2>4, <2>5
<1>6. \A s, r, q : Views!Award(s, r, q) = Line!Award(s, r, q)
  <2> SUFFICES ASSUME NEW s, NEW r, NEW q PROVE Views!Award(s, r, q) = Line!Award(s, r, q)
    OBVIOUS
  <2> DEFINE award(a) == [rfq |-> r, pr |-> s.rfqs[r].pr, quote |-> q]
             order(a) == [award |-> a, rfq |-> r, pr |-> s.rfqs[r].pr,
                          vendor |-> s.quotes[q].vendor, value |-> s.quotes[q].total]
             Made(a, n, awards, pos) ==
                [s EXCEPT !.awards = awards, !.rfqs[r].status = "awarded", !.pos = pos,
                          !.prs[s.rfqs[r].pr] = [@ EXCEPT !.status = "po_created",
                                                          !.award = a, !.po = n],
                          !.counter.award = a, !.counter.po = n]
  <2>1. PICK a, n : a = Line!NextNo(s, "award") /\ n = Line!NextNo(s, "po")
    OBVIOUS
  <2>2. PICK awards, pos : /\ awards = Line!Put(s.awards, a, award(a))
                           /\ pos = Line!Put(s.pos, n, order(a))
    OBVIOUS
  <2>3. /\ Views!NextNo(s, "award") = a /\ Views!NextNo(s, "po") = n
        /\ Views!Put(s.awards, a, award(a)) = awards /\ Views!Put(s.pos, n, order(a)) = pos
    BY <1>1, <2>1, <2>2
  <2>4. Views!Award(s, r, q) = Made(a, n, awards, pos)
    BY <2>3 DEF Views!Award
  <2>5. Line!Award(s, r, q) = Made(a, n, awards, pos)
    BY <2>1, <2>2 DEF Line!Award
  <2> HIDE DEF Made
  <2> QED
    BY <2>4, <2>5
<1> QED
  BY <1>1, <1>2, <1>3, <1>4, <1>5, <1>6

\* app/commercial.py, app/audit.py: the steps of the store while the views are read.
LEMMA StepViews ==
    ASSUME LineInv, Views!StoreNext, focus = "views", focus' = focus
    PROVE  LineInv' /\ LineMoves
<1>0. StoreFits(store)
  BY DEF LineInv
<1>1. ASSUME UNCHANGED <<item, orders, evaluated, lastEvent>>,
             StoreFits(store'), Onward(store, store'), store'.pos = store.pos,
             store'.quotes = store.quotes
      PROVE  LineInv' /\ LineMoves
  BY <1>1, StoreMoves DEF LineInv
<1>2. ASSUME Views!NewPr
      PROVE  LineInv' /\ LineMoves
  <2>1. store' = Line!CreatePr(store) /\ UNCHANGED <<item, orders, evaluated, lastEvent>>
    BY <1>2, SameSteps DEF Views!NewPr
  <2>2. StoreFits(store') /\ Onward(store, store') /\ store'.pos = store.pos /\ store'.quotes = store.quotes
    BY <1>0, <2>1, LineCreatesPr
  <2> QED
    BY <1>1, <2>1, <2>2
<1>3. ASSUME NEW p \in DOMAIN store.prs, Views!NewRfq(p)
      PROVE  LineInv' /\ LineMoves
  <2>1. store' = Line!IssueRfq(store, p) /\ UNCHANGED <<item, orders, evaluated, lastEvent>>
    BY <1>3, SameSteps DEF Views!NewRfq
  <2>2. StoreFits(store') /\ Onward(store, store') /\ store'.pos = store.pos /\ store'.quotes = store.quotes
    BY <1>0, <2>1, LineIssuesRfq
  <2> QED
    BY <1>1, <2>1, <2>2
<1>4. ASSUME NEW p \in DOMAIN store.prs, Views!PrReleased(p)
      PROVE  LineInv' /\ LineMoves
  <2>1. store' = Line!ReleasePr(store, p) /\ UNCHANGED <<item, orders, evaluated, lastEvent>>
    BY <1>4, SameSteps DEF Views!PrReleased
  <2>2. StoreFits(store') /\ Onward(store, store') /\ store'.pos = store.pos /\ store'.quotes = store.quotes
    BY <1>0, <2>1, LineReleasesPr
  <2> QED
    BY <1>1, <2>1, <2>2
<1>5. ASSUME NEW r \in DOMAIN store.rfqs, Views!NewQuote(r)
      PROVE  LineInv' /\ LineMoves
  <2>1. /\ \E v \in LineVendors, total \in ViewTotals : store' = Line!AddQuote(store, r, v, total)
        /\ UNCHANGED <<item, orders, evaluated, lastEvent>>
    BY <1>5, SameSteps DEF Views!NewQuote
  <2>2. PICK v \in LineVendors, total \in ViewTotals : store' = Line!AddQuote(store, r, v, total)
    BY <2>1
  <2>3. total \in Nat
    BY LineConstants
  <2>4. /\ StoreFits(store') /\ Onward(store, store') /\ store'.pos = store.pos
        /\ \A q \in DOMAIN store'.quotes : q \in DOMAIN store.quotes \/ store'.quotes[q].total = total
    BY <1>0, <2>2, <2>3, LineAddsQuote
  <2>5. 0 \notin ViewTotals => \A q \in DOMAIN store'.quotes : store'.quotes[q].total # 0
    BY <2>4 DEF LineInv, Onward
  <2> QED
    BY <2>1, <2>4, <2>5, StoreMoves
<1>6. ASSUME NEW r \in DOMAIN store.rfqs, Views!NewOrder(r)
      PROVE  LineInv' /\ LineMoves
  <2>1. PICK n : n = store.counter.po + 1
    OBVIOUS
  <2>2. Views!NextNo(store, "po") = n /\ Views!NoEvent = Line!NoEvent
    BY <2>1 DEF Views!NextNo, Views!NoEvent, Line!NoEvent
  <2>3. /\ \E q \in Line!QuotesOf(store, r) : store' = Line!Award(store, r, q)
        /\ orders' = Line!Put(orders, n, [quantity |-> ViewQty, status |-> "draft",
                                          ct |-> 0, sap |-> 0])
        /\ lastEvent' = Line!Put(lastEvent, n, Line!NoEvent)
        /\ UNCHANGED <<item, evaluated>>
    BY SMTT(60), <1>6, <2>2, SameSteps DEF Views!NewOrder
  <2> QED
    BY <2>1, <2>3, OrderMoves
<1> QED
  BY <1>2, <1>3, <1>4, <1>5, <1>6 DEF Views!StoreNext

\* A component that is not in focus keeps still.
LEMMA LineKeeps == LineInv /\ [Next]_deskVars => LineInv' /\ (LineMoves \/ UNCHANGED lineVars)
<1> SUFFICES ASSUME LineInv, [Next]_deskVars
             PROVE  LineInv' /\ (LineMoves \/ UNCHANGED lineVars)
  OBVIOUS
<1>1. CASE focus = "line" /\ Line!Next /\ focus' = focus
  BY <1>1, StepLine
<1>2. CASE focus = "views" /\ Views!StoreNext /\ focus' = focus
  BY <1>2, StepViews
<1>3. CASE UNCHANGED <<lineVars, focus>>
  BY <1>3 DEF lineVars, LineInv
<1> QED
  BY <1>1, <1>2, <1>3 DEF Next, Rest, deskVars

THEOREM LineInvHolds == Spec => []LineInv
<1>1. LineInv /\ [Next]_deskVars => LineInv'
  BY LineKeeps
<1> QED
  BY InitLine, <1>1, PTL DEF Spec

\* STAGE_ORDER, by number.
LEMMA RankOf ==
    /\ Line!Rank("spec") = 1 /\ Line!Rank("pr") = 2 /\ Line!Rank("rfq") = 3
    /\ Line!Rank("quotes") = 4 /\ Line!Rank("technical_eval") = 5 /\ Line!Rank("award") = 6
    /\ Line!Rank("po") = 7 /\ Line!Rank("shipment") = 8 /\ Line!Rank("site_grn") = 9
    /\ Line!Rank("delivery") = 10
<1>1. DOMAIN Line!STAGE_ORDER = 1..10
  BY DEF Line!STAGE_ORDER
<1>2. ASSUME NEW k \in 1..10, NEW stage, stage = Line!STAGE_ORDER[k]
      PROVE  Line!Rank(stage) = k
  <2>1. \A j \in 1..10 : Line!STAGE_ORDER[j] = stage => j = k
    BY <1>2 DEF Line!STAGE_ORDER
  <2> QED
    BY <1>1, <1>2, <2>1 DEF Line!Rank
<1>3. /\ Line!STAGE_ORDER[1] = "spec" /\ Line!STAGE_ORDER[2] = "pr"
      /\ Line!STAGE_ORDER[3] = "rfq" /\ Line!STAGE_ORDER[4] = "quotes"
      /\ Line!STAGE_ORDER[5] = "technical_eval" /\ Line!STAGE_ORDER[6] = "award"
      /\ Line!STAGE_ORDER[7] = "po" /\ Line!STAGE_ORDER[8] = "shipment"
      /\ Line!STAGE_ORDER[9] = "site_grn" /\ Line!STAGE_ORDER[10] = "delivery"
  BY DEF Line!STAGE_ORDER
<1> QED
  BY <1>2, <1>3

\* The requisition that speaks for the line: one that has an order if any has.
LEMMA Speaks ==
    ASSUME LineInv
    PROVE  /\ DOMAIN store.prs = {} => Line!Requisition = 0
           /\ DOMAIN store.prs # {} =>
                 /\ Line!Requisition \in DOMAIN store.prs /\ Line!Requisition # 0
                 /\ \A p \in DOMAIN store.prs :
                       store.prs[p].po # 0 => store.prs[Line!Requisition].po # 0
           /\ Line!Requisition # 0 =>
                 /\ Line!Requisition \in DOMAIN store.prs
                 /\ Line!Order = store.prs[Line!Requisition].po
                 /\ Line!Request = store.prs[Line!Requisition].rfq
<1> DEFINE prs == DOMAIN store.prs
           WithPo == {p \in prs : store.prs[p].po # 0}
           WithRfq == {p \in prs : store.prs[p].rfq # 0}
<1>1. /\ Line!None = 0
      /\ prs \in SUBSET (Nat \ {0}) /\ store.counter.pr \in Nat
      /\ \A p \in prs : p <= store.counter.pr
  BY DEF Line!None, LineInv, StoreFits, Rows, Whole
<1>2. Line!FurthestPr = IF WithPo # {} THEN Line!Max(WithPo)
                        ELSE IF WithRfq # {} THEN Line!Max(WithRfq) ELSE Line!Max(prs)
  BY <1>1 DEF Line!FurthestPr
<1>3. ASSUME NEW T, T \subseteq prs, T # {}
      PROVE  Line!Max(T) \in T
  <2>1. T \in SUBSET Nat /\ \A x \in T : x <= store.counter.pr
    BY <1>1, <1>3
  <2>2. PICK m \in Nat : m = store.counter.pr
    BY <1>1
  <2> QED
    BY <1>3, <2>1, <2>2, LargestThere
<1>4. ASSUME prs # {}
      PROVE  /\ Line!FurthestPr \in prs
             /\ WithPo # {} => Line!FurthestPr \in WithPo
  <2>1. CASE WithPo # {}
    <3>1. Line!Max(WithPo) \in WithPo
      BY <1>3, <2>1
    <3> QED
      BY <1>2, <2>1, <3>1
  <2>2. CASE WithPo = {} /\ WithRfq # {}
    <3>1. Line!Max(WithRfq) \in WithRfq
      BY <1>3, <2>2
    <3> QED
      BY <1>2, <2>2, <3>1
  <2>3. CASE WithPo = {} /\ WithRfq = {}
    <3>1. Line!Max(prs) \in prs
      BY <1>3, <1>4
    <3> QED
      BY <1>2, <2>3, <3>1
  <2> QED
    BY <2>1, <2>2, <2>3
<1>5. Line!Requisition = IF prs = {} THEN 0 ELSE Line!FurthestPr
  BY <1>1 DEF Line!Requisition
<1>6. Line!Requisition # 0 =>
         /\ Line!Order = store.prs[Line!Requisition].po
         /\ Line!Request = store.prs[Line!Requisition].rfq
  BY <1>1 DEF Line!Order, Line!Request
<1> QED
  BY <1>1, <1>4, <1>5, <1>6

\* A line with an order is shown with it (app/process_map.py).
THEOREM OrdersAreSeen == Spec => []OrderIsSeen
<1>1. LineInv => OrderIsSeen
  <2> SUFFICES ASSUME LineInv, item \notin {"spec_missing", "delivered"}, DOMAIN orders # {}
               PROVE  Line!Rank(Line!Stage) >= Line!Rank("po")
    BY DEF OrderIsSeen, Line!OrderIsSeen
  <2>0. StoreFits(store) /\ Ordered(store) /\ DOMAIN orders = DOMAIN store.pos
    BY DEF LineInv, StoreFits
  <2>1. PICK n \in DOMAIN store.pos : TRUE
    BY <2>0
  <2>2. store.pos[n].pr \in DOMAIN store.prs /\ store.prs[store.pos[n].pr].po # 0
    BY ZenonT(60), <2>0 DEF Ordered, OrderNamed, OrderPlaced
  <2>3. /\ Line!Requisition \in DOMAIN store.prs /\ Line!Requisition # 0
        /\ Line!Order = store.prs[Line!Requisition].po /\ Line!Order # 0
    BY <2>2, Speaks
  <2>4. Line!Order \in DOMAIN orders
    BY ZenonT(60), <2>0, <2>3 DEF Ordered, OrderNamed, OrderPlaced
  <2>5. orders[Line!Order].ct \in Nat
    BY <2>4 DEF LineInv
  <2>6. Line!Stage = Line!StageOfOrder(Line!Order)
    BY <2>3 DEF Line!Stage, Line!None
  <2>7. Line!StageOfOrder(Line!Order) \in {"delivery", "site_grn", "shipment", "po"}
    BY <2>5 DEF Line!StageOfOrder
  <2> QED
    BY <2>6, <2>7, RankOf
<1> QED
  BY <1>1, LineInvHolds, PTL

\* What the line is judged by is there.
Judged ==
    /\ Line!Order # 0 => Line!Order \in DOMAIN orders /\ orders[Line!Order].ct \in Nat
    /\ Line!Request # 0 => Line!Request \in DOMAIN store.rfqs
    /\ Line!Requisition # 0 =>
          /\ Line!Requisition \in DOMAIN store.prs
          /\ Line!Request = 0 => store.prs[Line!Requisition].status \in {"draft", "rfq_issued"}

LEMMA JudgedWell == LineInv => Judged
<1> SUFFICES ASSUME LineInv PROVE Judged
  OBVIOUS
<1>1. /\ Asked(store) /\ Ordered(store) /\ DOMAIN orders = DOMAIN store.pos
      /\ \A n \in DOMAIN orders : orders[n].ct \in Nat
  BY DEF LineInv, StoreFits
<1>2. CASE Line!Requisition = 0
  BY SMTT(60), <1>2 DEF Judged, Line!Order, Line!Request, Line!None
<1>3. CASE Line!Requisition # 0
  <2>1. /\ Line!Requisition \in DOMAIN store.prs
        /\ Line!Order = store.prs[Line!Requisition].po
        /\ Line!Request = store.prs[Line!Requisition].rfq
    BY <1>3, Speaks
  <2> QED
    BY ZenonT(60), <1>1, <2>1 DEF Judged, Asked, Ordered, OrderNamed, OrderPlaced
<1> QED
  BY <1>2, <1>3

\* The stage, by what the line is judged by.
LEMMA StageBy ==
    /\ item = "spec_missing" => Line!Stage = "spec"
    /\ item = "delivered" => Line!Stage = "delivery"
    /\ item \notin {"spec_missing", "delivered"} =>
          /\ Line!Order # 0 => Line!Stage = Line!StageOfOrder(Line!Order)
          /\ Line!Order = 0 /\ Line!Request # 0 =>
                Line!Stage = Line!StageOfRequest(Line!Request)
          /\ Line!Order = 0 /\ Line!Request = 0 /\ Line!Requisition # 0 =>
                Line!Stage = Line!StageOfPr(Line!Requisition)
          /\ Line!Order = 0 /\ Line!Request = 0 /\ Line!Requisition = 0 =>
                Line!Stage = IF item = "ordered" THEN "po" ELSE "pr"
  BY DEF Line!Stage, Line!None

LEMMA RequestRank ==
    ASSUME NEW r
    PROVE  Line!Rank(Line!StageOfRequest(r)) =
              IF store.rfqs[r].status = "awarded" THEN 6
              ELSE IF r \in evaluated THEN 5
              ELSE IF Line!QuotesOf(store, r) # {} THEN 4 ELSE 3
  BY RankOf DEF Line!StageOfRequest

LEMMA OrderRank ==
    ASSUME NEW n, orders[n].ct \in Nat
    PROVE  Line!Rank(Line!StageOfOrder(n)) =
              IF orders[n].status = "delivered" THEN 10
              ELSE IF orders[n].ct > 0 THEN 9
              ELSE IF Line!InTransit(n) THEN 8 ELSE 7
  BY RankOf DEF Line!StageOfOrder

LEMMA PrRank ==
    ASSUME NEW p, store.prs[p].status \in {"draft", "rfq_issued"}
    PROVE  Line!Rank(Line!StageOfPr(p)) = IF store.prs[p].status = "draft" THEN 2 ELSE 3
  BY RankOf DEF Line!StageOfPr

\* Those again, of the state after a step.
LEMMA NextRanks ==
    /\ LineInv' => Judged'
    /\ /\ item' = "spec_missing" => Line!Stage' = "spec"
       /\ item' = "delivered" => Line!Stage' = "delivery"
       /\ item' \notin {"spec_missing", "delivered"} =>
          /\ Line!Order' # 0 => Line!Stage' = Line!StageOfOrder(Line!Order)'
          /\ Line!Order' = 0 /\ Line!Request' # 0 =>
                Line!Stage' = Line!StageOfRequest(Line!Request)'
          /\ Line!Order' = 0 /\ Line!Request' = 0 /\ Line!Requisition' # 0 =>
                Line!Stage' = Line!StageOfPr(Line!Requisition)'
          /\ Line!Order' = 0 /\ Line!Request' = 0 /\ Line!Requisition' = 0 =>
                Line!Stage' = IF item' = "ordered" THEN "po" ELSE "pr"
<1>1. LineInv' => Judged'
  BY JudgedWell, PTL
<1> QED
  BY <1>1 DEF Line!Stage, Line!None

\* A step that takes nothing back keeps the line's stage or moves it on.
LEMMA NeverBack ==
    ASSUME LineInv, LineInv', LineMoves, ~Line!Restarted
    PROVE  Line!Rank(Line!Stage') >= Line!Rank(Line!Stage)
<1>1. /\ item' = item
      /\ Line!Order' = Line!Order /\ Line!Request' = Line!Request
      /\ Line!Requisition' = Line!Requisition
  BY DEF Line!Restarted
<1>2. \A n \in DOMAIN orders :
         /\ Line!CurrentStage(n) \in Line!Moving => Line!CurrentStage(n)' \in Line!Moving
         /\ orders[n].status = "delivered" => orders'[n].status = "delivered"
  BY DEF Line!Restarted
<1>3. Judged /\ Judged'
  BY JudgedWell, NextRanks
<1>4. /\ Onward(store, store') /\ evaluated \subseteq evaluated'
      /\ \A n \in DOMAIN orders : n \in DOMAIN orders' /\ orders'[n].ct >= orders[n].ct
  BY DEF LineMoves
<1>5. CASE item \in {"spec_missing", "delivered"}
  BY <1>1, <1>5, StageBy, NextRanks, RankOf
<1>6. CASE item \notin {"spec_missing", "delivered"} /\ Line!Order # 0
  <2>1. PICK n : n = Line!Order
    OBVIOUS
  <2>2. /\ n \in DOMAIN orders /\ orders[n].ct \in Nat
        /\ n \in DOMAIN orders' /\ orders'[n].ct \in Nat
    BY <1>1, <1>3, <1>6, <2>1 DEF Judged
  <2>3. Line!Rank(Line!Stage) = IF orders[n].status = "delivered" THEN 10
                                ELSE IF orders[n].ct > 0 THEN 9
                                ELSE IF Line!InTransit(n) THEN 8 ELSE 7
    BY <1>6, <2>1, <2>2, StageBy, OrderRank
  <2>4. Line!Stage' = Line!StageOfOrder(n)'
    BY <1>1, <1>6, <2>1, NextRanks
  <2>5. Line!Rank(Line!StageOfOrder(n)') = IF orders'[n].status = "delivered" THEN 10
                                           ELSE IF orders'[n].ct > 0 THEN 9
                                           ELSE IF Line!InTransit(n)' THEN 8 ELSE 7
    BY <2>2, RankOf DEF Line!StageOfOrder
  <2>6. Line!InTransit(n) => orders'[n].status = "delivered" \/ Line!InTransit(n)'
    BY <1>2, <2>2 DEF Line!InTransit, Line!ListedShipments
  <2>7. /\ orders[n].status = "delivered" => orders'[n].status = "delivered"
        /\ orders[n].ct > 0 => orders'[n].ct > 0
    BY <1>2, <1>4, <2>2
  <2> QED
    BY <2>3, <2>4, <2>5, <2>6, <2>7
<1>7. CASE item \notin {"spec_missing", "delivered"} /\ Line!Order = 0 /\ Line!Request # 0
  <2>1. PICK r : r = Line!Request
    OBVIOUS
  <2>2. r \in DOMAIN store.rfqs
    BY <1>3, <1>7, <2>1 DEF Judged
  <2>3. Line!Rank(Line!Stage) = IF store.rfqs[r].status = "awarded" THEN 6
                                ELSE IF r \in evaluated THEN 5
                                ELSE IF Line!QuotesOf(store, r) # {} THEN 4 ELSE 3
    BY <1>7, <2>1, StageBy, RequestRank
  <2>4. Line!Stage' = Line!StageOfRequest(r)'
    BY <1>1, <1>7, <2>1, NextRanks
  <2>5. Line!Rank(Line!StageOfRequest(r)') = IF store'.rfqs[r].status = "awarded" THEN 6
                                             ELSE IF r \in evaluated' THEN 5
                                             ELSE IF Line!QuotesOf(store', r) # {} THEN 4 ELSE 3
    BY RankOf DEF Line!StageOfRequest
  <2>6. /\ store.rfqs[r].status = "awarded" => store'.rfqs[r].status = "awarded"
        /\ Line!QuotesOf(store, r) \subseteq Line!QuotesOf(store', r)
    BY <1>4, <2>2 DEF Onward, Line!QuotesOf
  <2> QED
    BY <1>4, <2>3, <2>4, <2>5, <2>6
<1>8. CASE /\ item \notin {"spec_missing", "delivered"}
           /\ Line!Order = 0 /\ Line!Request = 0 /\ Line!Requisition # 0
  <2>1. PICK p : p = Line!Requisition
    OBVIOUS
  <2>2. /\ p \in DOMAIN store.prs /\ store.prs[p].status \in {"draft", "rfq_issued"}
        /\ store'.prs[p].status \in {"draft", "rfq_issued"}
    BY <1>1, <1>3, <1>8, <2>1 DEF Judged
  <2>3. Line!Rank(Line!Stage) = IF store.prs[p].status = "draft" THEN 2 ELSE 3
    BY <1>8, <2>1, <2>2, StageBy, PrRank
  <2>4. Line!Stage' = Line!StageOfPr(p)'
    BY <1>1, <1>8, <2>1, NextRanks
  <2>5. Line!Rank(Line!StageOfPr(p)') = IF store'.prs[p].status = "draft" THEN 2 ELSE 3
    BY <2>2, RankOf DEF Line!StageOfPr
  <2>6. store'.prs[p].status = "draft" => store.prs[p].status = "draft"
    BY <1>4, <2>2 DEF Onward
  <2> QED
    BY <2>3, <2>4, <2>5, <2>6
<1>9. CASE /\ item \notin {"spec_missing", "delivered"}
           /\ Line!Order = 0 /\ Line!Request = 0 /\ Line!Requisition = 0
  BY <1>1, <1>9, StageBy, NextRanks, RankOf
<1> QED
  BY <1>5, <1>6, <1>7, <1>8, <1>9

\* Whatever order quotes, evaluations, receipts and events come in, a line does
\* not move back on the map (app/process_map.py).
THEOREM LinesMoveOn == Spec => LineNeverStepsBack
<1> DEFINE A == Line!Restarted \/ Line!Rank(Line!Stage') >= Line!Rank(Line!Stage)
<1>1. LineInv /\ LineInv' /\ [Next]_deskVars => [A]_(Line!lineVars)
  <2> SUFFICES ASSUME LineInv, LineInv', [Next]_deskVars, ~Line!Restarted,
                      lineVars' # lineVars
               PROVE  Line!Rank(Line!Stage') >= Line!Rank(Line!Stage)
    BY DEF lineVars, Line!lineVars
  <2>1. LineMoves
    BY LineKeeps
  <2> QED
    BY <2>1, NeverBack
<1>2. []LineInv /\ [][Next]_deskVars => [][A]_(Line!lineVars)
  BY <1>1, PTL
<1> QED
  BY <1>2, LineInvHolds, PTL DEF Spec, LineNeverStepsBack, Line!LineNeverStepsBack

\* The least of the orders or awards of something.
LEMMA LeastThere ==
    ASSUME NEW T \in SUBSET Nat, T # {}
    PROVE  Views!Min(T) \in T /\ \A n \in T : Views!Min(T) <= n
<1>1. \E m \in T : \A n \in T : m <= n
  BY LeastNat
<1> QED
  BY <1>1 DEF Views!Min

\* An order is worth what was quoted for it.
LEMMA OrderWorth ==
    ASSUME LineInv, focus = "views", 0 \notin ViewTotals, NEW n \in DOMAIN store.pos
    PROVE  /\ store.pos[n].value = store.quotes[store.awards[n].quote].total
           /\ store.pos[n].value # 0
  BY DEF LineInv, StoreFits, Ordered, OrderNamed, OrderPlaced

\* The first order of a requisition, if it has any.
LEMMA FirstOrder ==
    ASSUME LineInv, NEW p \in DOMAIN store.prs
    PROVE  /\ store.prs[p].po = 0 => Views!OrdersOf(p) = {} /\ Views!FinalPo(p) = 0
           /\ store.prs[p].po # 0 =>
                 /\ Views!FinalPo(p) \in Views!OrdersOf(p) /\ Views!FinalPo(p) # 0
                 /\ \A m \in Views!OrdersOf(p) : Views!FinalPo(p) <= m
<1>1. /\ Ordered(store) /\ Rows(store) /\ DOMAIN orders = DOMAIN store.pos
      /\ Views!None = 0
  BY DEF LineInv, StoreFits, Views!None
<1>2. Views!OrdersOf(p) \in SUBSET (Nat \ {0})
  BY <1>1 DEF Views!OrdersOf, Rows
<1>3. CASE store.prs[p].po = 0
  <2>1. Views!OrdersOf(p) = {}
    BY <1>1, <1>3 DEF Views!OrdersOf, Ordered, OrderNamed, OrderPlaced
  <2> QED
    BY SMTT(60), <1>1, <1>3, <2>1 DEF Views!FinalPo
<1>4. CASE store.prs[p].po # 0
  <2>1. Views!OrdersOf(p) # {}
    BY ZenonT(60), <1>1, <1>4 DEF Views!OrdersOf, Ordered, OrderNamed, OrderPlaced
  <2>2. Views!FinalPo(p) = Views!Min(Views!OrdersOf(p))
    BY <2>1 DEF Views!FinalPo
  <2>3. Views!OrdersOf(p) \in SUBSET Nat
    BY <1>2
  <2>4. /\ Views!Min(Views!OrdersOf(p)) \in Views!OrdersOf(p)
        /\ \A m \in Views!OrdersOf(p) : Views!Min(Views!OrdersOf(p)) <= m
    BY <2>1, <2>3, LeastThere
  <2> QED
    BY SMTT(60), <1>2, <1>4, <2>2, <2>4
<1> QED
  BY <1>3, <1>4

\* The awarded total of the commercial summary.
LEMMA AwardedTotal ==
    ASSUME LineInv, focus = "views", 0 \notin ViewTotals
    PROVE  Views!Summary.awarded =
              Views!MapThenSumSet(Views!CurrentValue, DOMAIN store.prs)
<1> DEFINE S == DOMAIN store.prs
           Shown(p) == IF Views!AwardedValue(p) # 0 THEN Views!AwardedValue(p)
                       ELSE Views!FinalValue(p)
           ShownTable(g) ==
              g = [s \in SUBSET S |->
                     IF s = {} THEN 0
                     ELSE Shown(CHOOSE y \in s : TRUE) + g[s \ {CHOOSE y \in s : TRUE}]]
           CurrentTable(g) ==
              g = [s \in SUBSET S |->
                     IF s = {} THEN 0
                     ELSE Views!CurrentValue(CHOOSE y \in s : TRUE)
                             + g[s \ {CHOOSE y \in s : TRUE}]]
<1>1. Views!Summary.awarded = (CHOOSE g : ShownTable(g))[S]
  BY DEF Views!Summary, Views!MapThenSumSet, Views!MapThenFoldSet
<1>2. Views!MapThenSumSet(Views!CurrentValue, S) = (CHOOSE g : CurrentTable(g))[S]
  BY DEF Views!MapThenSumSet, Views!MapThenFoldSet
<1>3. ASSUME NEW p \in S
      PROVE  Shown(p) = Views!CurrentValue(p)
  <2>1. Ordered(store) /\ Views!None = 0
    BY DEF LineInv, StoreFits, Views!None
  <2>2. CASE store.prs[p].po = 0
    <3>1. Views!AwardedValue(p) = 0 /\ Views!FinalValue(p) = 0
      BY ZenonT(60), <2>1, <2>2, FirstOrder DEF Views!FinalValue, Views!AwardedValue, Views!AwardOfPr, Ordered, OrderNamed, OrderPlaced
    <3> QED
      BY ZenonT(60), <2>1, <2>2, <3>1 DEF Views!CurrentValue
  <2>3. CASE store.prs[p].po # 0
    <3>1. /\ store.prs[p].po \in DOMAIN store.pos
          /\ Views!AwardedValue(p) = store.quotes[store.awards[store.prs[p].po].quote].total
      BY ZenonT(60), <2>1, <2>3 DEF Views!AwardedValue, Views!AwardOfPr, Ordered, OrderNamed, OrderPlaced
    <3>2. Views!AwardedValue(p) = store.pos[store.prs[p].po].value /\ Views!AwardedValue(p) # 0
      BY ZenonT(60), <3>1, OrderWorth
    <3> QED
      BY ZenonT(60), <2>1, <2>3, <3>2 DEF Views!CurrentValue
  <2> QED
    BY <2>2, <2>3
<1>4. \A s \in SUBSET S : s # {} =>
         Shown(CHOOSE y \in s : TRUE) = Views!CurrentValue(CHOOSE y \in s : TRUE)
  <2> SUFFICES ASSUME NEW s \in SUBSET S, s # {}
               PROVE  Shown(CHOOSE y \in s : TRUE) = Views!CurrentValue(CHOOSE y \in s : TRUE)
    OBVIOUS
  <2>1. (CHOOSE y \in s : TRUE) \in s
    OBVIOUS
  <2> HIDE DEF Shown
  <2> QED
    BY <1>3, <2>1
<1>5. \A g : ShownTable(g) <=> CurrentTable(g)
  <2> HIDE DEF Shown, S
  <2> QED
    BY <1>4
<1>6. (CHOOSE g : ShownTable(g)) = (CHOOSE g : CurrentTable(g))
  <2> HIDE DEF ShownTable, CurrentTable
  <2> QED
    BY <1>5
<1> HIDE DEF S, ShownTable, CurrentTable
<1> QED
  BY <1>1, <1>2, <1>6 DEF S

\* The order a commercial line takes its savings from is in the line's chain.
LEMMA SavingsTraced ==
    ASSUME LineInv, focus = "views", 0 \notin ViewTotals,
           NEW p \in DOMAIN store.prs, Views!State(p) = "awarded"
    PROVE  \E link \in Views!Chain :
              /\ link.stage = "po" /\ link.of \in Views!OrdersOf(p)
              /\ Views!Savings(p) = Budget - store.pos[link.of].value
<1>1. /\ Ordered(store) /\ Rows(store) /\ DOMAIN orders = DOMAIN store.pos
      /\ Views!None = 0
  BY DEF LineInv, StoreFits, Views!None
<1>2. store.prs[p].po # 0
  BY ZenonT(60), <1>1, FirstOrder DEF Views!State, Views!AwardOfPr, Ordered, OrderNamed, OrderPlaced
<1>3. PICK n : n = Views!FinalPo(p)
  OBVIOUS
<1>4. /\ n \in DOMAIN store.pos /\ store.pos[n].pr = p /\ n # 0 /\ n \in Nat
      /\ n \in Views!OrdersOf(p)
      /\ \A m \in Views!OrdersOf(p) : n <= m
  BY <1>1, <1>2, <1>3, FirstOrder DEF Views!OrdersOf, Rows
<1>5. PICK r : r = store.pos[n].rfq
  OBVIOUS
<1>6. r \in DOMAIN store.rfqs /\ store.rfqs[r].pr = p
  BY ZenonT(60), <1>1, <1>4, <1>5 DEF Ordered, OrderNamed, OrderPlaced
<1>7. Views!TracedAward(r) = n
  <2> DEFINE T == {a \in DOMAIN store.awards : store.awards[a].rfq = r}
  <2>1. n \in T
    BY ZenonT(60), <1>1, <1>4, <1>5 DEF Ordered, OrderNamed, OrderPlaced
  <2>2. \A a \in T : a \in Views!OrdersOf(p)
    BY <1>1, <1>6 DEF Views!OrdersOf, Ordered, OrderNamed, OrderPlaced
  <2>3. T \in SUBSET Nat
    BY ZenonT(60), <1>1 DEF Ordered, OrderNamed, OrderPlaced, Rows
  <2>4. Views!TracedAward(r) = Views!Min(T)
    BY <2>1 DEF Views!TracedAward
  <2> HIDE DEF T
  <2>5. Views!Min(T) \in T /\ Views!Min(T) <= n
    BY <2>1, <2>3, LeastThere
  <2>6. n <= Views!Min(T)
    BY <1>4, <2>2, <2>5
  <2>7. Views!Min(T) \in Nat
    BY <2>3, <2>5
  <2> QED
    BY SMTT(60), <1>4, <2>4, <2>5, <2>6, <2>7
<1>8. n \in Views!TracedOrders(r)
  BY ZenonT(60), <1>1, <1>4, <1>7 DEF Views!TracedOrders, Ordered, OrderNamed, OrderPlaced
<1>9. PICK link : link = Views!Link("po", n, orders[n].status \in {"released", "delivered"})
  OBVIOUS
<1>10. link \in Views!OrderLinks(n)
  BY <1>9 DEF Views!OrderLinks
<1>11. link \in Views!RequestLinks(r)
  BY <1>8, <1>10 DEF Views!RequestLinks
<1>12. link \in Views!Chain
  BY <1>6, <1>11 DEF Views!Chain
<1>13. link.stage = "po" /\ link.of = n
  BY <1>9 DEF Views!Link
<1>14. store.pos[n].value # 0
  BY <1>4, OrderWorth
<1>15. Views!Savings(p) = Budget - store.pos[n].value
  BY <1>1, <1>3, <1>4, <1>14 DEF Views!Savings, Views!HasReference, Views!Reference,
      Views!FinalValue
<1> QED
  BY <1>4, <1>12, <1>13, <1>15

\* However often requisitions are sourced again, the commercial lines and the
\* chain mean the same orders, unless a quote is free: the code takes an amount
\* of zero for one that is not there (app/commercial.py).
THEOREM ViewsAgree == 0 \notin ViewTotals => (Spec => []ViewsNameTheSameOrders)
<1> SUFFICES ASSUME 0 \notin ViewTotals PROVE Spec => []ViewsNameTheSameOrders
  OBVIOUS
<1>1. LineInv => ViewsNameTheSameOrders
  BY AwardedTotal, SavingsTraced DEF ViewsNameTheSameOrders, Views!ViewsNameTheSameOrders
<1> QED
  BY <1>1, LineInvHolds, PTL

-----------------------------------------------------------------------------
(* The audit log *)

\* From its row i on, a log has events of hist in their order, m saying which, and
\* no fewer of them came after the first.
Copied(shown, hist, i, m) ==
    /\ i \in 1..Len(shown)
    /\ \A x \in i..Len(shown) : m[x] \in 1..Len(hist) /\ shown[x] = hist[m[x]]
    /\ \A x, y \in i..Len(shown) : x < y => m[x] < m[y]
    /\ Len(shown) - i <= Len(hist) - m[i]

\* Event k of hist is in a log, with events that came after it.
Shows(shown, hist, k) == \E i, m : Copied(shown, hist, i, m) /\ m[i] = k

\* What an append makes of a sequence.
LEMMA AppendedEvents ==
    ASSUME NEW E, NEW s \in Seq(E), NEW e \in E
    PROVE  /\ Append(s, e) \in Seq(E) /\ Len(Append(s, e)) = Len(s) + 1 /\ Len(s) \in Nat
           /\ Append(s, e)[Len(s) + 1] = e
           /\ \A x \in 1..Len(s) : Append(s, e)[x] = s[x]
  OBVIOUS

\* The newest event is in its log.
LEMMA NewestShown ==
    ASSUME NEW E, NEW shown \in Seq(E), NEW hist \in Seq(E), Len(shown) >= 1, Len(hist) >= 1,
           shown[Len(shown)] = hist[Len(hist)]
    PROVE  Shows(shown, hist, Len(hist))
<1> DEFINE n == Len(shown)
           k == Len(hist)
           m == [x \in {n} |-> k]
<1>1. n \in Nat /\ k \in Nat /\ n >= 1 /\ k >= 1 /\ shown[n] = hist[k]
  OBVIOUS
<1>2. m[n] = k
  OBVIOUS
<1> HIDE DEF m
<1>3. Copied(shown, hist, n, m)
  <2> HIDE DEF n, k
  <2>1. n..n = {n}
    BY <1>1
  <2> QED
    BY <1>1, <1>2, <2>1 DEF Copied, n, k
<1> QED
  BY <1>2, <1>3 DEF Shows

\* An event emitted into the ring leaves an older one there, or there have been
\* as many events since as the ring holds.
LEMMA ShownInRing ==
    ASSUME NEW E, NEW shown \in Seq(E), NEW hist \in Seq(E), NEW e \in E, NEW k \in Nat,
           RingSize \in Nat \ {0}, Len(shown) <= RingSize, Shows(shown, hist, k),
           NEW ring, ring = Trail!Ring(shown, e), NEW now, now = Append(hist, e)
    PROVE  Shows(ring, now, k) \/ Len(now) - k >= RingSize
<1>1. PICK i, m : Copied(shown, hist, i, m) /\ m[i] = k
  BY DEF Shows
<1>2. /\ Len(now) = Len(hist) + 1 /\ Len(hist) \in Nat /\ Len(shown) \in Nat
      /\ now[Len(hist) + 1] = e
      /\ \A x \in 1..Len(hist) : now[x] = hist[x]
  BY AppendedEvents
<1>3. /\ i \in 1..Len(shown)
      /\ \A x \in i..Len(shown) : m[x] \in 1..Len(hist) /\ shown[x] = hist[m[x]]
      /\ \A x, y \in i..Len(shown) : x < y => m[x] < m[y]
      /\ Len(shown) - i <= Len(hist) - m[i]
  BY <1>1 DEF Copied
<1>4. CASE Len(shown) < RingSize
  <2> DEFINE w == [x \in i..(Len(shown) + 1) |-> IF x = Len(shown) + 1 THEN Len(hist) + 1 ELSE m[x]]
  <2>1. ring = Append(shown, e)
    BY <1>4 DEF Trail!Ring
  <2>2. /\ Len(ring) = Len(shown) + 1 /\ ring[Len(shown) + 1] = e
        /\ \A x \in 1..Len(shown) : ring[x] = shown[x]
    BY <2>1, AppendedEvents
  <2>3. /\ w[Len(shown) + 1] = Len(hist) + 1
        /\ \A x \in i..Len(shown) : w[x] = m[x]
    BY <1>2, <1>3
  <2> HIDE DEF w
  <2>4. /\ i \in 1..Len(ring) /\ Len(ring) - i <= Len(now) - w[i]
        /\ w[i] = k
    BY <1>1, <1>2, <1>3, <2>2, <2>3
  <2>5. \A x \in i..Len(ring) : w[x] \in 1..Len(now) /\ ring[x] = now[w[x]]
    <3> SUFFICES ASSUME NEW x \in i..Len(ring)
                 PROVE  w[x] \in 1..Len(now) /\ ring[x] = now[w[x]]
      OBVIOUS
    <3>1. CASE x = Len(shown) + 1
      BY <1>2, <2>2, <2>3, <3>1
    <3>2. CASE x \in i..Len(shown)
      BY SMTT(60), <1>2, <1>3, <2>2, <2>3, <3>2
    <3>3. Len(ring) = Len(shown) + 1 /\ Len(shown) \in Nat /\ i \in Int
      BY <1>2, <1>3, <2>2
    <3>4. x = Len(shown) + 1 \/ x \in i..Len(shown)
      BY <3>3
    <3> QED
      BY <3>1, <3>2, <3>4
  <2>6. \A x, y \in i..Len(ring) : x < y => w[x] < w[y]
    <3> SUFFICES ASSUME NEW x \in i..Len(ring), NEW y \in i..Len(ring), x < y
                 PROVE  w[x] < w[y]
      OBVIOUS
    <3>0. Len(ring) = Len(shown) + 1 /\ Len(shown) \in Nat /\ i \in Int
      BY <1>2, <1>3, <2>2
    <3>1. x \in i..Len(shown) /\ (y = Len(shown) + 1 \/ y \in i..Len(shown))
      BY <3>0
    <3>2. m[x] \in 1..Len(hist) /\ w[x] = m[x]
      BY <1>3, <2>3, <3>1
    <3>3. CASE y = Len(shown) + 1
      BY <1>2, <2>3, <3>2, <3>3
    <3>4. CASE y \in i..Len(shown)
      BY <1>3, <2>3, <3>1, <3>4
    <3> QED
      BY <3>1, <3>3, <3>4
  <2>7. Copied(ring, now, i, w)
    BY <2>4, <2>5, <2>6 DEF Copied
  <2> QED
    BY <2>4, <2>7 DEF Shows
<1>5. CASE Len(shown) = RingSize
  <2> DEFINE rest == Tail(shown)
             w == [x \in (i - 1)..Len(shown) |-> IF x = Len(shown) THEN Len(hist) + 1 ELSE m[x + 1]]
  <2>1. /\ rest \in Seq(E) /\ Len(rest) = Len(shown) - 1
        /\ \A x \in 1..(Len(shown) - 1) : rest[x] = shown[x + 1]
    BY <1>2, <1>5
  <2> HIDE DEF rest
  <2>2. ring = Append(rest, e)
    BY <1>5 DEF Trail!Ring, rest
  <2>3. /\ Len(ring) = Len(shown) /\ ring[Len(shown)] = e
        /\ \A x \in 1..(Len(shown) - 1) : ring[x] = shown[x + 1]
    <3>1. /\ Len(ring) = Len(rest) + 1 /\ ring[Len(rest) + 1] = e
          /\ \A x \in 1..Len(rest) : ring[x] = rest[x]
      BY <2>1, <2>2, AppendedEvents
    <3> QED
      BY <1>2, <1>5, <2>1, <3>1
  <2>4. CASE i = 1
    BY <1>1, <1>2, <1>3, <1>5, <2>4
  <2>5. CASE i # 1
    <3>1. /\ w[Len(shown)] = Len(hist) + 1
          /\ \A x \in (i - 1)..(Len(shown) - 1) : w[x] = m[x + 1]
          /\ i - 1 \in 1..(Len(shown) - 1)
      BY <1>2, <1>3, <2>5
    <3> HIDE DEF w
    <3>2. /\ i - 1 \in 1..Len(ring) /\ Len(ring) - (i - 1) <= Len(now) - w[i - 1]
          /\ w[i - 1] = k
      <4>1. i - 1 \in (i - 1)..(Len(shown) - 1) /\ (i - 1) + 1 = i
        BY <1>2, <1>3, <3>1
      <4>2. w[i - 1] = m[i]
        BY <3>1, <4>1
      <4>3. m[i] = k /\ k \in Nat /\ Len(shown) - i <= Len(hist) - k
        BY <1>1, <1>3
      <4> QED
        BY <1>2, <1>3, <2>3, <3>1, <4>2, <4>3
    <3>3. \A x \in (i - 1)..Len(ring) : w[x] \in 1..Len(now) /\ ring[x] = now[w[x]]
      <4> SUFFICES ASSUME NEW x \in (i - 1)..Len(ring)
                   PROVE  w[x] \in 1..Len(now) /\ ring[x] = now[w[x]]
        OBVIOUS
      <4>1. CASE x = Len(shown)
        BY <1>2, <2>3, <3>1, <4>1
      <4>2. CASE x \in (i - 1)..(Len(shown) - 1)
        <5>1. x + 1 \in i..Len(shown) /\ w[x] = m[x + 1] /\ ring[x] = shown[x + 1]
          BY <1>2, <1>3, <2>3, <3>1, <4>2
        <5> QED
          BY SMTT(60), <1>2, <1>3, <5>1
      <4> QED
        BY <1>2, <2>3, <3>1, <4>1, <4>2
    <3>4. \A x, y \in (i - 1)..Len(ring) : x < y => w[x] < w[y]
      <4> SUFFICES ASSUME NEW x \in (i - 1)..Len(ring), NEW y \in (i - 1)..Len(ring), x < y
                   PROVE  w[x] < w[y]
        OBVIOUS
      <4>1. x + 1 \in i..Len(shown) /\ w[x] = m[x + 1]
        BY <1>2, <1>3, <2>3, <3>1
      <4>2. CASE y = Len(shown)
        BY <1>2, <1>3, <3>1, <4>1, <4>2
      <4>3. CASE y \in (i - 1)..(Len(shown) - 1)
        <5>1. y + 1 \in i..Len(shown) /\ w[y] = m[y + 1] /\ x + 1 < y + 1
          BY <1>2, <1>3, <3>1, <4>3
        <5> QED
          BY <1>3, <4>1, <5>1
      <4> QED
        BY <1>2, <2>3, <3>1, <4>2, <4>3
    <3>5. Copied(ring, now, i - 1, w)
      BY <3>2, <3>3, <3>4 DEF Copied
    <3> QED
      BY <3>2, <3>5 DEF Shows
  <2> QED
    BY <2>4, <2>5
<1> QED
  BY <1>2, <1>4, <1>5

\* No fewer postings of an order come after an event in history than in a log
\* that shows it.
LEMMA PostingsSince ==
    ASSUME NEW E, NEW shown \in Seq(E), NEW hist \in Seq(E), NEW i, NEW m,
           Copied(shown, hist, i, m), NEW po
    PROVE  LET found == Trail!After(Trail!Postings(shown, po), i)
               since == Trail!After(Trail!Postings(hist, po), m[i])
           IN  /\ Trail!Cardinality(found) \in Nat /\ Trail!Cardinality(since) \in Nat
               /\ Trail!Cardinality(found) <= Trail!Cardinality(since)
<1> DEFINE found == Trail!After(Trail!Postings(shown, po), i)
           since == Trail!After(Trail!Postings(hist, po), m[i])
           f == [x \in found |-> m[x]]
<1>1. /\ DOMAIN shown = 1..Len(shown) /\ Len(shown) \in Nat
      /\ DOMAIN hist = 1..Len(hist) /\ Len(hist) \in Nat
  OBVIOUS
<1>2. /\ i \in 1..Len(shown)
      /\ \A x \in i..Len(shown) : m[x] \in 1..Len(hist) /\ shown[x] = hist[m[x]]
      /\ \A x, y \in i..Len(shown) : x < y => m[x] < m[y]
  BY DEF Copied
<1>3. \A x \in found : x \in i..Len(shown) /\ i < x /\ Trail!Posting(shown[x], po)
  BY <1>1, <1>2 DEF Trail!After, Trail!Postings
<1>4. \A x \in found : m[x] \in since
  <2> SUFFICES ASSUME NEW x \in found PROVE m[x] \in since
    OBVIOUS
  <2>1. /\ m[x] \in 1..Len(hist) /\ shown[x] = hist[m[x]] /\ Trail!Posting(shown[x], po)
        /\ i \in i..Len(shown) /\ m[i] < m[x] /\ m[i] \in 1..Len(hist)
    BY <1>1, <1>2, <1>3
  <2> QED
    BY <1>1, <2>1 DEF Trail!After, Trail!Postings
<1>5. \A x, y \in found : x # y => m[x] # m[y]
  <2> HIDE DEF found
  <2> SUFFICES ASSUME NEW x \in found, NEW y \in found, x # y PROVE m[x] # m[y]
    OBVIOUS
  <2>1. /\ x \in i..Len(shown) /\ y \in i..Len(shown)
        /\ m[x] \in 1..Len(hist) /\ m[y] \in 1..Len(hist)
    BY <1>2, <1>3
  <2>2. x < y \/ y < x
    BY <1>1, <1>2, <2>1
  <2> QED
    BY <1>1, <1>2, <2>1, <2>2
<1>6. IsFiniteSet(since) /\ IsFiniteSet(found)
  <2>1. IsFiniteSet(1..Len(hist)) /\ IsFiniteSet(1..Len(shown))
    BY <1>1, FS_Interval
  <2>2. since \subseteq 1..Len(hist) /\ found \subseteq 1..Len(shown)
    BY <1>1 DEF Trail!After, Trail!Postings
  <2> QED
    BY <2>1, <2>2, FS_Subset
<1> HIDE DEF found, since
<1>7. f \in Injection(found, since)
  BY <1>4, <1>5 DEF Injection, IsInjective
<1>8. Cardinality(found) <= Cardinality(since)
  BY <1>6, <1>7, FS_Injection
<1>9. Cardinality(found) \in Nat /\ Cardinality(since) \in Nat
  BY <1>6, FS_CardinalityType
<1>10. /\ Trail!Cardinality(found) = Cardinality(found)
       /\ Trail!Cardinality(since) = Cardinality(since)
  BY DEF Trail!Cardinality, Cardinality
<1> QED
  BY <1>8, <1>9, <1>10 DEF found, since

\* k is the last posting in hist of a GRN for an order.
LastIn(hist, g, po, k) ==
    /\ k \in DOMAIN hist /\ Trail!Posting(hist[k], po) /\ hist[k].grn = g
    /\ \A j \in DOMAIN hist : Trail!Posting(hist[j], po) /\ hist[j].grn = g => j <= k

\* Where that posting is shown by a log, or has been pushed out of it.
Traced(shown, hist, g, po) ==
    \E k \in DOMAIN hist :
       /\ LastIn(hist, g, po, k)
       /\ Shows(shown, hist, k) \/ Len(hist) - k >= RingSize

\* The row of a GRN whose event is in memory and not yet in the file.
Pending(g, po) == effects[g].unflushed /\ Grns[g][effects[g].next - 1] = po

\* The effects of a GRN, and how far they have come.
Underway(g) ==
    /\ effects[g].next \in 0..(Len(Grns[g]) + 1)
    /\ effects[g].at \in {"new", "committed"} => effects[g].next = 0 /\ ~effects[g].unflushed
    /\ effects[g].at = "stamped" =>
          effects[g].next = Len(Grns[g]) + 1 /\ ~effects[g].unflushed

\* A posting of this run of the effects can be traced in memory, if no restart has
\* forgotten the GRN.
InMemory ==
    \A g \in DOMAIN Grns \ forgotten : \A n \in 1..Len(Grns[g]) :
       n < effects[g].next => Traced(events, history, g, Grns[g][n])

\* It can be traced in the file once its own flush is over, if no failed write has
\* kept events of the GRN from the file; so when the run is over, in both.
OnDisk ==
    \A g \in DOMAIN Grns \ (forgotten \cup unfiled) : \A n \in 1..Len(Grns[g]) :
       n < effects[g].next /\ ~Pending(g, Grns[g][n]) =>
          Traced(auditFile.log, auditFile.past, g, Grns[g][n])

TrailInv ==
    /\ Trail!TypeOK
    /\ \A g \in DOMAIN Grns : Underway(g)
    /\ InMemory
    /\ OnDisk

\* Nothing is emitted and no effects are done.
LEMMA InitTrail == Trail!Init => TrailInv
<1> SUFFICES ASSUME Trail!Init PROVE TrailInv
  OBVIOUS
<1>1. /\ events = <<>> /\ auditFile = Trail!NoEvents /\ history = <<>>
      /\ effects = [g \in DOMAIN Grns |-> Trail!NotYet]
      /\ unfiled = {} /\ forgotten = {} /\ auditFaults = 0
  BY DEF Trail!Init
<1>2. /\ Trail!NotYet = [at |-> "new", next |-> 0, unflushed |-> FALSE]
      /\ Trail!NoEvents.log = <<>> /\ Trail!NoEvents.past = <<>>
  BY DEF Trail!NotYet, Trail!NoEvents
<1>3. Trail!TypeOK
  BY <1>1, <1>2, TrailConstants DEF Trail!TypeOK
<1>4. ASSUME NEW g \in DOMAIN Grns
      PROVE  /\ Underway(g) /\ effects[g].next = 0
  <2>1. Len(Grns[g]) \in Nat
    BY TrailConstants
  <2> QED
    BY <1>1, <1>2, <2>1 DEF Underway
<1> QED
  BY <1>3, <1>4 DEF TrailInv, InMemory, OnDisk

\* The property's last posting, in history.
LEMMA LastPostingIs ==
    /\ \A g, po, k : Trail!LastPosting(g, po, k) <=> LastIn(history, g, po, k)
    /\ \A g, po, k : Trail!LastPosting(g, po, k)' <=> LastIn(history', g, po, k)
  BY DEF Trail!LastPosting, Trail!Postings, LastIn

\* What one more event makes of a trace.
LEMMA TraceEmitted ==
    ASSUME NEW E, NEW shown \in Seq(E), NEW hist \in Seq(E), NEW e \in E,
           RingSize \in Nat \ {0}, Len(shown) <= RingSize,
           NEW ring, ring = Trail!Ring(shown, e), NEW now, now = Append(hist, e),
           NEW g, NEW po, ~(Trail!Posting(e, po) /\ e.grn = g),
           NEW k, LastIn(hist, g, po, k)
    PROVE  /\ LastIn(now, g, po, k)
           /\ Shows(shown, hist, k) \/ Len(hist) - k >= RingSize =>
                 Shows(ring, now, k) \/ Len(now) - k >= RingSize
<1>1. /\ Len(now) = Len(hist) + 1 /\ Len(hist) \in Nat /\ now[Len(hist) + 1] = e
      /\ \A x \in 1..Len(hist) : now[x] = hist[x]
      /\ DOMAIN hist = 1..Len(hist) /\ now \in Seq(E)
  BY AppendedEvents
<1>2. DOMAIN now = 1..(Len(hist) + 1)
  BY <1>1
<1>3. k \in 1..Len(hist) /\ k \in Nat
  BY <1>1 DEF LastIn
<1>4. LastIn(now, g, po, k)
  <2>1. k \in DOMAIN now /\ now[k] = hist[k]
    BY <1>1, <1>2, <1>3
  <2>2. ASSUME NEW j \in DOMAIN now, Trail!Posting(now[j], po), now[j].grn = g
        PROVE  j <= k
    <3>1. j # Len(hist) + 1
      BY <1>1, <2>2
    <3>2. j \in 1..Len(hist) /\ now[j] = hist[j]
      BY <1>1, <1>2, <3>1
    <3> QED
      BY <1>1, <2>2, <3>2 DEF LastIn
  <2> QED
    BY <2>1, <2>2 DEF LastIn
<1>5. Shows(shown, hist, k) => Shows(ring, now, k) \/ Len(now) - k >= RingSize
  BY <1>3, ShownInRing
<1>6. Len(hist) - k >= RingSize => Len(now) - k >= RingSize
  BY <1>1, <1>3
<1> QED
  BY <1>4, <1>5, <1>6

\* What a log ends with.
EndsIn(s, e) == s[Len(s)] = e

\* The ring with one more event.
LEMMA RingHolds ==
    ASSUME NEW E, NEW shown \in Seq(E), NEW e \in E, RingSize \in Nat \ {0},
           Len(shown) <= RingSize, NEW ring, ring = Trail!Ring(shown, e)
    PROVE  /\ ring \in Seq(E) /\ Len(ring) <= RingSize /\ Len(ring) >= 1
           /\ EndsIn(ring, e)
<1>1. CASE Len(shown) < RingSize
  <2>1. ring = Append(shown, e)
    BY <1>1 DEF Trail!Ring
  <2> QED
    BY <1>1, <2>1, AppendedEvents DEF EndsIn
<1>2. CASE Len(shown) = RingSize
  <2>1. /\ Tail(shown) \in Seq(E) /\ Len(Tail(shown)) = RingSize - 1
    BY <1>2
  <2>2. ring = Append(Tail(shown), e)
    BY <1>2 DEF Trail!Ring
  <2> QED
    BY <2>1, <2>2, AppendedEvents DEF EndsIn
<1>3. Len(shown) \in Nat
  OBVIOUS
<1> QED
  BY <1>1, <1>2, <1>3

\* The event of a posting is the last one of its GRN.
LEMMA TraceBegins ==
    ASSUME NEW E, NEW shown \in Seq(E), NEW hist \in Seq(E), NEW e \in E,
           RingSize \in Nat \ {0}, Len(shown) <= RingSize,
           NEW ring, ring = Trail!Ring(shown, e), NEW now, now = Append(hist, e),
           NEW g, NEW po, Trail!Posting(e, po), e.grn = g
    PROVE  \E k \in DOMAIN now : LastIn(now, g, po, k) /\ Shows(ring, now, k)
<1>1. /\ Len(now) = Len(hist) + 1 /\ Len(hist) \in Nat /\ now[Len(hist) + 1] = e
      /\ now \in Seq(E)
  BY AppendedEvents
<1>2. DOMAIN now = 1..Len(now) /\ Len(now) >= 1 /\ Len(now) \in Nat
  BY <1>1
<1>3. /\ ring \in Seq(E) /\ Len(ring) >= 1 /\ ring[Len(ring)] = e
  <2>1. shown \in Seq(E) /\ e \in E /\ RingSize \in Nat \ {0} /\ Len(shown) <= RingSize
    OBVIOUS
  <2>2. ring = Trail!Ring(shown, e)
    OBVIOUS
  <2>3. ring \in Seq(E)
    BY <2>1, <2>2, RingHolds
  <2>4. Len(ring) >= 1
    BY <2>1, <2>2, RingHolds
  <2>5. EndsIn(ring, e)
    BY <2>1, <2>2, RingHolds
  <2> QED
    BY <2>3, <2>4, <2>5 DEF EndsIn
<1>4. now[Len(now)] = e
  BY <1>1
<1>5. Shows(ring, now, Len(now))
  BY <1>1, <1>2, <1>3, <1>4, NewestShown
<1>6. LastIn(now, g, po, Len(now))
  BY <1>2, <1>4 DEF LastIn
<1> QED
  BY <1>2, <1>5, <1>6

\* What an event of somebody else, or for another order, leaves traced.
LEMMA EmitKeeps ==
    ASSUME NEW E, NEW shown \in Seq(E), NEW hist \in Seq(E), NEW e \in E,
           RingSize \in Nat \ {0}, Len(shown) <= RingSize,
           NEW ring, ring = Trail!Ring(shown, e), NEW now, now = Append(hist, e),
           NEW g, NEW po, ~(Trail!Posting(e, po) /\ e.grn = g),
           Traced(shown, hist, g, po)
    PROVE  Traced(ring, now, g, po)
<1>1. PICK k \in DOMAIN hist : /\ LastIn(hist, g, po, k)
                               /\ Shows(shown, hist, k) \/ Len(hist) - k >= RingSize
  BY DEF Traced
<1>2. LastIn(now, g, po, k)
  BY ZenonT(60), <1>1, TraceEmitted
<1>3. Shows(ring, now, k) \/ Len(now) - k >= RingSize
  BY <1>1, TraceEmitted
<1>4. k \in DOMAIN now
  BY <1>2 DEF LastIn
<1> QED
  BY <1>2, <1>3, <1>4 DEF Traced

\* The states of a GRN's effects.
EffectsState == [at : {"new", "committed", "emitting", "stamped"},
                 next : Nat, unflushed : BOOLEAN]

\* What the types say of a state.
LEMMA TrailTyped ==
    ASSUME Trail!TypeOK
    PROVE  /\ events \in Seq(Trail!AuditEvent) /\ history \in Seq(Trail!AuditEvent)
           /\ auditFile.log \in Seq(Trail!AuditEvent)
           /\ auditFile.past \in Seq(Trail!AuditEvent)
           /\ Len(events) <= RingSize /\ Len(auditFile.log) <= RingSize
           /\ unfiled \subseteq DOMAIN Grns /\ forgotten \subseteq Trail!Stamped
           /\ effects \in [DOMAIN Grns -> EffectsState]
           /\ auditFaults \in 0..MaxAuditFaults /\ MaxAuditFaults \in Nat
           /\ RingSize \in Nat \ {0}
  BY TrailConstants DEF Trail!TypeOK, EffectsState

\* The events that the effects emit.
LEMMA OwnEvents ==
    ASSUME NEW g \in DOMAIN Grns
    PROVE  /\ [action |-> "grn_confirmed", po |-> Trail!NoGrn, grn |-> g] \in Trail!AuditEvent
           /\ \A n \in 1..Len(Grns[g]) :
                 /\ Grns[g][n] \in Trail!Orders
                 /\ [action |-> "gr_posted", po |-> Grns[g][n], grn |-> g] \in Trail!AuditEvent
           /\ Len(Grns[g]) \in Nat
<1>1. Grns[g] \in Seq(Trail!Orders)
  BY TrailConstants
<1>2. \A n \in 1..Len(Grns[g]) : Grns[g][n] \in Trail!Orders
  BY <1>1
<1> QED
  BY <1>1, <1>2 DEF Trail!AuditEvent

\* One more event.
LEMMA EmittedTypes ==
    ASSUME Trail!TypeOK, NEW e \in Trail!AuditEvent, Trail!Emitted(e)
    PROVE  /\ events' = Trail!Ring(events, e) /\ history' = Append(history, e)
           /\ events' \in Seq(Trail!AuditEvent) /\ history' \in Seq(Trail!AuditEvent)
           /\ Len(events') <= RingSize /\ forgotten' = forgotten
<1>1. events' = Trail!Ring(events, e) /\ history' = Append(history, e)
      /\ forgotten' = forgotten
  BY DEF Trail!Emitted
<1>2. /\ events \in Seq(Trail!AuditEvent) /\ history \in Seq(Trail!AuditEvent)
      /\ Len(events) <= RingSize /\ RingSize \in Nat \ {0}
  BY TrailTyped
<1>3. events' \in Seq(Trail!AuditEvent) /\ Len(events') <= RingSize
  BY <1>1, <1>2, RingHolds
<1> QED
  BY <1>1, <1>2, <1>3

\* A write of the file, whole or failed, of the events as they are then.
Filing(grns) == Trail!Written \/ Trail!WriteFails(grns)

LEMMA FilingTypes ==
    ASSUME Trail!TypeOK, NEW grns \in SUBSET DOMAIN Grns, Filing(grns),
           events' \in Seq(Trail!AuditEvent), history' \in Seq(Trail!AuditEvent),
           Len(events') <= RingSize, forgotten' = forgotten,
           Trail!Stamped' = Trail!Stamped, effects' \in [DOMAIN Grns -> EffectsState]
    PROVE  Trail!TypeOK'
<1>1. /\ auditFile.log \in Seq(Trail!AuditEvent) /\ auditFile.past \in Seq(Trail!AuditEvent)
      /\ Len(auditFile.log) <= RingSize
      /\ unfiled \subseteq DOMAIN Grns /\ forgotten \subseteq Trail!Stamped
      /\ auditFaults \in 0..MaxAuditFaults /\ MaxAuditFaults \in Nat
      /\ RingSize \in Nat \ {0}
  BY TrailTyped
<1>2. /\ auditFile'.log \in Seq(Trail!AuditEvent) /\ auditFile'.past \in Seq(Trail!AuditEvent)
      /\ Len(auditFile'.log) <= RingSize
      /\ unfiled' \subseteq DOMAIN Grns /\ auditFaults' \in 0..MaxAuditFaults
  <2>1. CASE Trail!Written
    <3>1. /\ auditFile' = [log |-> events', past |-> history']
          /\ unfiled' = {} /\ auditFaults' = auditFaults
      BY <2>1 DEF Trail!Written
    <3>2. auditFile'.log = events' /\ auditFile'.past = history'
      BY <3>1
    <3> QED
      BY <1>1, <3>1, <3>2
  <2>2. CASE Trail!WriteFails(grns)
    <3>1. /\ auditFaults < MaxAuditFaults /\ auditFaults' = auditFaults + 1
          /\ \/ auditFile' = auditFile /\ unfiled' = unfiled \cup grns
             \/ auditFile' = Trail!NoEvents /\ unfiled' = DOMAIN Grns
      BY <2>2 DEF Trail!WriteFails
    <3>2. Trail!NoEvents.log = <<>> /\ Trail!NoEvents.past = <<>>
      BY DEF Trail!NoEvents
    <3>3. /\ <<>> \in Seq(Trail!AuditEvent) /\ Len(<<>>) <= RingSize
      BY <1>1
    <3>4. auditFaults' \in 0..MaxAuditFaults
      BY <1>1, <3>1
    <3>5. CASE auditFile' = auditFile /\ unfiled' = unfiled \cup grns
      BY <1>1, <3>4, <3>5
    <3>6. CASE auditFile' = Trail!NoEvents /\ unfiled' = DOMAIN Grns
      BY <3>2, <3>3, <3>4, <3>6
    <3> QED
      BY <3>1, <3>5, <3>6
  <2> QED
    BY <2>1, <2>2 DEF Filing
<1> QED
  BY <1>1, <1>2 DEF Trail!TypeOK, EffectsState

\* After a write, the file shows what memory shows, or as much as it did of the GRNs
\* whose events have all been filed.
LEMMA FilingKeeps ==
    ASSUME OnDisk, InMemory', NEW grns, Filing(grns), forgotten' = forgotten,
           \A h \in DOMAIN Grns \ grns : effects'[h] = effects[h]
    PROVE  OnDisk'
<1>1. CASE Trail!Written
  <2>1. auditFile' = [log |-> events', past |-> history']
    BY <1>1 DEF Trail!Written
  <2>2. auditFile'.log = events' /\ auditFile'.past = history'
    BY <2>1
  <2> QED
    BY <2>2 DEF InMemory, OnDisk
<1>2. CASE auditFile' = auditFile /\ unfiled' = unfiled \cup grns
  BY <1>2 DEF OnDisk, Pending
<1>3. CASE unfiled' = DOMAIN Grns
  BY <1>3 DEF OnDisk
<1> QED
  BY <1>1, <1>2, <1>3 DEF Filing, Trail!WriteFails

\* The effects of a GRN emit their next event.
LEMMA EmitNextTrail ==
    ASSUME TrailInv, NEW g \in DOMAIN Grns, Trail!EmitNext(g)
    PROVE  TrailInv'
<1> DEFINE n == effects[g].next
           e == IF n = 0 THEN [action |-> "grn_confirmed", po |-> Trail!NoGrn, grn |-> g]
                ELSE [action |-> "gr_posted", po |-> Grns[g][n], grn |-> g]
<1>1. Trail!TypeOK /\ InMemory /\ OnDisk /\ \A h \in DOMAIN Grns : Underway(h)
  BY DEF TrailInv
<1>2. /\ events \in Seq(Trail!AuditEvent) /\ history \in Seq(Trail!AuditEvent)
      /\ Len(events) <= RingSize /\ RingSize \in Nat \ {0}
      /\ effects \in [DOMAIN Grns -> EffectsState] /\ forgotten \subseteq Trail!Stamped
  BY <1>1, TrailTyped
<1>3. /\ n \in Nat /\ n <= Len(Grns[g]) /\ Len(Grns[g]) \in Nat /\ ~effects[g].unflushed
      /\ effects[g].at # "stamped"
  BY <1>2, OwnEvents DEF Trail!EmitNext, EffectsState
<1>4. e \in Trail!AuditEvent
  BY <1>3, OwnEvents
<1>5. Trail!Emitted(e)
  BY DEF Trail!EmitNext
<1>6. /\ effects' = [effects EXCEPT ![g] = [at |-> "emitting", next |-> @.next + 1,
                                            unflushed |-> TRUE]]
      /\ auditFile' = auditFile /\ unfiled' = unfiled /\ auditFaults' = auditFaults
  BY DEF Trail!EmitNext
<1>7. /\ effects'[g] = [at |-> "emitting", next |-> n + 1, unflushed |-> TRUE]
      /\ \A h \in DOMAIN Grns \ {g} : effects'[h] = effects[h]
      /\ DOMAIN effects' = DOMAIN Grns
  BY <1>2, <1>6
<1>8. /\ events' = Trail!Ring(events, e) /\ history' = Append(history, e)
      /\ events' \in Seq(Trail!AuditEvent) /\ history' \in Seq(Trail!AuditEvent)
      /\ Len(events') <= RingSize /\ forgotten' = forgotten
  BY <1>1, <1>4, <1>5, EmittedTypes
<1>9. e.grn = g /\ \A po : Trail!Posting(e, po) <=> n # 0 /\ po = Grns[g][n]
  BY DEF Trail!Posting
<1> HIDE DEF e, n
<1>10. Trail!TypeOK'
  <2>1. effects' \in [DOMAIN Grns -> EffectsState]
    <3>1. n + 1 \in Nat
      BY <1>3
    <3>2. [at |-> "emitting", next |-> n + 1, unflushed |-> TRUE] \in EffectsState
      BY <3>1 DEF EffectsState
    <3> HIDE DEF EffectsState
    <3> QED
      BY <1>2, <1>6, <1>7, <3>2
  <2>2. Trail!Stamped' = Trail!Stamped
    BY <1>3, <1>7 DEF Trail!Stamped
  <2> QED
    BY <1>1, <1>6, <1>8, <2>1, <2>2 DEF Trail!TypeOK, EffectsState
<1>11. ASSUME NEW h \in DOMAIN Grns PROVE Underway(h)'
  <2>1. CASE h = g
    BY <1>3, <1>7, <2>1 DEF Underway
  <2>2. CASE h # g
    BY <1>1, <1>7, <2>2 DEF Underway
  <2> QED
    BY <2>1, <2>2
<1>12. ASSUME NEW h \in DOMAIN Grns, NEW x \in 1..Len(Grns[h]), x < effects'[h].next,
              ~(h = g /\ n # 0 /\ Grns[h][x] = Grns[g][n])
       PROVE  x < effects[h].next
  <2>1. CASE h = g
    <3>1. x < n + 1 /\ x \in Nat /\ x >= 1
      BY <1>3, <1>7, <1>12, <2>1
    <3>2. x # n
      BY <1>12, <2>1, <3>1
    <3> QED
      BY <1>3, <2>1, <3>1, <3>2 DEF n
  <2>2. CASE h # g
    BY <1>7, <1>12, <2>2
  <2> QED
    BY <2>1, <2>2
<1>13. InMemory'
  <2> SUFFICES ASSUME NEW h \in DOMAIN Grns, h \notin forgotten,
                      NEW x \in 1..Len(Grns[h]), x < effects'[h].next
               PROVE  Traced(events', history', h, Grns[h][x])
    BY <1>8 DEF InMemory
  <2> DEFINE po == Grns[h][x]
  <2>1. CASE h = g /\ n # 0 /\ po = Grns[g][n]
    <3>1. Trail!Posting(e, po) /\ e.grn = h
      BY <1>9, <2>1
    <3>2. PICK k \in DOMAIN history' : LastIn(history', h, po, k) /\ Shows(events', history', k)
      <4> HIDE DEF po
      <4> QED
        BY <1>2, <1>4, <1>8, <3>1, TraceBegins
    <3> QED
      BY <3>2 DEF Traced
  <2>2. CASE ~(h = g /\ n # 0 /\ po = Grns[g][n])
    <3>1. ~(Trail!Posting(e, po) /\ e.grn = h)
      BY <1>9, <2>2
    <3>2. Traced(events, history, h, po)
      BY <1>1, <1>12, <2>2 DEF InMemory
    <3> HIDE DEF po
    <3>3. Traced(events', history', h, po)
      BY <1>2, <1>4, <1>8, <3>1, <3>2, EmitKeeps
    <3> QED
      BY <3>3 DEF po
  <2> QED
    BY <2>1, <2>2
<1>14. OnDisk'
  <2> SUFFICES ASSUME NEW h \in DOMAIN Grns, h \notin forgotten \cup unfiled,
                      NEW x \in 1..Len(Grns[h]), x < effects'[h].next,
                      ~Pending(h, Grns[h][x])'
               PROVE  Traced(auditFile.log, auditFile.past, h, Grns[h][x])
    BY <1>6, <1>8 DEF OnDisk
  <2>1. ~(h = g /\ n # 0 /\ Grns[h][x] = Grns[g][n])
    BY <1>3, <1>7 DEF Pending
  <2>2. x < effects[h].next
    BY <1>12, <2>1
  <2>3. ~Pending(h, Grns[h][x])
    BY <1>3, <1>7 DEF Pending
  <2> QED
    BY <1>1, <2>2, <2>3 DEF OnDisk
<1> QED
  BY <1>10, <1>11, <1>13, <1>14 DEF TrailInv

\* The other emitters name no GRN.
LEMMA OtherEmitTrail ==
    ASSUME TrailInv, NEW action \in {"gr_posted", "ir_posted"},
           NEW po \in Trail!Orders \cup {Trail!NoGrn}, Trail!OtherEmit(action, po)
    PROVE  TrailInv'
<1> DEFINE e == [action |-> action, po |-> po, grn |-> Trail!NoGrn]
<1>1. Trail!TypeOK /\ InMemory /\ OnDisk /\ \A h \in DOMAIN Grns : Underway(h)
  BY DEF TrailInv
<1>2. /\ events \in Seq(Trail!AuditEvent) /\ history \in Seq(Trail!AuditEvent)
      /\ Len(events) <= RingSize /\ RingSize \in Nat \ {0}
      /\ effects \in [DOMAIN Grns -> EffectsState]
  BY <1>1, TrailTyped
<1>3. e \in Trail!AuditEvent
  BY DEF Trail!AuditEvent
<1>4. Trail!Emitted(e) /\ Filing({}) /\ effects' = effects
  BY DEF Trail!OtherEmit, Filing
<1>5. /\ events' = Trail!Ring(events, e) /\ history' = Append(history, e)
      /\ events' \in Seq(Trail!AuditEvent) /\ history' \in Seq(Trail!AuditEvent)
      /\ Len(events') <= RingSize /\ forgotten' = forgotten
  BY <1>1, <1>3, <1>4, EmittedTypes
<1>6. \A h \in DOMAIN Grns : e.grn # h
  BY TrailConstants DEF Trail!NoGrn
<1> HIDE DEF e
<1>7. Trail!TypeOK'
  BY <1>1, <1>2, <1>4, <1>5, FilingTypes DEF Trail!Stamped
<1>8. InMemory'
  <2> SUFFICES ASSUME NEW h \in DOMAIN Grns, h \notin forgotten,
                      NEW x \in 1..Len(Grns[h]), x < effects[h].next
               PROVE  Traced(events', history', h, Grns[h][x])
    BY <1>4, <1>5 DEF InMemory
  <2>1. Traced(events, history, h, Grns[h][x])
    BY <1>1 DEF InMemory
  <2>2. ~(Trail!Posting(e, Grns[h][x]) /\ e.grn = h)
    BY <1>6
  <2> QED
    BY <1>2, <1>3, <1>5, <2>1, <2>2, EmitKeeps
<1>9. OnDisk'
  BY <1>1, <1>4, <1>5, <1>8, FilingKeeps
<1>10. \A h \in DOMAIN Grns : Underway(h)'
  BY <1>1, <1>4 DEF Underway
<1> QED
  BY <1>7, <1>8, <1>9, <1>10 DEF TrailInv

\* A flush of the log by somebody else.
LEMMA OtherFlushTrail ==
    ASSUME TrailInv, Trail!OtherFlush
    PROVE  TrailInv'
<1>1. /\ events' = events /\ effects' = effects /\ history' = history
      /\ forgotten' = forgotten /\ Filing({})
  BY DEF Trail!OtherFlush, Filing
<1>2. Trail!TypeOK /\ InMemory /\ OnDisk /\ \A h \in DOMAIN Grns : Underway(h)
  BY DEF TrailInv
<1>3. Trail!TypeOK'
  BY <1>1, <1>2, TrailTyped, FilingTypes DEF Trail!Stamped
<1>4. InMemory' /\ \A h \in DOMAIN Grns : Underway(h)'
  BY <1>1, <1>2 DEF InMemory, Underway
<1>5. OnDisk'
  BY <1>1, <1>2, <1>4, FilingKeeps
<1> QED
  BY <1>3, <1>4, <1>5 DEF TrailInv

\* The flush of an event, which may fail.
LEMMA FlushEventTrail ==
    ASSUME TrailInv, NEW g \in DOMAIN Grns, Trail!FlushEvent(g)
    PROVE  TrailInv'
<1>1. /\ effects' = [effects EXCEPT ![g].unflushed = FALSE]
      /\ events' = events /\ history' = history /\ forgotten' = forgotten
      /\ Filing({g})
  BY DEF Trail!FlushEvent, Filing
<1>2. Trail!TypeOK /\ InMemory /\ OnDisk /\ \A h \in DOMAIN Grns : Underway(h)
  BY DEF TrailInv
<1>3. effects \in [DOMAIN Grns -> EffectsState]
  BY <1>2, TrailTyped
<1>4. /\ effects'[g].at = effects[g].at /\ effects'[g].next = effects[g].next
      /\ effects'[g].unflushed = FALSE
      /\ \A h \in DOMAIN Grns \ {g} : effects'[h] = effects[h]
      /\ effects' \in [DOMAIN Grns -> EffectsState]
  BY <1>1, <1>3 DEF EffectsState
<1>5. \A h \in DOMAIN Grns : effects'[h].next = effects[h].next /\ effects'[h].at = effects[h].at
  BY <1>4
<1>6. Trail!TypeOK'
  <2>1. Trail!Stamped' = Trail!Stamped
    BY <1>5 DEF Trail!Stamped
  <2> QED
    BY <1>1, <1>2, <1>4, <2>1, TrailTyped, FilingTypes
<1>7. \A h \in DOMAIN Grns : Underway(h)'
  BY <1>2, <1>4 DEF Underway
<1>8. InMemory'
  BY <1>1, <1>2, <1>5 DEF InMemory
<1>9. OnDisk'
  BY <1>1, <1>2, <1>4, <1>8, FilingKeeps
<1> QED
  BY <1>6, <1>7, <1>8, <1>9 DEF TrailInv

\* A GRN is confirmed, or stamped: nothing is emitted or written.
LEMMA MarkTrail ==
    ASSUME TrailInv, NEW g \in DOMAIN Grns, NEW at \in {"committed", "stamped"},
           effects' = [effects EXCEPT ![g].at = at], effects[g].at # "stamped",
           at = "committed" => effects[g].at = "new",
           at = "stamped" => /\ effects[g].next > Len(Grns[g]) /\ ~effects[g].unflushed,
           UNCHANGED <<events, auditFile, history, unfiled, forgotten, auditFaults>>
    PROVE  TrailInv'
<1>1. Trail!TypeOK /\ InMemory /\ OnDisk /\ \A h \in DOMAIN Grns : Underway(h)
  BY DEF TrailInv
<1>2. effects \in [DOMAIN Grns -> EffectsState] /\ forgotten \subseteq Trail!Stamped
  BY <1>1, TrailTyped
<1>3. /\ effects'[g].at = at /\ effects'[g].next = effects[g].next
      /\ effects'[g].unflushed = effects[g].unflushed
      /\ \A h \in DOMAIN Grns \ {g} : effects'[h] = effects[h]
      /\ effects' \in [DOMAIN Grns -> EffectsState]
  BY <1>2 DEF EffectsState
<1>4. \A h \in DOMAIN Grns : /\ effects'[h].next = effects[h].next
                             /\ effects'[h].unflushed = effects[h].unflushed
  BY <1>3
<1>5. Trail!TypeOK'
  <2>1. Trail!Stamped \subseteq Trail!Stamped'
    BY <1>3 DEF Trail!Stamped
  <2> QED
    BY <1>1, <1>2, <1>3, <2>1 DEF Trail!TypeOK, EffectsState
<1>6. \A h \in DOMAIN Grns : Underway(h)'
  <2>1. at = "stamped" => effects[g].next = Len(Grns[g]) + 1
    BY <1>1, OwnEvents DEF Underway
  <2> QED
    BY <1>1, <1>3, <1>4, <2>1 DEF Underway
<1>7. \A h \in DOMAIN Grns : \A po : Pending(h, po)' <=> Pending(h, po)
  BY <1>4 DEF Pending
<1>8. InMemory' /\ OnDisk'
  BY <1>1, <1>4, <1>7 DEF InMemory, OnDisk
<1> QED
  BY <1>5, <1>6, <1>8 DEF TrailInv

\* A restart: what the file shows, memory shows.
LEMMA RestartTrail ==
    ASSUME TrailInv, Trail!Restart
    PROVE  TrailInv'
<1>1. Trail!TypeOK /\ InMemory /\ OnDisk /\ \A h \in DOMAIN Grns : Underway(h)
  BY DEF TrailInv
<1>2. /\ auditFile.log \in Seq(Trail!AuditEvent) /\ auditFile.past \in Seq(Trail!AuditEvent)
      /\ Len(auditFile.log) <= RingSize /\ forgotten \subseteq Trail!Stamped
      /\ effects \in [DOMAIN Grns -> EffectsState]
      /\ auditFaults \in 0..MaxAuditFaults /\ MaxAuditFaults \in Nat
      /\ RingSize \in Nat \ {0}
  BY <1>1, TrailTyped
<1>3. /\ auditFaults < MaxAuditFaults /\ auditFaults' = auditFaults + 1
      /\ Trail!Loaded \/ Trail!NotLoaded
      /\ unfiled' = {}
      /\ effects' = [g \in DOMAIN Grns |->
                       IF effects[g].at \in {"committed", "emitting"}
                       THEN [at |-> "committed", next |-> 0, unflushed |-> FALSE]
                       ELSE effects[g]]
  BY DEF Trail!Restart
<1>4. \A h \in DOMAIN Grns :
         \/ effects'[h] = [at |-> "committed", next |-> 0, unflushed |-> FALSE]
            /\ effects[h].at # "stamped"
         \/ effects'[h] = effects[h] /\ effects[h].at \in {"new", "stamped"}
  BY <1>2, <1>3 DEF EffectsState
<1>5. effects' \in [DOMAIN Grns -> EffectsState] /\ Trail!Stamped' = Trail!Stamped
  <2>1. \A h \in DOMAIN Grns : effects'[h] \in EffectsState
    <3> SUFFICES ASSUME NEW h \in DOMAIN Grns PROVE effects'[h] \in EffectsState
      OBVIOUS
    <3>1. CASE effects'[h] = [at |-> "committed", next |-> 0, unflushed |-> FALSE]
      BY <3>1 DEF EffectsState
    <3>2. CASE effects'[h] = effects[h]
      BY <1>2, <3>2
    <3> QED
      BY <1>4, <3>1, <3>2
  <2>2. effects' = [h \in DOMAIN Grns |-> effects'[h]]
    BY <1>3
  <2>3. \A h \in DOMAIN Grns : effects'[h].at = "stamped" <=> effects[h].at = "stamped"
    BY <1>4
  <2> QED
    BY <2>1, <2>2, <2>3 DEF Trail!Stamped
<1>6. \A h \in DOMAIN Grns : Underway(h)'
  <2> SUFFICES ASSUME NEW h \in DOMAIN Grns PROVE Underway(h)'
    OBVIOUS
  <2>1. Len(Grns[h]) \in Nat
    BY OwnEvents
  <2> QED
    BY <1>1, <1>4, <2>1 DEF Underway
<1>7. ASSUME NEW h \in DOMAIN Grns, NEW x \in 1..Len(Grns[h]), x < effects'[h].next
      PROVE  h \in Trail!Stamped /\ x < effects[h].next /\ ~Pending(h, Grns[h][x])
  <2>1. x >= 1 /\ x \in Nat /\ effects'[h].next # 0
    BY <1>7, <1>5 DEF EffectsState
  <2>2. effects'[h] = effects[h] /\ effects[h].at \in {"new", "stamped"}
    BY <1>4, <2>1
  <2>3. ~effects[h].unflushed /\ effects[h].at = "stamped"
    BY <1>1, <2>1, <2>2 DEF Underway
  <2> QED
    BY <1>7, <2>2, <2>3 DEF Pending, Trail!Stamped
<1>8. auditFaults' \in 0..MaxAuditFaults
  BY <1>2, <1>3
<1>9. CASE Trail!Loaded
  <2>1. /\ events' = auditFile.log /\ history' = auditFile.past /\ auditFile' = auditFile
        /\ forgotten' = forgotten \cup (Trail!Stamped \cap unfiled)
    BY <1>9 DEF Trail!Loaded
  <2>2. Trail!TypeOK'
    BY <1>2, <1>3, <1>5, <1>8, <2>1 DEF Trail!TypeOK, EffectsState
  <2>3. ASSUME NEW h \in DOMAIN Grns, h \notin forgotten',
               NEW x \in 1..Len(Grns[h]), x < effects'[h].next
        PROVE  Traced(auditFile.log, auditFile.past, h, Grns[h][x])
    <3>1. h \notin forgotten \cup unfiled /\ x < effects[h].next /\ ~Pending(h, Grns[h][x])
      BY <1>7, <2>1, <2>3
    <3> QED
      BY <1>1, <3>1 DEF OnDisk
  <2>4. InMemory' /\ OnDisk'
    BY <2>1, <2>3 DEF InMemory, OnDisk
  <2> QED
    BY <1>6, <2>2, <2>4 DEF TrailInv
<1>10. CASE Trail!NotLoaded
  <2>1. /\ events' = <<>> /\ history' = <<>> /\ auditFile' \in {auditFile, Trail!NoEvents}
        /\ forgotten' = forgotten \cup Trail!Stamped
    BY <1>10 DEF Trail!NotLoaded
  <2>2. /\ auditFile'.log \in Seq(Trail!AuditEvent)
        /\ auditFile'.past \in Seq(Trail!AuditEvent) /\ Len(auditFile'.log) <= RingSize
    <3>1. Trail!NoEvents.log = <<>> /\ Trail!NoEvents.past = <<>>
      BY DEF Trail!NoEvents
    <3>2. <<>> \in Seq(Trail!AuditEvent) /\ Len(<<>>) <= RingSize
      BY <1>2
    <3>3. CASE auditFile' = auditFile
      BY <1>2, <3>3
    <3>4. CASE auditFile' = Trail!NoEvents
      BY <3>1, <3>2, <3>4
    <3> QED
      BY <2>1, <3>3, <3>4
  <2>3. Trail!TypeOK'
    BY <1>2, <1>3, <1>5, <1>8, <2>1, <2>2 DEF Trail!TypeOK, EffectsState
  <2>4. InMemory' /\ OnDisk'
    BY <1>7, <2>1 DEF InMemory, OnDisk
  <2> QED
    BY <1>6, <2>3, <2>4 DEF TrailInv
<1> QED
  BY <1>3, <1>9, <1>10

\* Every step keeps the traces.
LEMMA StepTrail == TrailInv /\ [Trail!Next]_(Trail!auditVars) => TrailInv'
<1> SUFFICES ASSUME TrailInv, [Trail!Next]_(Trail!auditVars) PROVE TrailInv'
  OBVIOUS
<1>1. ASSUME NEW g \in DOMAIN Grns, Trail!ConfirmGrn(g) PROVE TrailInv'
  BY <1>1, MarkTrail DEF Trail!ConfirmGrn
<1>2. ASSUME NEW g \in DOMAIN Grns, Trail!Stamp(g) PROVE TrailInv'
  BY <1>2, MarkTrail DEF Trail!Stamp
<1>3. ASSUME NEW g \in DOMAIN Grns, Trail!FlushEvent(g) PROVE TrailInv'
  BY <1>3, FlushEventTrail
<1>4. ASSUME NEW g \in DOMAIN Grns, Trail!EmitNext(g) PROVE TrailInv'
  BY <1>4, EmitNextTrail
<1>5. ASSUME NEW po \in Trail!Orders, Trail!OtherEmit("gr_posted", po) PROVE TrailInv'
  BY <1>5, OtherEmitTrail
<1>6. CASE Trail!OtherEmit("ir_posted", Trail!NoGrn)
  BY <1>6, OtherEmitTrail
<1>7. CASE Trail!OtherFlush
  BY <1>7, OtherFlushTrail
<1>8. CASE Trail!Restart
  BY <1>8, RestartTrail
<1>9. CASE UNCHANGED Trail!auditVars
  BY <1>9 DEF Trail!auditVars, TrailInv, Trail!TypeOK, Trail!Stamped, Underway, Pending,
     InMemory, OnDisk
<1> QED
  BY <1>1, <1>2, <1>3, <1>4, <1>5, <1>6, <1>7, <1>8, <1>9 DEF Trail!Next

\* What is traced is listed, or enough has come after it.
LEMMA TracedIsListed == TrailInv => Trail!StampedReceiptIsTraced
<1> SUFFICES ASSUME TrailInv, NEW g \in DOMAIN Grns, effects[g].at = "stamped",
                    g \notin forgotten,
                    NEW po \in Trail!Range(Grns[g]), g \notin Trail!Listed(po)
             PROVE  \E k \in DOMAIN history :
                       /\ Trail!LastPosting(g, po, k)
                       /\ \/ Len(history) - k >= RingSize
                          \/ Trail!Cardinality(Trail!After(Trail!Postings(history, po), k))
                                >= Limit
  BY DEF Trail!StampedReceiptIsTraced, Trail!Stamped
<1>1. /\ events \in Seq(Trail!AuditEvent) /\ history \in Seq(Trail!AuditEvent)
      /\ RingSize \in Nat \ {0} /\ Limit \in Nat /\ g # Trail!NoGrn
  BY TrailTyped, TrailConstants DEF TrailInv, Trail!NoGrn
<1>2. PICK n \in 1..Len(Grns[g]) : po = Grns[g][n]
  <2>1. Grns[g] \in Seq(Trail!Orders)
    BY TrailConstants
  <2>2. DOMAIN Grns[g] = 1..Len(Grns[g])
    BY <2>1
  <2> QED
    BY <2>2 DEF Trail!Range
<1>3. Traced(events, history, g, po)
  <2>1. n < effects[g].next
    BY OwnEvents DEF TrailInv, Underway
  <2> QED
    BY <1>2, <2>1 DEF TrailInv, InMemory
<1>4. PICK k \in DOMAIN history : /\ LastIn(history, g, po, k)
                                  /\ \/ Shows(events, history, k)
                                     \/ Len(history) - k >= RingSize
  BY <1>3 DEF Traced
<1>5. Trail!LastPosting(g, po, k)
  BY <1>4, LastPostingIs
<1>6. CASE Shows(events, history, k)
  <2>1. PICK i, m : Copied(events, history, i, m) /\ m[i] = k
    BY <1>6 DEF Shows
  <2>2. i \in DOMAIN events /\ events[i] = history[k]
    <3>1. DOMAIN events = 1..Len(events) /\ Len(events) \in Nat
      BY <1>1
    <3>2. i \in 1..Len(events) /\ i \in i..Len(events)
      BY <2>1, <3>1 DEF Copied
    <3> QED
      BY <2>1, <3>1, <3>2 DEF Copied
  <2>3. i \in Trail!Postings(events, po) /\ events[i].grn = g
    BY <1>4, <2>2 DEF LastIn, Trail!Postings
  <2> DEFINE found == Trail!After(Trail!Postings(events, po), i)
             since == Trail!After(Trail!Postings(history, po), k)
  <2>4. /\ Trail!Cardinality(found) \in Nat /\ Trail!Cardinality(since) \in Nat
        /\ Trail!Cardinality(found) <= Trail!Cardinality(since)
    <3>1. LET later == Trail!After(Trail!Postings(history, po), m[i])
          IN  /\ Trail!Cardinality(found) \in Nat /\ Trail!Cardinality(later) \in Nat
              /\ Trail!Cardinality(found) <= Trail!Cardinality(later)
      BY <1>1, <2>1, PostingsSince
    <3> QED
      BY <2>1, <3>1
  <2>5. ~(Trail!Cardinality(found) < Limit)
    BY <1>1, <2>3 DEF Trail!Query, Trail!Listed
  <2>6. Trail!Cardinality(since) >= Limit
    <3> HIDE DEF found, since
    <3> QED
      BY <1>1, <2>4, <2>5
  <2> QED
    BY <1>5, <2>6
<1> QED
  BY <1>4, <1>5, <1>6

\* A GRN whose effects are done is listed for each of its orders, whatever the
\* crashes, the failed writes and the other events in between, until the ring or the
\* limit of a query has pushed its posting out; except for the GRNs a restart has
\* forgotten, whose events no file that could be read back had (app/audit.py,
\* trace_from_bom).
THEOREM StampedReceiptsTraced == Spec => []StampedReceiptIsTraced
<1>1. Trail!Spec => []TrailInv
  BY InitTrail, StepTrail, PTL DEF Trail!Spec
<1>2. TrailInv => StampedReceiptIsTraced
  BY TracedIsListed DEF StampedReceiptIsTraced
<1> QED
  BY <1>1, <1>2, TrailRuns, PTL
=============================================================================
