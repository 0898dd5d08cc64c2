-------------------------- MODULE ProcurementProofs --------------------------
(***************************************************************************)
(* Proofs about Procurement for every set of vendors and amounts, every    *)
(* budget and threshold and every value of the bounds.                     *)
(*                                                                         *)
(* First, what each function of the sourcing store keeps true of one store *)
(* and how far two copies of it may differ while a handler of one          *)
(* requisition is half way.  Then the system, with its crashes.            *)
(*                                                                         *)
(* The argument compares three copies of the sourcing store: what memory   *)
(* holds, what the snapshot thread has read, and what the file holds.      *)
(* While a handler is half way, the other two may lag behind memory, but   *)
(* only in rows of the requisition that handler works for (Behind).  A     *)
(* crash then loses nothing but rows of a requisition it marks as torn.    *)
(***************************************************************************)
EXTENDS Procurement, FiniteSetTheorems, SequenceTheorems, TLAPS

-----------------------------------------------------------------------------
(* The store by itself                                                       *)

Counters == [pr : 0..MaxPrs, rfq : Nat, quote : Nat, award : Nat, po : Nat]

\* A table of such rows, numbered up to the last number handed out.
TableOf(table, rows, last) ==
    /\ table = [k \in DOMAIN table |-> table[k]]
    /\ RowsIn(table, rows)
    /\ DOMAIN table \subseteq 1..last

Typed(s) ==
    /\ s = [prs |-> s.prs, rfqs |-> s.rfqs, quotes |-> s.quotes, awards |-> s.awards,
            pos |-> s.pos, counter |-> s.counter]
    /\ s.counter \in Counters
    /\ TableOf(s.prs, PurchaseRequisition, s.counter.pr)
    /\ TableOf(s.rfqs, RFQ, s.counter.rfq)
    /\ TableOf(s.quotes, Quote, s.counter.quote)
    /\ TableOf(s.awards, AwardRow, s.counter.award)
    /\ TableOf(s.pos, SourcingPO, s.counter.po)

\* What a row refers to is there, except that an order may lack its award.
Referring(s) ==
    /\ \A r \in DOMAIN s.rfqs : s.rfqs[r].pr \in DOMAIN s.prs
    /\ \A q \in DOMAIN s.quotes : s.quotes[q].rfq \in DOMAIN s.rfqs
    /\ \A a \in DOMAIN s.awards :
          LET aw == s.awards[a]
          IN  /\ aw.quote \in DOMAIN s.quotes
              /\ s.quotes[aw.quote].rfq = aw.rfq
              /\ s.rfqs[aw.rfq].pr = aw.pr
    /\ \A n \in DOMAIN s.pos :
          LET po == s.pos[n]
          IN  /\ po.rfq \in DOMAIN s.rfqs
              /\ s.rfqs[po.rfq].pr = po.pr
              /\ po.award \in 1..s.counter.award
              /\ \A m \in DOMAIN s.pos \ {n} : s.pos[m].award # po.award
    /\ \A p \in DOMAIN s.prs :
          s.prs[p].po <= s.counter.po /\ s.prs[p].award <= s.counter.award

GoodStore(s) == Typed(s) /\ Referring(s)

\* s holds what t holds, short of rows and changes of requisition p.
Behind(s, t, p) ==
    /\ /\ DOMAIN s.prs \subseteq DOMAIN t.prs
       /\ \A x \in DOMAIN t.prs \ {p} : x \in DOMAIN s.prs /\ s.prs[x] = t.prs[x]
    /\ /\ DOMAIN s.rfqs \subseteq DOMAIN t.rfqs
       /\ \A r \in DOMAIN s.rfqs : s.rfqs[r].pr = t.rfqs[r].pr
       /\ \A r \in DOMAIN t.rfqs : /\ t.rfqs[r].pr \in DOMAIN s.prs
                                   /\ t.rfqs[r].pr # p => r \in DOMAIN s.rfqs /\ s.rfqs[r] = t.rfqs[r]
    /\ /\ DOMAIN s.quotes \subseteq DOMAIN t.quotes
       /\ \A q \in DOMAIN s.quotes : s.quotes[q] = t.quotes[q]
       /\ \A q \in DOMAIN t.quotes : /\ t.quotes[q].rfq \in DOMAIN s.rfqs
                                     /\ t.rfqs[t.quotes[q].rfq].pr # p => q \in DOMAIN s.quotes
    /\ /\ DOMAIN s.awards \subseteq DOMAIN t.awards
       /\ \A a \in DOMAIN s.awards : s.awards[a] = t.awards[a]
       /\ \A a \in DOMAIN t.awards : /\ t.awards[a].quote \in DOMAIN s.quotes
                                     /\ t.awards[a].pr # p => a \in DOMAIN s.awards
    /\ /\ DOMAIN s.pos \subseteq DOMAIN t.pos
       /\ \A n \in DOMAIN s.pos : s.pos[n] = t.pos[n]
       /\ \A n \in DOMAIN t.pos : /\ t.pos[n].rfq \in DOMAIN s.rfqs
                                  /\ t.pos[n].pr # p => n \in DOMAIN s.pos
    /\ \A k \in DOMAIN t.counter : s.counter[k] <= t.counter[k]

-----------------------------------------------------------------------------
(* What the store's functions do, table by table                             *)

\* A record is its fields.
IsStore(s) ==
    s = [prs |-> s.prs, rfqs |-> s.rfqs, quotes |-> s.quotes, awards |-> s.awards,
         pos |-> s.pos, counter |-> s.counter]

\* create_pr, table by table.
LEMMA CreatePrTables ==
    ASSUME NEW s, IsStore(s)
    PROVE  LET t == CreatePr(s)
               p == s.counter.pr + 1
           IN  /\ IsStore(t)
               /\ t.prs = Put(s.prs, p, [status |-> "draft", rfq |-> None, award |-> None, po |-> None])
               /\ t.rfqs = s.rfqs /\ t.quotes = s.quotes /\ t.awards = s.awards /\ t.pos = s.pos
               /\ t.counter = [s.counter EXCEPT !.pr = p]
<1> DEFINE p == s.counter.pr + 1
           row == [status |-> "draft", rfq |-> None, award |-> None, po |-> None]
           t == CreatePr(s)
<1>1. t = [s EXCEPT !.prs = Put(@, p, row), !.counter.pr = p]
    BY DEF CreatePr, NextNo
<1> HIDE DEF p, row, t
<1>2. /\ IsStore(t)
      /\ t.prs = Put(s.prs, p, row)
      /\ t.rfqs = s.rfqs /\ t.quotes = s.quotes /\ t.awards = s.awards /\ t.pos = s.pos
      /\ t.counter = [s.counter EXCEPT !.pr = p]
    BY <1>1 DEF IsStore
<1> QED
    BY <1>2 DEF p, row, t

\* issue_rfq, table by table.
LEMMA IssueRfqTables ==
    ASSUME NEW s, IsStore(s), NEW p
    PROVE  LET t == IssueRfq(s, p)
               r == s.counter.rfq + 1
           IN  /\ IsStore(t)
               /\ t.prs = [s.prs EXCEPT ![p] = [@ EXCEPT !.status = "rfq_issued", !.rfq = r]]
               /\ t.rfqs = Put(s.rfqs, r, [pr |-> p, status |-> "open"])
               /\ t.quotes = s.quotes /\ t.awards = s.awards /\ t.pos = s.pos
               /\ t.counter = [s.counter EXCEPT !.rfq = r]
<1> DEFINE r == s.counter.rfq + 1
           row == [pr |-> p, status |-> "open"]
           t == IssueRfq(s, p)
<1>1. t = [s EXCEPT !.rfqs = Put(@, r, row), !.prs[p].status = "rfq_issued", !.prs[p].rfq = r,
                    !.counter.rfq = r]
    BY DEF IssueRfq, NextNo
<1> HIDE DEF r, row, t
<1>2. t.prs = [s.prs EXCEPT ![p] = [@ EXCEPT !.status = "rfq_issued", !.rfq = r]]
    BY <1>1 DEF IsStore
<1>3. /\ IsStore(t)
      /\ t.rfqs = Put(s.rfqs, r, row)
      /\ t.quotes = s.quotes /\ t.awards = s.awards /\ t.pos = s.pos
      /\ t.counter = [s.counter EXCEPT !.rfq = r]
    BY <1>1 DEF IsStore
<1> QED
    BY <1>2, <1>3 DEF r, row, t

\* add_quote, table by table.
LEMMA AddQuoteTables ==
    ASSUME NEW s, IsStore(s), NEW r, NEW vendor, NEW total,
           NEW t, t = AddQuote(s, r, vendor, total),
           NEW q, q = s.counter.quote + 1, NEW p, p = s.rfqs[r].pr
    PROVE  /\ IsStore(t)
           /\ t.prs = [s.prs EXCEPT ![p].status = IF @ = "rfq_issued" THEN "quoted" ELSE @]
           /\ t.rfqs = [s.rfqs EXCEPT ![r].status = IF @ = "open" THEN "quotes_received" ELSE @]
           /\ t.quotes = Put(s.quotes, q, [rfq |-> r, vendor |-> vendor, total |-> total])
           /\ t.awards = s.awards /\ t.pos = s.pos
           /\ t.counter = [s.counter EXCEPT !.quote = q]
<1> DEFINE row == [rfq |-> r, vendor |-> vendor, total |-> total]
<1>1. t = [s EXCEPT !.quotes = Put(@, q, row),
                    !.rfqs[r].status = IF @ = "open" THEN "quotes_received" ELSE @,
                    !.prs[p].status = IF @ = "rfq_issued" THEN "quoted" ELSE @,
                    !.counter.quote = q]
    BY ZenonT(60) DEF AddQuote, NextNo
<1> HIDE DEF row
<1>2. /\ IsStore(t)
      /\ t.prs = [s.prs EXCEPT ![p].status = IF @ = "rfq_issued" THEN "quoted" ELSE @]
      /\ t.rfqs = [s.rfqs EXCEPT ![r].status = IF @ = "open" THEN "quotes_received" ELSE @]
      /\ t.quotes = Put(s.quotes, q, row)
      /\ t.awards = s.awards /\ t.pos = s.pos
      /\ t.counter = [s.counter EXCEPT !.quote = q]
    BY ZenonT(60), <1>1 DEF IsStore
<1> QED
    BY <1>2 DEF row

\* A release, table by table.
LEMMA ReleasePrTables ==
    ASSUME NEW s, IsStore(s), NEW p
    PROVE  LET t == ReleasePr(s, p)
           IN  /\ IsStore(t)
               /\ t.prs = [s.prs EXCEPT ![p].status = "rfq_issued"]
               /\ t.rfqs = s.rfqs /\ t.quotes = s.quotes /\ t.awards = s.awards /\ t.pos = s.pos
               /\ t.counter = s.counter
    BY DEF IsStore, ReleasePr

-----------------------------------------------------------------------------
(* Setting one key of a table                                                *)

\* table with row v under the number k, which it did not have.
NewRow(table, t, k, v) ==
    /\ k \notin DOMAIN table
    /\ DOMAIN t = DOMAIN table \cup {k}
    /\ t[k] = v
    /\ \A x \in DOMAIN table : t[x] = table[x]

\* table with v for its row k.
SetRow(table, t, k, v) ==
    /\ DOMAIN t = DOMAIN table
    /\ t[k] = v
    /\ \A x \in DOMAIN table \ {k} : t[x] = table[x]

\* A row under a number above all others.
LEMMA PutNew ==
    ASSUME NEW table, NEW rows, NEW last \in Nat, TableOf(table, rows, last), NEW v \in rows,
           NEW t, t = Put(table, last + 1, v)
    PROVE  TableOf(t, rows, last + 1) /\ NewRow(table, t, last + 1, v)
<1> DEFINE new == last + 1
<1>1. new \notin DOMAIN table /\ DOMAIN table \subseteq 1..new /\ new \in 1..new
    BY DEF TableOf
<1> HIDE DEF new
<1>2. t = Put(table, new, v)
    BY DEF new
<1>3. /\ t = [k \in DOMAIN t |-> t[k]]
      /\ NewRow(table, t, new, v)
    BY <1>1, <1>2 DEF Put, NewRow
<1>4. RowsIn(t, rows) /\ DOMAIN t \subseteq 1..new
    BY <1>1, <1>3 DEF TableOf, RowsIn, NewRow
<1> QED
    BY <1>3, <1>4 DEF TableOf, new

\* A row replaced.
LEMMA ExceptRow ==
    ASSUME NEW table, NEW rows, NEW last, TableOf(table, rows, last),
           NEW k \in DOMAIN table, NEW v \in rows, NEW t, t = [table EXCEPT ![k] = v]
    PROVE  TableOf(t, rows, last) /\ SetRow(table, t, k, v)
<1>1. /\ DOMAIN t = DOMAIN table
      /\ t = [x \in DOMAIN table |-> IF x = k THEN v ELSE table[x]]
    OBVIOUS
<1>2. t = [x \in DOMAIN t |-> t[x]] /\ SetRow(table, t, k, v)
    BY <1>1 DEF SetRow
<1>3. RowsIn(t, rows) /\ DOMAIN t \subseteq 1..last
    BY <1>1, <1>2 DEF TableOf, RowsIn, SetRow
<1> QED
    BY <1>2, <1>3 DEF TableOf

-----------------------------------------------------------------------------
(* Every function keeps a good store, and changes rows of one requisition    *)

\* From s to t nothing is awarded, and no row says less of its orders.
KeepsOrders(s, t) ==
    /\ t.pos = s.pos /\ t.awards = s.awards /\ t.counter.po = s.counter.po
    /\ \A p \in DOMAIN s.prs : /\ p \in DOMAIN t.prs
                               /\ t.prs[p].po = s.prs[p].po /\ t.prs[p].award = s.prs[p].award
    /\ \A r \in DOMAIN s.rfqs : /\ r \in DOMAIN t.rfqs
                                /\ t.rfqs[r].pr = s.rfqs[r].pr
                                /\ s.rfqs[r].status = "awarded" => t.rfqs[r].status = "awarded"
    /\ \A q \in DOMAIN s.quotes : q \in DOMAIN t.quotes /\ t.quotes[q] = s.quotes[q]

\* A store lags behind itself by nothing.
LEMMA BehindSelf ==
    ASSUME NEW s, GoodStore(s), NEW p
    PROVE  Behind(s, s, p)
<1>1. \A k \in DOMAIN s.counter : s.counter[k] <= s.counter[k]
    BY DEF GoodStore, Typed, Counters
<1>2. /\ \A r \in DOMAIN s.rfqs : s.rfqs[r].pr \in DOMAIN s.prs
      /\ \A q \in DOMAIN s.quotes : s.quotes[q].rfq \in DOMAIN s.rfqs
      /\ \A a \in DOMAIN s.awards : s.awards[a].quote \in DOMAIN s.quotes
      /\ \A n \in DOMAIN s.pos : s.pos[n].rfq \in DOMAIN s.rfqs
    BY DEF GoodStore, Referring
<1> QED
    BY <1>1, <1>2 DEF Behind

\* sourcing.create_pr, and what it leaves alone.
LEMMA CreatePrGood ==
    ASSUME NEW s, GoodStore(s), s.counter.pr < MaxPrs
    PROVE  /\ GoodStore(CreatePr(s))
           /\ Behind(s, CreatePr(s), s.counter.pr + 1)
           /\ KeepsOrders(s, CreatePr(s))
<1> DEFINE p == s.counter.pr + 1
           row == [status |-> "draft", rfq |-> None, award |-> None, po |-> None]
           t == CreatePr(s)
<1>a. Typed(s) /\ Referring(s) /\ IsStore(s)
    BY DEF GoodStore, Typed, IsStore
<1>b. /\ s.counter \in Counters /\ TableOf(s.prs, PurchaseRequisition, s.counter.pr)
      /\ s.counter.pr \in Nat /\ p \in 0..MaxPrs
    BY <1>a, BoundsAreNat DEF Typed, Counters
<1>c. row \in PurchaseRequisition /\ row.po = 0 /\ row.award = 0
    BY DEF PurchaseRequisition, PrStatuses, None
<1>1. /\ IsStore(t)
      /\ t.prs = Put(s.prs, p, row)
      /\ t.rfqs = s.rfqs /\ t.quotes = s.quotes /\ t.awards = s.awards /\ t.pos = s.pos
      /\ t.counter = [s.counter EXCEPT !.pr = p]
    BY <1>a, CreatePrTables
<1> HIDE DEF t, row
<1>2. /\ TableOf(t.prs, PurchaseRequisition, p)
      /\ NewRow(s.prs, t.prs, p, row)
    BY <1>1, <1>b, <1>c, PutNew
<1>3. /\ t.counter \in Counters /\ t.counter.pr = p /\ t.counter.rfq = s.counter.rfq
      /\ t.counter.quote = s.counter.quote /\ t.counter.award = s.counter.award
      /\ t.counter.po = s.counter.po /\ DOMAIN t.counter = DOMAIN s.counter
      /\ \A k \in DOMAIN t.counter : s.counter[k] <= t.counter[k]
    BY <1>1, <1>b DEF Counters
<1> HIDE DEF p
<1>4. Typed(t)
    BY SMTT(60), <1>a, <1>1, <1>2, <1>3 DEF Typed, IsStore
<1>5. Referring(t)
    BY <1>a, <1>1, <1>2, <1>3, <1>c, <1>b DEF Referring, Counters, NewRow
<1>6. Behind(s, t, p)
    BY <1>a, <1>1, <1>2, <1>3 DEF Behind, Referring, NewRow
<1>7. KeepsOrders(s, t)
    BY <1>1, <1>2, <1>3 DEF KeepsOrders, NewRow
<1> QED
    BY <1>4, <1>5, <1>6, <1>7 DEF GoodStore, t, p

\* The webhook's release of a requisition.
LEMMA ReleasePrGood ==
    ASSUME NEW s, GoodStore(s), NEW p \in DOMAIN s.prs
    PROVE  /\ GoodStore(ReleasePr(s, p))
           /\ Behind(s, ReleasePr(s, p), p)
           /\ KeepsOrders(s, ReleasePr(s, p))
<1> DEFINE row == [s.prs[p] EXCEPT !.status = "rfq_issued"]
           t == ReleasePr(s, p)
<1>a. Typed(s) /\ Referring(s) /\ IsStore(s)
    BY DEF GoodStore, Typed, IsStore
<1>b. /\ s.counter \in Counters /\ TableOf(s.prs, PurchaseRequisition, s.counter.pr)
      /\ s.prs[p] \in PurchaseRequisition
    BY <1>a DEF Typed, TableOf, RowsIn
<1>c. row \in PurchaseRequisition /\ row.po = s.prs[p].po /\ row.award = s.prs[p].award
    BY <1>b DEF PurchaseRequisition, PrStatuses
<1>1. /\ IsStore(t)
      /\ t.prs = [s.prs EXCEPT ![p] = row]
      /\ t.rfqs = s.rfqs /\ t.quotes = s.quotes /\ t.awards = s.awards /\ t.pos = s.pos
      /\ t.counter = s.counter
    BY <1>a, ReleasePrTables
<1> HIDE DEF t, row
<1>2. /\ TableOf(t.prs, PurchaseRequisition, s.counter.pr)
      /\ SetRow(s.prs, t.prs, p, row)
    BY <1>1, <1>b, <1>c, ExceptRow
<1>4. Typed(t)
    BY SMTT(60), <1>a, <1>1, <1>2 DEF Typed, IsStore
<1>5. Referring(t)
    BY <1>a, <1>1, <1>2, <1>c DEF Referring, SetRow
<1>3. \A k \in DOMAIN t.counter : s.counter[k] <= t.counter[k]
    BY <1>1, <1>b DEF Counters
<1>6. Behind(s, t, p)
    BY <1>a, <1>1, <1>2, <1>3 DEF Behind, Referring, SetRow
<1>7. KeepsOrders(s, t)
    BY <1>1, <1>2, <1>c DEF KeepsOrders, SetRow
<1> QED
    BY <1>4, <1>5, <1>6, <1>7 DEF GoodStore, t

\* Awards and orders are left alone, and what refers stays referring.
RefersStill(s, t) ==
    /\ t.awards = s.awards /\ t.pos = s.pos /\ t.counter.award = s.counter.award
    /\ \A r \in DOMAIN s.rfqs : r \in DOMAIN t.rfqs /\ t.rfqs[r].pr = s.rfqs[r].pr
    /\ \A q \in DOMAIN s.quotes : q \in DOMAIN t.quotes /\ t.quotes[q] = s.quotes[q]
    /\ \A r \in DOMAIN t.rfqs : t.rfqs[r].pr \in DOMAIN t.prs
    /\ \A q \in DOMAIN t.quotes : t.quotes[q].rfq \in DOMAIN t.rfqs
    /\ \A p \in DOMAIN t.prs :
          t.prs[p].po <= t.counter.po /\ t.prs[p].award <= t.counter.award

LEMMA ReferringKept ==
    ASSUME NEW s, NEW t, Referring(s), RefersStill(s, t)
    PROVE  Referring(t)
<1>1. ASSUME NEW a \in DOMAIN t.awards
      PROVE  /\ t.awards[a].quote \in DOMAIN t.quotes
             /\ t.quotes[t.awards[a].quote].rfq = t.awards[a].rfq
             /\ t.rfqs[t.awards[a].rfq].pr = t.awards[a].pr
  <2>1. t.awards = s.awards
    BY Zenon DEF RefersStill
  <2>2. PICK aw : aw = s.awards[a]
    OBVIOUS
  <2>3. aw.quote \in DOMAIN s.quotes /\ s.quotes[aw.quote].rfq = aw.rfq /\ s.rfqs[aw.rfq].pr = aw.pr
    BY ZenonT(60), <2>1, <2>2 DEF Referring
  <2>4. aw.rfq \in DOMAIN s.rfqs
    BY Zenon, <2>3 DEF Referring
  <2>5. /\ aw.quote \in DOMAIN t.quotes /\ t.quotes[aw.quote] = s.quotes[aw.quote]
        /\ t.rfqs[aw.rfq].pr = s.rfqs[aw.rfq].pr
    BY ZenonT(60), <2>3, <2>4 DEF RefersStill
  <2> QED
    BY Zenon, <2>1, <2>2, <2>3, <2>5
<1>2. ASSUME NEW n \in DOMAIN t.pos
      PROVE  /\ t.pos[n].rfq \in DOMAIN t.rfqs
             /\ t.rfqs[t.pos[n].rfq].pr = t.pos[n].pr
             /\ t.pos[n].award \in 1..t.counter.award
             /\ \A m \in DOMAIN t.pos \ {n} : t.pos[m].award # t.pos[n].award
  <2>1. t.pos = s.pos /\ t.counter.award = s.counter.award
    BY Zenon DEF RefersStill
  <2>2. PICK po : po = s.pos[n]
    OBVIOUS
  <2>3. /\ po.rfq \in DOMAIN s.rfqs /\ s.rfqs[po.rfq].pr = po.pr
        /\ po.award \in 1..s.counter.award
        /\ \A m \in DOMAIN s.pos \ {n} : s.pos[m].award # po.award
    BY ZenonT(60), <2>1, <2>2 DEF Referring
  <2>4. po.rfq \in DOMAIN t.rfqs /\ t.rfqs[po.rfq].pr = s.rfqs[po.rfq].pr
    BY Zenon, <2>3 DEF RefersStill
  <2> QED
    BY Zenon, <2>1, <2>2, <2>3, <2>4
<1>3. /\ \A r \in DOMAIN t.rfqs : t.rfqs[r].pr \in DOMAIN t.prs
      /\ \A q \in DOMAIN t.quotes : t.quotes[q].rfq \in DOMAIN t.rfqs
      /\ \A p \in DOMAIN t.prs :
            t.prs[p].po <= t.counter.po /\ t.prs[p].award <= t.counter.award
  BY Zenon DEF RefersStill
<1> QED
  BY Zenon, <1>1, <1>2, <1>3 DEF Referring

\* sourcing.issue_rfq: the requisition points to the new RFQ.
LEMMA IssueRfqGood ==
    ASSUME NEW s, GoodStore(s), NEW p \in DOMAIN s.prs
    PROVE  /\ GoodStore(IssueRfq(s, p))
           /\ Behind(s, IssueRfq(s, p), p)
           /\ KeepsOrders(s, IssueRfq(s, p))
<1> DEFINE r == s.counter.rfq + 1
           row == [s.prs[p] EXCEPT !.status = "rfq_issued", !.rfq = r]
           rfq == [pr |-> p, status |-> "open"]
           t == IssueRfq(s, p)
<1>a. Typed(s) /\ Referring(s) /\ IsStore(s)
    BY DEF GoodStore, Typed, IsStore
<1>b. /\ s.counter \in Counters /\ TableOf(s.prs, PurchaseRequisition, s.counter.pr)
      /\ TableOf(s.rfqs, RFQ, s.counter.rfq) /\ s.counter.rfq \in Nat
      /\ s.prs[p] \in PurchaseRequisition /\ p \in Nat
    BY <1>a DEF Typed, TableOf, RowsIn, Counters
<1>d. rfq \in RFQ /\ rfq.pr = p
    BY <1>b DEF RFQ, RfqStatuses
<1>e. row.po = s.prs[p].po /\ row.award = s.prs[p].award
    OBVIOUS
<1>f. r \in Nat /\ "rfq_issued" \in PrStatuses
    BY <1>b DEF PrStatuses
<1> HIDE DEF r
<1>c. row \in PurchaseRequisition
    BY <1>b, <1>f DEF PurchaseRequisition
<1> USE DEF r
<1>1. /\ IsStore(t)
      /\ t.prs = [s.prs EXCEPT ![p] = row]
      /\ t.rfqs = Put(s.rfqs, r, rfq)
      /\ t.quotes = s.quotes /\ t.awards = s.awards /\ t.pos = s.pos
      /\ t.counter = [s.counter EXCEPT !.rfq = r]
    BY Zenon, <1>a, IssueRfqTables
<1> HIDE DEF t, row, rfq
<1>2. /\ TableOf(t.prs, PurchaseRequisition, s.counter.pr)
      /\ SetRow(s.prs, t.prs, p, row)
    BY <1>1, <1>b, <1>c, ExceptRow
<1>3. /\ TableOf(t.rfqs, RFQ, r)
      /\ NewRow(s.rfqs, t.rfqs, r, rfq)
    BY <1>1, <1>b, <1>d, PutNew
<1>4. /\ t.counter \in Counters /\ t.counter.rfq = r /\ t.counter.pr = s.counter.pr
      /\ t.counter.quote = s.counter.quote /\ t.counter.award = s.counter.award
      /\ t.counter.po = s.counter.po /\ DOMAIN t.counter = DOMAIN s.counter
      /\ \A k \in DOMAIN t.counter : s.counter[k] <= t.counter[k]
    BY <1>1, <1>b DEF Counters
<1> HIDE DEF r
<1>5. Typed(t)
    BY SMTT(60), <1>a, <1>1, <1>2, <1>3, <1>4 DEF Typed, IsStore
<1>6. Referring(t)
  <2>1. /\ DOMAIN t.prs = DOMAIN s.prs
        /\ \A x \in DOMAIN s.prs : t.prs[x].po = s.prs[x].po /\ t.prs[x].award = s.prs[x].award
        /\ DOMAIN t.rfqs = DOMAIN s.rfqs \cup {r} /\ t.rfqs[r].pr = p
        /\ \A x \in DOMAIN s.rfqs : t.rfqs[x] = s.rfqs[x]
    BY <1>2, <1>3, <1>d, <1>e DEF NewRow, SetRow
  <2>2. /\ \A x \in DOMAIN t.rfqs : t.rfqs[x].pr \in DOMAIN t.prs
        /\ \A x \in DOMAIN s.quotes : s.quotes[x].rfq \in DOMAIN t.rfqs
    BY ZenonT(60), <1>a, <2>1 DEF Referring
  <2>3. \A x \in DOMAIN t.prs : t.prs[x].po <= t.counter.po /\ t.prs[x].award <= t.counter.award
    BY ZenonT(60), <1>a, <1>4, <2>1 DEF Referring
  <2>4. RefersStill(s, t)
    BY <1>1, <1>4, <2>1, <2>2, <2>3 DEF RefersStill
  <2> QED
    BY Zenon, <1>a, <2>4, ReferringKept
<1>7. Behind(s, t, p)
    BY <1>a, <1>1, <1>2, <1>3, <1>4, <1>c, <1>d, <1>e DEF Behind, Referring, NewRow, SetRow
<1>8. KeepsOrders(s, t)
    BY <1>1, <1>2, <1>3, <1>4, <1>c, <1>d, <1>e DEF KeepsOrders, NewRow, SetRow
<1> QED
    BY <1>5, <1>6, <1>7, <1>8 DEF GoodStore, t

\* sourcing.add_quote: the RFQ has quotes, the requisition is quoted.
LEMMA AddQuoteGood ==
    ASSUME NEW s, GoodStore(s), NEW r \in DOMAIN s.rfqs, NEW vendor \in Vendors, NEW total \in Nat
    PROVE  /\ GoodStore(AddQuote(s, r, vendor, total))
           /\ Behind(s, AddQuote(s, r, vendor, total), s.rfqs[r].pr)
           /\ KeepsOrders(s, AddQuote(s, r, vendor, total))
<1> DEFINE q == s.counter.quote + 1
           p == s.rfqs[r].pr
           row == [s.prs[p] EXCEPT !.status = IF @ = "rfq_issued" THEN "quoted" ELSE @]
           rfq == [s.rfqs[r] EXCEPT !.status = IF @ = "open" THEN "quotes_received" ELSE @]
           quote == [rfq |-> r, vendor |-> vendor, total |-> total]
           t == AddQuote(s, r, vendor, total)
<1>a. Typed(s) /\ Referring(s) /\ IsStore(s)
    BY DEF GoodStore, Typed, IsStore
<1>b. /\ s.counter \in Counters /\ TableOf(s.prs, PurchaseRequisition, s.counter.pr)
      /\ TableOf(s.rfqs, RFQ, s.counter.rfq) /\ TableOf(s.quotes, Quote, s.counter.quote)
      /\ s.counter.quote \in Nat /\ r \in Nat /\ p \in DOMAIN s.prs
      /\ s.prs[p] \in PurchaseRequisition /\ s.rfqs[r] \in RFQ
    BY SMTT(60), <1>a DEF Typed, Referring, TableOf, RowsIn, Counters
<1>c. /\ row \in PurchaseRequisition /\ row.po = s.prs[p].po /\ row.award = s.prs[p].award
      /\ rfq \in RFQ /\ rfq.pr = p /\ (s.rfqs[r].status = "awarded" => rfq.status = "awarded")
      /\ quote \in Quote /\ quote.rfq = r
    BY ZenonT(60), <1>b DEF PurchaseRequisition, PrStatuses, RFQ, RfqStatuses, Quote
<1>1. /\ IsStore(t)
      /\ t.prs = [s.prs EXCEPT ![p] = row]
      /\ t.rfqs = [s.rfqs EXCEPT ![r] = rfq]
      /\ t.quotes = Put(s.quotes, q, quote)
      /\ t.awards = s.awards /\ t.pos = s.pos
      /\ t.counter = [s.counter EXCEPT !.quote = q]
  <2>0. t = AddQuote(s, r, vendor, total) /\ q = s.counter.quote + 1 /\ p = s.rfqs[r].pr
    BY Zenon
  <2> HIDE DEF t, q, p
  <2>1. /\ IsStore(t)
        /\ t.prs = [s.prs EXCEPT ![p].status = IF @ = "rfq_issued" THEN "quoted" ELSE @]
        /\ t.rfqs = [s.rfqs EXCEPT ![r].status = IF @ = "open" THEN "quotes_received" ELSE @]
        /\ t.quotes = Put(s.quotes, q, quote)
        /\ t.awards = s.awards /\ t.pos = s.pos
        /\ t.counter = [s.counter EXCEPT !.quote = q]
    BY SMTT(60), <1>a, <2>0, AddQuoteTables DEF quote
  <2> HIDE DEF quote
  <2>2. t.prs = [s.prs EXCEPT ![p] = row]
    BY <2>1
  <2>3. t.rfqs = [s.rfqs EXCEPT ![r] = rfq]
    BY <2>1
  <2> QED
    BY Zenon, <2>1, <2>2, <2>3
<1> HIDE DEF t, row, rfq, quote
<1>2. /\ TableOf(t.prs, PurchaseRequisition, s.counter.pr)
      /\ SetRow(s.prs, t.prs, p, row)
    BY <1>1, <1>b, <1>c, ExceptRow
<1>3. /\ TableOf(t.rfqs, RFQ, s.counter.rfq)
      /\ SetRow(s.rfqs, t.rfqs, r, rfq)
    BY <1>1, <1>b, <1>c, ExceptRow
<1>4. /\ TableOf(t.quotes, Quote, q)
      /\ NewRow(s.quotes, t.quotes, q, quote)
    BY <1>1, <1>b, <1>c, PutNew
<1>5. /\ t.counter \in Counters /\ t.counter.quote = q /\ t.counter.pr = s.counter.pr
      /\ t.counter.rfq = s.counter.rfq /\ t.counter.award = s.counter.award
      /\ t.counter.po = s.counter.po /\ DOMAIN t.counter = DOMAIN s.counter
      /\ \A k \in DOMAIN t.counter : s.counter[k] <= t.counter[k]
    BY <1>1, <1>b DEF Counters
<1>d. p = s.rfqs[r].pr
    OBVIOUS
<1> HIDE DEF q, p
<1>6. Typed(t)
    BY ZenonT(60), <1>a, <1>1, <1>2, <1>3, <1>4, <1>5 DEF Typed, IsStore
<1>7. Referring(t)
  <2>1. /\ DOMAIN t.prs = DOMAIN s.prs /\ DOMAIN t.rfqs = DOMAIN s.rfqs
        /\ \A x \in DOMAIN s.rfqs : t.rfqs[x].pr = s.rfqs[x].pr
        /\ \A x \in DOMAIN s.prs : t.prs[x].po = s.prs[x].po /\ t.prs[x].award = s.prs[x].award
        /\ DOMAIN t.quotes = DOMAIN s.quotes \cup {q} /\ t.quotes[q].rfq = r
        /\ \A x \in DOMAIN s.quotes : t.quotes[x] = s.quotes[x]
    BY <1>2, <1>3, <1>4, <1>c, <1>d DEF NewRow, SetRow
  <2>2. \A x \in DOMAIN t.rfqs : t.rfqs[x].pr \in DOMAIN t.prs
    BY Zenon, <1>a, <2>1 DEF Referring
  <2>3. \A x \in DOMAIN t.quotes : t.quotes[x].rfq \in DOMAIN t.rfqs
    BY Zenon, <1>a, <2>1 DEF Referring
  <2>4. \A x \in DOMAIN t.prs : t.prs[x].po <= t.counter.po /\ t.prs[x].award <= t.counter.award
    BY ZenonT(60), <1>a, <1>5, <2>1 DEF Referring
  <2>5. RefersStill(s, t)
    BY <1>1, <1>5, <2>1, <2>2, <2>3, <2>4 DEF RefersStill
  <2> QED
    BY Zenon, <1>a, <2>5, ReferringKept
<1>8. Behind(s, t, p)
  <2>1. /\ DOMAIN t.prs = DOMAIN s.prs
        /\ \A x \in DOMAIN s.prs \ {p} : t.prs[x] = s.prs[x]
    BY <1>2 DEF SetRow
  <2>2. /\ DOMAIN t.rfqs = DOMAIN s.rfqs /\ t.rfqs[r].pr = p /\ s.rfqs[r].pr = p
        /\ \A x \in DOMAIN s.rfqs \ {r} : t.rfqs[x] = s.rfqs[x]
    BY <1>3, <1>c, <1>d DEF SetRow
  <2>3. /\ DOMAIN t.quotes = DOMAIN s.quotes \cup {q} /\ t.quotes[q].rfq = r
        /\ \A x \in DOMAIN s.quotes : t.quotes[x] = s.quotes[x]
    BY <1>4, <1>c DEF NewRow
  <2>4. /\ \A x \in DOMAIN s.rfqs : s.rfqs[x].pr \in DOMAIN s.prs
        /\ \A x \in DOMAIN s.quotes : s.quotes[x].rfq \in DOMAIN s.rfqs
        /\ \A x \in DOMAIN s.awards : s.awards[x].quote \in DOMAIN s.quotes
        /\ \A x \in DOMAIN s.pos : s.pos[x].rfq \in DOMAIN s.rfqs
    BY ZenonT(60), <1>a DEF Referring
  <2>5. /\ DOMAIN s.rfqs \subseteq DOMAIN t.rfqs
        /\ \A x \in DOMAIN s.rfqs : s.rfqs[x].pr = t.rfqs[x].pr
        /\ \A x \in DOMAIN t.rfqs : /\ t.rfqs[x].pr \in DOMAIN s.prs
                                    /\ t.rfqs[x].pr # p => x \in DOMAIN s.rfqs /\ s.rfqs[x] = t.rfqs[x]
    BY <2>2, <2>4
  <2>6. /\ DOMAIN s.quotes \subseteq DOMAIN t.quotes
        /\ \A x \in DOMAIN s.quotes : s.quotes[x] = t.quotes[x]
        /\ \A x \in DOMAIN t.quotes : /\ t.quotes[x].rfq \in DOMAIN s.rfqs
                                      /\ t.rfqs[t.quotes[x].rfq].pr # p => x \in DOMAIN s.quotes
    BY <2>2, <2>3, <2>4
  <2> QED
    BY <1>1, <1>5, <2>1, <2>4, <2>5, <2>6 DEF Behind
<1>9. KeepsOrders(s, t)
    BY <1>1, <1>2, <1>3, <1>4, <1>5, <1>b, <1>c, <1>d DEF KeepsOrders, NewRow, SetRow
<1> QED
    BY <1>6, <1>7, <1>8, <1>9 DEF GoodStore, t, p

\* What Award does to the tables it writes.
Awarded(s, t, r, q) ==
    LET a == s.counter.award + 1
        n == s.counter.po + 1
        p == s.rfqs[r].pr
    IN  /\ NewRow(s.awards, t.awards, a, [rfq |-> r, pr |-> p, quote |-> q])
        /\ NewRow(s.pos, t.pos, n, [award |-> a, rfq |-> r, pr |-> p,
                                    vendor |-> s.quotes[q].vendor, value |-> s.quotes[q].total])
        /\ SetRow(s.rfqs, t.rfqs, r, [s.rfqs[r] EXCEPT !.status = "awarded"])
        /\ SetRow(s.prs, t.prs, p, [s.prs[p] EXCEPT !.status = "po_created", !.award = a, !.po = n])
        /\ t.quotes = s.quotes
        /\ t.counter.po = n

\* sourcing.award: one award and one order more, both under fresh numbers.
LEMMA AwardGood ==
    ASSUME NEW s, GoodStore(s), NEW r \in DOMAIN s.rfqs, NEW q \in QuotesOf(s, r)
    PROVE  LET t == Award(s, r, q)
           IN  /\ GoodStore(t)
               /\ Behind(s, t, s.rfqs[r].pr)
               /\ Awarded(s, t, r, q)
               /\ PoForAward(t, t.counter.award) = s.counter.po + 1
<1> DEFINE a == s.counter.award + 1
           n == s.counter.po + 1
           p == s.rfqs[r].pr
           pr == [s.prs[p] EXCEPT !.status = "po_created", !.award = a, !.po = n]
           rfq == [s.rfqs[r] EXCEPT !.status = "awarded"]
           aw == [rfq |-> r, pr |-> p, quote |-> q]
           po == [award |-> a, rfq |-> r, pr |-> p,
                  vendor |-> s.quotes[q].vendor, value |-> s.quotes[q].total]
           t == Award(s, r, q)
<1>1. Typed(s) /\ Referring(s) /\ IsStore(s)
    BY DEF GoodStore, Typed, IsStore
<1>2. /\ s.counter \in Counters /\ TableOf(s.prs, PurchaseRequisition, s.counter.pr)
      /\ TableOf(s.rfqs, RFQ, s.counter.rfq) /\ TableOf(s.awards, AwardRow, s.counter.award)
      /\ TableOf(s.pos, SourcingPO, s.counter.po)
    BY <1>1 DEF Typed
<1>3. /\ s.counter.award \in Nat /\ s.counter.po \in Nat /\ a \in Nat /\ n \in Nat
      /\ \A k \in DOMAIN s.counter : s.counter[k] \in Nat
    BY <1>2, BoundsAreNat DEF Counters
<1>4. /\ r \in Nat /\ p \in DOMAIN s.prs /\ p \in Nat /\ q \in DOMAIN s.quotes /\ q \in Nat
      /\ s.prs[p] \in PurchaseRequisition /\ s.rfqs[r] \in RFQ /\ s.quotes[q] \in Quote
      /\ s.quotes[q].rfq = r
    BY <1>1 DEF Typed, Referring, TableOf, RowsIn, QuotesOf
<1>5. p = s.rfqs[r].pr /\ a > s.counter.award /\ n > s.counter.po
    BY <1>3
<1>0. t = [s EXCEPT !.awards = Put(@, a, aw),
                    !.rfqs[r].status = "awarded",
                    !.pos = Put(@, n, po),
                    !.prs[p] = [@ EXCEPT !.status = "po_created", !.award = a, !.po = n],
                    !.counter.award = a, !.counter.po = n]
    BY DEF Award, NextNo
<1> HIDE DEF t, a, n, p, aw, po
<1>6. /\ IsStore(t)
      /\ t.prs = [s.prs EXCEPT ![p] = pr]
      /\ t.rfqs = [s.rfqs EXCEPT ![r] = rfq]
      /\ t.quotes = s.quotes
      /\ t.awards = Put(s.awards, a, aw)
      /\ t.pos = Put(s.pos, n, po)
      /\ t.counter = [s.counter EXCEPT !.award = a, !.po = n]
    BY <1>0, <1>1 DEF IsStore
<1> HIDE DEF pr, rfq
<1>7. /\ t.counter \in Counters /\ t.counter.award = a /\ t.counter.po = n
      /\ t.counter.pr = s.counter.pr /\ t.counter.rfq = s.counter.rfq
      /\ t.counter.quote = s.counter.quote /\ DOMAIN t.counter = DOMAIN s.counter
      /\ \A k \in DOMAIN t.counter : s.counter[k] <= t.counter[k]
  <2>1. s.counter = [k \in {"pr", "rfq", "quote", "award", "po"} |-> s.counter[k]]
    BY <1>2 DEF Counters
  <2>2. t.counter = [s.counter EXCEPT !.award = a, !.po = n]
    BY <1>6
  <2> DEFINE c == t.counter
             d == s.counter
  <2> HIDE DEF c, d
  <2>3. /\ c.award = a /\ c.po = n /\ c.pr = d.pr /\ c.rfq = d.rfq /\ c.quote = d.quote
        /\ DOMAIN c = DOMAIN d /\ DOMAIN d = {"pr", "rfq", "quote", "award", "po"}
        /\ c = [k \in DOMAIN c |-> c[k]]
    BY <2>1, <2>2 DEF c, d
  <2>4. c \in Counters
    BY <2>3, <1>2, <1>3 DEF Counters, d
  <2>5. \A k \in DOMAIN c : d[k] <= c[k]
    BY <2>3, <1>3, <1>5 DEF d
  <2> QED
    BY <2>3, <2>4, <2>5 DEF c, d
<1> USE DEF pr, rfq, aw, po
<1>8. pr \in PurchaseRequisition /\ pr.po = n /\ pr.award = a
    BY <1>3, <1>4 DEF PurchaseRequisition, PrStatuses
<1>9. rfq \in RFQ /\ rfq.pr = p
    BY <1>4, <1>5 DEF RFQ, RfqStatuses
<1>10. aw \in AwardRow /\ aw.rfq = r /\ aw.pr = p /\ aw.quote = q
    BY <1>4 DEF AwardRow
<1>11. po \in SourcingPO /\ po.award = a /\ po.rfq = r /\ po.pr = p
    BY <1>3, <1>4 DEF SourcingPO, Quote
<1>12. Awarded(s, t, r, q) <=>
          /\ NewRow(s.awards, t.awards, a, aw) /\ NewRow(s.pos, t.pos, n, po)
          /\ SetRow(s.rfqs, t.rfqs, r, rfq) /\ SetRow(s.prs, t.prs, p, pr)
          /\ t.quotes = s.quotes /\ t.counter.po = n
    BY DEF Awarded, a, n, p
<1> HIDE DEF pr, rfq, aw, po
<1>13. TableOf(t.prs, PurchaseRequisition, s.counter.pr) /\ SetRow(s.prs, t.prs, p, pr)
    BY <1>2, <1>4, <1>6, <1>8, ExceptRow
<1>14. TableOf(t.rfqs, RFQ, s.counter.rfq) /\ SetRow(s.rfqs, t.rfqs, r, rfq)
    BY <1>2, <1>4, <1>6, <1>9, ExceptRow
<1>15. TableOf(t.awards, AwardRow, a) /\ NewRow(s.awards, t.awards, a, aw)
    BY <1>2, <1>3, <1>6, <1>10, PutNew DEF a
<1>16. TableOf(t.pos, SourcingPO, n) /\ NewRow(s.pos, t.pos, n, po)
    BY <1>2, <1>3, <1>6, <1>11, PutNew DEF n
<1>17. Typed(t)
    BY <1>1, <1>6, <1>7, <1>13, <1>14, <1>15, <1>16 DEF Typed, IsStore
<1>18. Referring(t)
  <2>1. /\ \A x \in DOMAIN t.rfqs : t.rfqs[x].pr \in DOMAIN t.prs
        /\ \A x \in DOMAIN t.quotes : t.quotes[x].rfq \in DOMAIN t.rfqs
    BY SMTT(60), <1>1, <1>4, <1>5, <1>6, <1>9, <1>13, <1>14 DEF Referring, SetRow
  <2>2. \A x \in DOMAIN t.awards :
          /\ t.awards[x].quote \in DOMAIN t.quotes
          /\ t.quotes[t.awards[x].quote].rfq = t.awards[x].rfq
          /\ t.rfqs[t.awards[x].rfq].pr = t.awards[x].pr
    BY <1>1, <1>4, <1>5, <1>6, <1>9, <1>10, <1>14, <1>15 DEF Referring, SetRow, NewRow
  <2>3. \A x \in DOMAIN t.pos :
          /\ t.pos[x].rfq \in DOMAIN t.rfqs
          /\ t.rfqs[t.pos[x].rfq].pr = t.pos[x].pr
    BY <1>1, <1>4, <1>5, <1>9, <1>11, <1>14, <1>16 DEF Referring, SetRow, NewRow
  <2>4. \A x \in DOMAIN t.pos :
          /\ t.pos[x].award \in 1..t.counter.award
          /\ \A m \in DOMAIN t.pos \ {x} : t.pos[m].award # t.pos[x].award
    BY <1>1, <1>3, <1>5, <1>7, <1>11, <1>16 DEF Referring, NewRow
  <2>5. \A x \in DOMAIN t.prs :
          t.prs[x].po <= t.counter.po /\ t.prs[x].award <= t.counter.award
    <3>1. \A x \in DOMAIN s.prs : s.prs[x].po \in Nat /\ s.prs[x].award \in Nat
        BY <1>2 DEF TableOf, RowsIn, PurchaseRequisition
    <3> QED
        BY <3>1, <1>1, <1>3, <1>5, <1>7, <1>8, <1>13 DEF Referring, SetRow
  <2> QED
    BY SMTT(60), <2>1, <2>2, <2>3, <2>4, <2>5 DEF Referring
<1>19. Behind(s, t, p)
  <2>1. /\ DOMAIN s.prs \subseteq DOMAIN t.prs
        /\ \A x \in DOMAIN t.prs \ {p} : x \in DOMAIN s.prs /\ s.prs[x] = t.prs[x]
    BY <1>13 DEF SetRow
  <2>2. /\ DOMAIN s.rfqs \subseteq DOMAIN t.rfqs
        /\ \A x \in DOMAIN s.rfqs : s.rfqs[x].pr = t.rfqs[x].pr
        /\ \A x \in DOMAIN t.rfqs :
              /\ t.rfqs[x].pr \in DOMAIN s.prs
              /\ t.rfqs[x].pr # p => x \in DOMAIN s.rfqs /\ s.rfqs[x] = t.rfqs[x]
    BY <1>1, <1>4, <1>5, <1>9, <1>14 DEF SetRow, Referring
  <2>3. /\ \A x \in DOMAIN s.quotes : s.quotes[x] = t.quotes[x]
        /\ \A x \in DOMAIN t.quotes : x \in DOMAIN s.quotes /\ t.quotes[x].rfq \in DOMAIN s.rfqs
        /\ DOMAIN s.quotes = DOMAIN t.quotes
    BY <1>1, <1>6 DEF Referring
  <2>4. /\ DOMAIN s.awards \subseteq DOMAIN t.awards
        /\ \A x \in DOMAIN s.awards : s.awards[x] = t.awards[x]
        /\ \A x \in DOMAIN t.awards : /\ t.awards[x].quote \in DOMAIN s.quotes
                                      /\ t.awards[x].pr # p => x \in DOMAIN s.awards
    BY <1>1, <1>4, <1>10, <1>15 DEF NewRow, Referring
  <2>5. /\ DOMAIN s.pos \subseteq DOMAIN t.pos
        /\ \A x \in DOMAIN s.pos : s.pos[x] = t.pos[x]
        /\ \A x \in DOMAIN t.pos : /\ t.pos[x].rfq \in DOMAIN s.rfqs
                                   /\ t.pos[x].pr # p => x \in DOMAIN s.pos
    BY <1>1, <1>4, <1>11, <1>16 DEF NewRow, Referring
  <2> QED
    BY <2>1, <2>2, <2>3, <2>4, <2>5, <1>7 DEF Behind
<1>20. Awarded(s, t, r, q)
    BY <1>6, <1>7, <1>12, <1>13, <1>14, <1>15, <1>16
<1>21. PoForAward(t, t.counter.award) = n
    BY <1>4, <1>7, <1>8, <1>10, <1>13, <1>15 DEF PoForAward, NewRow, SetRow
<1> QED
    BY <1>17, <1>18, <1>19, <1>20, <1>21 DEF GoodStore, t, n, p

-----------------------------------------------------------------------------
(* What the snapshot thread writes                                           *)

\* Copies of a table that only grew agree where both have a row.
LEMMA BehindTables ==
    ASSUME NEW s, NEW t, NEW p, GoodStore(s), GoodStore(t), Behind(s, t, p)
    PROVE  /\ TableOf(s.prs, PurchaseRequisition, t.counter.pr)
           /\ TableOf(s.rfqs, RFQ, t.counter.rfq)
           /\ TableOf(s.quotes, Quote, t.counter.quote)
           /\ TableOf(s.awards, AwardRow, t.counter.award)
           /\ TableOf(s.pos, SourcingPO, t.counter.po)
           /\ \A x \in DOMAIN s.prs :
                 s.prs[x].po <= t.counter.po /\ s.prs[x].award <= t.counter.award
<1>1. Typed(s) /\ Typed(t) /\ Referring(s)
    BY DEF GoodStore
<1>2. /\ s.counter \in Counters /\ t.counter \in Counters
      /\ \A k \in DOMAIN t.counter : s.counter[k] <= t.counter[k]
    BY <1>1 DEF Typed, Behind
<1>3. \A k \in {"pr", "rfq", "quote", "award", "po"} :
        s.counter[k] \in Nat /\ t.counter[k] \in Nat /\ s.counter[k] <= t.counter[k]
    BY <1>2, BoundsAreNat DEF Counters
<1>4. \A table, rows : \A m \in Nat, n \in Nat :
        m <= n /\ TableOf(table, rows, m) => TableOf(table, rows, n)
    BY DEF TableOf
<1>5. \A x \in DOMAIN s.prs : s.prs[x].po \in Nat /\ s.prs[x].award \in Nat
    BY <1>1 DEF Typed, TableOf, RowsIn, PurchaseRequisition
<1>6. \A x \in DOMAIN s.prs :
        s.prs[x].po <= t.counter.po /\ s.prs[x].award <= t.counter.award
    BY <1>1, <1>3, <1>5 DEF Referring
<1> QED
    BY <1>1, <1>3, <1>4, <1>6 DEF Typed

\* Whichever tables were read late, the file names no row it does not hold.
LEMMA MixedGood ==
    ASSUME GoodStore(src), NEW from, GoodStore(from), NEW p, Behind(from, src, p),
           NEW later \in SUBSET Tables
    PROVE  LET m == MixedStore(from, later)
           IN  /\ GoodStore(m) /\ Behind(m, src, p)
               /\ DOMAIN from.pos \subseteq DOMAIN m.pos
               /\ m.counter = src.counter
<1> DEFINE m == MixedStore(from, later)
<1>1. Typed(from) /\ Typed(src) /\ Referring(from) /\ Referring(src)
    BY DEF GoodStore
<1>2. /\ m = [prs |-> m.prs, rfqs |-> m.rfqs, quotes |-> m.quotes, awards |-> m.awards,
              pos |-> m.pos, counter |-> m.counter]
      /\ m.counter = src.counter
      /\ m.prs \in {from.prs, src.prs} /\ m.rfqs \in {from.rfqs, src.rfqs}
      /\ m.quotes \in {from.quotes, src.quotes} /\ m.awards \in {from.awards, src.awards}
      /\ m.pos \in {from.pos, src.pos}
  <2>1. src = [prs |-> src.prs, rfqs |-> src.rfqs, quotes |-> src.quotes,
               awards |-> src.awards, pos |-> src.pos, counter |-> src.counter]
    BY <1>1 DEF Typed
  <2>2. DOMAIN src = {"prs", "rfqs", "quotes", "awards", "pos", "counter"}
    BY <2>1
  <2> QED
    BY <2>2 DEF MixedStore
<1> HIDE DEF m
<1>3. /\ TableOf(m.prs, PurchaseRequisition, src.counter.pr)
      /\ TableOf(m.rfqs, RFQ, src.counter.rfq)
      /\ TableOf(m.quotes, Quote, src.counter.quote)
      /\ TableOf(m.awards, AwardRow, src.counter.award)
      /\ TableOf(m.pos, SourcingPO, src.counter.po)
    BY <1>1, <1>2, BehindTables DEF Typed
<1>4. Typed(m)
    BY <1>1, <1>2, <1>3 DEF Typed
<1>5. /\ DOMAIN from.prs \subseteq DOMAIN m.prs /\ DOMAIN m.prs \subseteq DOMAIN src.prs
      /\ DOMAIN from.rfqs \subseteq DOMAIN m.rfqs /\ DOMAIN m.rfqs \subseteq DOMAIN src.rfqs
      /\ DOMAIN from.quotes \subseteq DOMAIN m.quotes /\ DOMAIN m.quotes \subseteq DOMAIN src.quotes
      /\ DOMAIN from.awards \subseteq DOMAIN m.awards /\ DOMAIN m.awards \subseteq DOMAIN src.awards
      /\ DOMAIN from.pos \subseteq DOMAIN m.pos /\ DOMAIN m.pos \subseteq DOMAIN src.pos
    BY <1>2 DEF Behind
<1>6. /\ \A x \in DOMAIN src.prs \ {p} : x \in DOMAIN m.prs /\ m.prs[x] = src.prs[x]
      /\ \A r \in DOMAIN m.rfqs : m.rfqs[r].pr = src.rfqs[r].pr
      /\ \A r \in DOMAIN src.rfqs :
            src.rfqs[r].pr # p => r \in DOMAIN m.rfqs /\ m.rfqs[r] = src.rfqs[r]
      /\ \A q \in DOMAIN m.quotes : m.quotes[q] = src.quotes[q]
      /\ \A a \in DOMAIN m.awards : m.awards[a] = src.awards[a]
      /\ \A n \in DOMAIN m.pos : m.pos[n] = src.pos[n]
    BY <1>2 DEF Behind
<1>7. Referring(m)
  <2>1. /\ \A r \in DOMAIN m.rfqs : m.rfqs[r].pr \in DOMAIN m.prs
        /\ \A q \in DOMAIN m.quotes : m.quotes[q].rfq \in DOMAIN m.rfqs
    BY <1>5, <1>6 DEF Behind
  <2>2. \A a \in DOMAIN m.awards :
          /\ m.awards[a].quote \in DOMAIN m.quotes
          /\ m.quotes[m.awards[a].quote].rfq = m.awards[a].rfq
          /\ m.rfqs[m.awards[a].rfq].pr = m.awards[a].pr
    BY SMTT(60), <2>1, <1>1, <1>5, <1>6 DEF Behind, Referring
  <2>3. \A n \in DOMAIN m.pos :
          /\ m.pos[n].rfq \in DOMAIN m.rfqs
          /\ m.rfqs[m.pos[n].rfq].pr = m.pos[n].pr
          /\ m.pos[n].award \in 1..m.counter.award
          /\ \A x \in DOMAIN m.pos \ {n} : m.pos[x].award # m.pos[n].award
    BY SMTT(60), <1>1, <1>2, <1>5, <1>6 DEF Behind, Referring
  <2>4. \A x \in DOMAIN m.prs :
          m.prs[x].po <= m.counter.po /\ m.prs[x].award <= m.counter.award
    BY <1>1, <1>2, BehindTables DEF Referring
  <2> QED
    BY <2>1, <2>2, <2>3, <2>4 DEF Referring
<1>8. Behind(m, src, p)
  <2>1. \A k \in DOMAIN src.counter : m.counter[k] <= src.counter[k]
    BY <1>1, <1>2 DEF Typed, Counters
  <2>2. /\ \A r \in DOMAIN src.rfqs : src.rfqs[r].pr \in DOMAIN m.prs
        /\ \A q \in DOMAIN src.quotes :
              /\ src.quotes[q].rfq \in DOMAIN m.rfqs
              /\ src.rfqs[src.quotes[q].rfq].pr # p => q \in DOMAIN m.quotes
        /\ \A a \in DOMAIN src.awards : /\ src.awards[a].quote \in DOMAIN m.quotes
                                        /\ src.awards[a].pr # p => a \in DOMAIN m.awards
        /\ \A n \in DOMAIN src.pos : /\ src.pos[n].rfq \in DOMAIN m.rfqs
                                     /\ src.pos[n].pr # p => n \in DOMAIN m.pos
    BY <1>5 DEF Behind
  <2> QED
    BY <2>1, <2>2, <1>5, <1>6 DEF Behind
<1> QED
    BY <1>2, <1>4, <1>5, <1>7, <1>8 DEF GoodStore, m

\* A snapshot read while nothing changes is the store.
LEMMA MixedSame ==
    ASSUME Typed(src), NEW later \in SUBSET Tables
    PROVE  MixedStore(src, later) = src
<1>1. src = [prs |-> src.prs, rfqs |-> src.rfqs, quotes |-> src.quotes,
             awards |-> src.awards, pos |-> src.pos, counter |-> src.counter]
    BY DEF Typed
<1>2. src = [f \in DOMAIN src |-> src[f]]
    BY <1>1
<1> QED
    BY <1>2 DEF MixedStore

-----------------------------------------------------------------------------
(* The approvals                                                             *)

\* An approval that waits has no result yet, and one for a quote names its vendor.
Waiting(row) ==
    row.status = "pending" =>
        row.result = None /\ (row.kind = "quote_above_budget" => row.vendor \in Vendors)

GoodApprovals(t) ==
    /\ t = [k \in DOMAIN t |-> t[k]]
    /\ RowsIn(t, ApprovalRow)
    /\ IsFiniteSet(DOMAIN t) /\ DOMAIN t = 1..Cardinality(DOMAIN t)
    /\ \A k \in DOMAIN t : Waiting(t[k])

\* The steps a handler can have left.
Todos == {<<>>, Flush, Tail(Flush), FlushCloseFlush, Tail(FlushCloseFlush),
          Tail(Tail(FlushCloseFlush))}

\* The handler has still to record its approval or its result.
ClosePending ==
    job.todo \in {FlushCloseFlush, Tail(FlushCloseFlush), Tail(Tail(FlushCloseFlush))}

\* It has nothing to do that its files do not hold already.
Rested ==
    \/ job.todo = <<>>
    \/ job.todo = Tail(Tail(FlushCloseFlush))
    \/ job.todo \in {Flush, Tail(Flush)} /\ job.close.kind # "none"

\* The approvals as they are once the handler has recorded what it will.
Closed ==
    IF job.todo = <<>> \/ ~ClosePending THEN apr
    ELSE IF job.close.kind = "record" THEN Put(apr, NextApproval, job.close.approval)
    ELSE [apr EXCEPT ![job.close.approval].result = job.close.result]

\* Approvals s lag behind t in rows of requisition p only.
ApprovalsBehind(s, t, p) ==
    /\ DOMAIN s \subseteq DOMAIN t
    /\ \A k \in DOMAIN s : /\ s[k].kind = t[k].kind /\ s[k].rfq = t[k].rfq
                           /\ s[k].quote = t[k].quote
                           /\ s[k].result \in {None, t[k].result}
    /\ \A k \in DOMAIN t : PrOfRfq(t[k].rfq) # p => k \in DOMAIN s /\ s[k] = t[k]

-----------------------------------------------------------------------------
(* What the store and the decisions say of each other, outside the           *)
(* requisitions in gone                                                      *)

TracedOrders(s, gone) ==
    \A n \in DOMAIN s.pos : s.pos[n].pr \notin gone =>
        LET po == s.pos[n]
            aw == s.awards[po.award]
            pr == s.prs[po.pr]
        IN  /\ po.award \in DOMAIN s.awards
            /\ aw.rfq = po.rfq /\ aw.pr = po.pr
            /\ s.rfqs[po.rfq].status = "awarded"
            /\ s.quotes[aw.quote].vendor = po.vendor /\ s.quotes[aw.quote].total = po.value
            /\ pr.po >= n /\ pr.po \in DOMAIN s.pos
            /\ s.pos[pr.po].award = pr.award /\ s.pos[pr.po].pr = po.pr

\* Decisions name awardable quotes, and orders that differ.
NamedQuotes(s, t, decided) ==
    \A n \in decided :
        /\ n \in DOMAIN t
        /\ t[n].kind \in AwardKinds
        /\ t[n].quote \in QuotesOf(s, t[n].rfq)
        /\ t[n].result <= s.counter.po
        /\ \A m \in decided \ {n} : t[n].result # None => t[m].result # t[n].result

NamedOrders(s, t, decided, gone) ==
    \A n \in decided : s.rfqs[t[n].rfq].pr \notin gone =>
        /\ t[n].status \in Favourable
        /\ t[n].result \in DOMAIN s.pos
        /\ s.pos[t[n].result].rfq = t[n].rfq
        /\ s.awards[s.pos[t[n].result].award].quote = t[n].quote

AwardsIn(s, q) == {a \in DOMAIN s.awards : s.awards[a].quote = q}
DecidedFor(t, decided, q) == {n \in decided : t[n].quote = q}

Balanced(s, t, decided, gone) ==
    \A q \in DOMAIN s.quotes : s.rfqs[s.quotes[q].rfq].pr \notin gone =>
        /\ Cardinality(AwardsIn(s, q)) >= Cardinality(DecidedFor(t, decided, q))
        /\ s.quotes[q].total >= Threshold =>
              Cardinality(AwardsIn(s, q)) = Cardinality(DecidedFor(t, decided, q))

Consistent(s, t, decided, gone) ==
    /\ TracedOrders(s, gone)
    /\ NamedQuotes(s, t, decided)
    /\ NamedOrders(s, t, decided, gone)
    /\ Balanced(s, t, decided, gone)

\* What the clients were told holds in these tables.
Told(s, t) ==
    \A told \in answered :
        /\ told.pos # None => told.pos \in DOMAIN s.pos
        /\ told.decision # None => /\ told.decision \in DOMAIN t
                                   /\ t[told.decision].status # "pending"

-----------------------------------------------------------------------------
(* The invariant                                                             *)

Stores ==
    /\ GoodStore(src) /\ GoodStore(disk.src)
    /\ GoodApprovals(apr) /\ GoodApprovals(disk.apr)
    /\ disk = [src |-> disk.src, apr |-> disk.apr, cut |-> disk.cut]
    /\ disk.cut \subseteq {"apr", "src"}
    /\ \/ snap = NoSnap
       \/ snap = [phase |-> "sourced"]
       \/ snap = [phase |-> "reading", from |-> snap.from] /\ GoodStore(snap.from)
    /\ up \in BOOLEAN /\ unsaved \in BOOLEAN /\ lost \in BOOLEAN
    /\ torn \subseteq 0..MaxPrs
    /\ ~up => job = NoJob /\ snap = NoSnap /\ unsaved = FALSE

Answers == [pos : Nat, decision : Nat]

JobOK ==
    \/ job = NoJob
    \/ /\ job = [todo |-> job.todo, pr |-> job.pr, close |-> job.close, answer |-> job.answer]
       /\ job.todo \in Todos \ {<<>>}
       /\ job.pr \in 0..MaxPrs
       /\ job.answer \in Answers
       /\ job.todo = Tail(Flush) \/ job.todo = Tail(FlushCloseFlush) => snap.phase = "idle"
       /\ job.answer.pos # None => job.answer.pos \in DOMAIN src.pos
       /\ job.answer.decision # None => /\ job.answer.decision \in DOMAIN Closed
                                        /\ Closed[job.answer.decision].status # "pending"
       /\ \/ /\ job.close.kind = "none"
             /\ job.todo \in {Flush, Tail(Flush)}
          \/ /\ job.close.kind = "record"
             /\ job.close.approval \in ApprovalRow
             /\ job.close.approval.status # "pending"
             /\ PrOfRfq(job.close.approval.rfq) = job.pr
          \/ /\ job.close.kind = "result"
             /\ job.close.result \in Nat
             /\ job.close.approval \in DOMAIN apr
             /\ apr[job.close.approval].status # "pending"
             /\ ClosePending => apr[job.close.approval].result = None
             /\ PrOfRfq(apr[job.close.approval].rfq) = job.pr

\* The quotes and the orders the decisions in t name, s has numbered already.
Backed(t, s) ==
    \A n \in owed \cap DOMAIN t :
        t[n].quote \in DOMAIN s.quotes /\ t[n].result <= s.counter.po

\* No failed write and no crash has kept anything from the files.
Whole == ~unsaved /\ ~lost

\* The files and the snapshot lag behind memory by the handler at most.
Lagging ==
    up =>
        /\ job.todo # <<>> /\ Head(job.todo) = "src" =>
              disk.apr = apr /\ "apr" \notin disk.cut
        /\ snap.phase = "reading" =>
              IF Rested THEN snap.from = src ELSE Behind(snap.from, src, job.pr)
        /\ Whole /\ Rested => disk.src = src
        /\ Whole /\ job.todo # <<>> =>
              /\ Behind(disk.src, src, job.pr)
              /\ ApprovalsBehind(disk.apr, apr, job.pr)
        /\ Whole /\ (job.todo = <<>> \/ Head(job.todo) = "close") => disk.apr = apr
        /\ ~lost => /\ snap.phase = "reading" => Backed(apr, snap.from)
                    /\ ~unsaved => Backed(apr, disk.src)

Truthful ==
    ~lost =>
        /\ ~unsaved => disk.cut = {}
        /\ up => Told(src, apr)
        /\ ~unsaved => Told(disk.src, disk.apr)
        /\ snap.phase = "reading" => Told(snap.from, apr)
        /\ up => Consistent(src, Closed, owed, torn)
        /\ ~up => Consistent(disk.src, disk.apr, owed \cap DOMAIN disk.apr, torn)

IInv == Stores /\ JobOK /\ Lagging /\ Truthful


-----------------------------------------------------------------------------
(* How the store and the decisions stay consistent                           *)

\* An order is added or nothing is: what was said of the orders still holds.
LEMMA ConsistentKeeps ==
    ASSUME NEW s, NEW s2, NEW t, NEW decided, NEW gone,
           GoodStore(s), GoodStore(s2), KeepsOrders(s, s2), Consistent(s, t, decided, gone)
    PROVE  Consistent(s2, t, decided, gone)
<1>1. Referring(s)
    BY SMTT(60) DEF GoodStore
<1>2. TracedOrders(s2, gone)
  <2> SUFFICES ASSUME NEW n \in DOMAIN s2.pos, s2.pos[n].pr \notin gone
               PROVE  LET po == s2.pos[n]
                          aw == s2.awards[po.award]
                          pr == s2.prs[po.pr]
                      IN  /\ po.award \in DOMAIN s2.awards
                          /\ aw.rfq = po.rfq /\ aw.pr = po.pr
                          /\ s2.rfqs[po.rfq].status = "awarded"
                          /\ s2.quotes[aw.quote].vendor = po.vendor
                          /\ s2.quotes[aw.quote].total = po.value
                          /\ pr.po >= n /\ pr.po \in DOMAIN s2.pos
                          /\ s2.pos[pr.po].award = pr.award /\ s2.pos[pr.po].pr = po.pr
    BY ZenonT(60) DEF TracedOrders
  <2>0. s2.pos = s.pos /\ s2.awards = s.awards
    BY DEF KeepsOrders
  <2>1. /\ s.pos[n].award \in DOMAIN s.awards
        /\ s.awards[s.pos[n].award].quote \in DOMAIN s.quotes
        /\ s.pos[n].rfq \in DOMAIN s.rfqs
        /\ s.rfqs[s.pos[n].rfq].pr = s.pos[n].pr
        /\ s.pos[n].pr \in DOMAIN s.prs
    BY ZenonT(60), <1>1, <2>0 DEF Consistent, TracedOrders, Referring
  <2> DEFINE po == s.pos[n]
             aw == s.awards[po.award]
             pr == s.prs[po.pr]
  <2>2. /\ aw.rfq = po.rfq /\ aw.pr = po.pr
        /\ s.rfqs[po.rfq].status = "awarded"
        /\ s.quotes[aw.quote].vendor = po.vendor /\ s.quotes[aw.quote].total = po.value
        /\ pr.po >= n /\ pr.po \in DOMAIN s.pos
        /\ s.pos[pr.po].award = pr.award /\ s.pos[pr.po].pr = po.pr
    BY ZenonT(60), <2>0 DEF Consistent, TracedOrders
  <2>3. /\ s2.rfqs[po.rfq].status = "awarded"
        /\ s2.quotes[aw.quote] = s.quotes[aw.quote]
        /\ s2.prs[po.pr].po = pr.po /\ s2.prs[po.pr].award = pr.award
    BY ZenonT(60), <2>1, <2>2 DEF KeepsOrders
  <2> QED
    BY ZenonT(60), <2>0, <2>1, <2>2, <2>3
<1>3. NamedQuotes(s2, t, decided)
    BY ZenonT(60) DEF Consistent, NamedQuotes, QuotesOf, KeepsOrders
<1>4. NamedOrders(s2, t, decided, gone)
    BY ZenonT(60), <1>1 DEF Consistent, NamedOrders, NamedQuotes, QuotesOf, KeepsOrders, Referring
<1>5. Balanced(s2, t, decided, gone)
  <2> SUFFICES ASSUME NEW q \in DOMAIN s2.quotes, s2.rfqs[s2.quotes[q].rfq].pr \notin gone
               PROVE  /\ Cardinality(AwardsIn(s2, q)) >= Cardinality(DecidedFor(t, decided, q))
                      /\ s2.quotes[q].total >= Threshold =>
                            Cardinality(AwardsIn(s2, q)) = Cardinality(DecidedFor(t, decided, q))
    BY DEF Balanced
  <2>1. AwardsIn(s2, q) = AwardsIn(s, q)
    BY DEF AwardsIn, KeepsOrders
  <2>2. CASE q \in DOMAIN s.quotes
    <3>1. /\ s2.quotes[q] = s.quotes[q]
          /\ s2.rfqs[s.quotes[q].rfq].pr = s.rfqs[s.quotes[q].rfq].pr
        BY <1>1, <2>2 DEF KeepsOrders, Referring
    <3> QED
        BY <2>1, <2>2, <3>1 DEF Consistent, Balanced
  <2>3. CASE q \notin DOMAIN s.quotes
    <3>1. AwardsIn(s, q) = {}
        BY <1>1, <2>3 DEF AwardsIn, Referring
    <3>2. DecidedFor(t, decided, q) = {}
        BY <2>3 DEF DecidedFor, Consistent, NamedQuotes, QuotesOf
    <3> QED
        BY <2>1, <3>1, <3>2, FS_EmptySet
  <2> QED
    BY <2>2, <2>3
<1> QED
    BY <1>2, <1>3, <1>4, <1>5 DEF Consistent

\* Approvals change, but no decision does.
LEMMA ConsistentApprovals ==
    ASSUME NEW s, NEW t, NEW t2, NEW decided, NEW gone, Consistent(s, t, decided, gone),
           \A n \in decided :
              /\ n \in DOMAIN t2
              /\ t2[n].kind = t[n].kind /\ t2[n].rfq = t[n].rfq /\ t2[n].quote = t[n].quote
              /\ t2[n].result = t[n].result
              /\ t[n].status \in Favourable => t2[n].status \in Favourable
    PROVE  Consistent(s, t2, decided, gone)
<1>1. \A q : DecidedFor(t2, decided, q) = DecidedFor(t, decided, q)
    BY DEF DecidedFor
<1>2. NamedQuotes(s, t2, decided)
    BY DEF Consistent, NamedQuotes
<1>3. NamedOrders(s, t2, decided, gone)
    BY ZenonT(60) DEF Consistent, NamedOrders
<1>4. Balanced(s, t2, decided, gone)
    BY ZenonT(60), <1>1 DEF Consistent, Balanced
<1> QED
    BY <1>2, <1>3, <1>4 DEF Consistent

\* The new order is its requisition's latest, and the older ones keep what they
\* trace to.
LEMMA AwardTraced ==
    ASSUME NEW s, NEW s2, NEW r \in DOMAIN s.rfqs, NEW q \in QuotesOf(s, r), NEW gone,
           GoodStore(s), GoodStore(s2), Awarded(s, s2, r, q), TracedOrders(s, gone)
    PROVE  TracedOrders(s2, gone)
<1> DEFINE a == s.counter.award + 1
           new == s.counter.po + 1
           p == s.rfqs[r].pr
           awrow == [rfq |-> r, pr |-> p, quote |-> q]
           porow == [award |-> a, rfq |-> r, pr |-> p,
                     vendor |-> s.quotes[q].vendor, value |-> s.quotes[q].total]
           rfqrow == [s.rfqs[r] EXCEPT !.status = "awarded"]
           prrow == [s.prs[p] EXCEPT !.status = "po_created", !.award = a, !.po = new]
<1>1. /\ NewRow(s.awards, s2.awards, a, awrow) /\ NewRow(s.pos, s2.pos, new, porow)
      /\ SetRow(s.rfqs, s2.rfqs, r, rfqrow) /\ SetRow(s.prs, s2.prs, p, prrow)
      /\ s2.quotes = s.quotes
    BY DEF Awarded
<1>2. Typed(s) /\ Referring(s)
    BY DEF GoodStore
<1>3. /\ p \in DOMAIN s.prs /\ q \in DOMAIN s.quotes
      /\ s.prs[p] \in PurchaseRequisition /\ s.rfqs[r] \in RFQ
    BY <1>2 DEF Typed, Referring, TableOf, RowsIn, QuotesOf
<1>4. /\ rfqrow.status = "awarded" /\ prrow.award = a /\ prrow.po = new
    BY <1>3 DEF RFQ, PurchaseRequisition
<1>5. /\ awrow.rfq = r /\ awrow.pr = p /\ awrow.quote = q
      /\ porow.award = a /\ porow.rfq = r /\ porow.pr = p
      /\ porow.vendor = s.quotes[q].vendor /\ porow.value = s.quotes[q].total
    OBVIOUS
<1>6. new \in Nat /\ \A n \in DOMAIN s.pos : new >= n /\ n # new
    BY <1>2 DEF Typed, Counters, TableOf
<1> HIDE DEF a, new, awrow, porow, rfqrow, prrow
<1>7. p = s.rfqs[r].pr
    OBVIOUS
<1> HIDE DEF p
<1> SUFFICES ASSUME NEW n \in DOMAIN s2.pos, s2.pos[n].pr \notin gone
             PROVE  LET po == s2.pos[n]
                        aw == s2.awards[po.award]
                        pr == s2.prs[po.pr]
                    IN  /\ po.award \in DOMAIN s2.awards
                        /\ aw.rfq = po.rfq /\ aw.pr = po.pr
                        /\ s2.rfqs[po.rfq].status = "awarded"
                        /\ s2.quotes[aw.quote].vendor = po.vendor
                        /\ s2.quotes[aw.quote].total = po.value
                        /\ pr.po >= n /\ pr.po \in DOMAIN s2.pos
                        /\ s2.pos[pr.po].award = pr.award /\ s2.pos[pr.po].pr = po.pr
    BY ZenonT(60) DEF TracedOrders
<1>8. CASE n = new
  <2>1. /\ s2.pos[n] = porow /\ n \in DOMAIN s2.pos
        /\ s2.awards[a] = awrow /\ a \in DOMAIN s2.awards
    BY Zenon, <1>1, <1>8 DEF NewRow
  <2>2. s2.prs[p] = prrow /\ s2.rfqs[r] = rfqrow /\ s2.quotes = s.quotes
    BY Zenon, <1>1 DEF SetRow
  <2>3. new >= n
    BY <1>6, <1>8
  <2> QED
    BY Zenon, <1>4, <1>5, <1>8, <2>1, <2>2, <2>3
<1>9. CASE n # new
  <2> DEFINE po == s.pos[n]
             aw == s.awards[po.award]
             pr == s.prs[po.pr]
  <2>1. n \in DOMAIN s.pos /\ s2.pos[n] = po
    BY ZenonT(60), <1>1, <1>9 DEF NewRow
  <2>2. /\ po.award \in DOMAIN s.awards
        /\ aw.rfq = po.rfq /\ aw.pr = po.pr
        /\ s.rfqs[po.rfq].status = "awarded"
        /\ s.quotes[aw.quote].vendor = po.vendor /\ s.quotes[aw.quote].total = po.value
        /\ pr.po >= n /\ pr.po \in DOMAIN s.pos
        /\ s.pos[pr.po].award = pr.award /\ s.pos[pr.po].pr = po.pr
    BY ZenonT(60), <2>1 DEF TracedOrders
  <2>3. po.rfq \in DOMAIN s.rfqs /\ po.pr \in DOMAIN s.prs
    BY ZenonT(60), <2>1, <1>2 DEF Referring
  <2>4. /\ po.award \in DOMAIN s2.awards /\ s2.awards[po.award] = aw
        /\ s2.rfqs[po.rfq].status = "awarded"
    BY ZenonT(60), <1>1, <1>4, <2>2, <2>3 DEF NewRow, SetRow
  <2>5. LET prn == s2.prs[po.pr]
        IN  /\ prn.po >= n /\ prn.po \in DOMAIN s2.pos
            /\ s2.pos[prn.po].award = prn.award /\ s2.pos[prn.po].pr = po.pr
    <3>1. CASE po.pr = p
        BY ZenonT(60), <1>1, <1>3, <1>4, <1>5, <1>6, <2>1, <3>1 DEF NewRow, SetRow
    <3>2. CASE po.pr # p
      <4>1. s2.prs[po.pr] = pr
        BY Zenon, <1>1, <2>3, <3>2 DEF SetRow
      <4>2. pr.po \in DOMAIN s2.pos /\ s2.pos[pr.po] = s.pos[pr.po]
        BY Zenon, <1>1, <2>2 DEF NewRow
      <4> QED
        BY Zenon, <2>2, <4>1, <4>2
    <3> QED
        BY ZenonT(60), <3>1, <3>2
  <2> QED
    BY ZenonT(60), <2>1, <2>2, <2>4, <2>5, <1>1
<1> QED
    BY ZenonT(60), <1>8, <1>9

\* There are finitely many awards of a quote.
LEMMA AwardsFinite ==
    ASSUME NEW s, GoodStore(s), NEW q
    PROVE  IsFiniteSet(AwardsIn(s, q)) /\ Cardinality(AwardsIn(s, q)) \in Nat
<1>1. s.counter.award \in Nat /\ AwardsIn(s, q) \subseteq 1..s.counter.award
    BY DEF GoodStore, Typed, Counters, TableOf, AwardsIn
<1>2. IsFiniteSet(1..s.counter.award)
    BY <1>1, FS_Interval
<1> QED
    BY <1>1, <1>2, FS_Subset, FS_CardinalityType

\* What the decisions of before say stays true beside the new order.
LEMMA AwardKeepsDecisions ==
    ASSUME NEW s, NEW s2, NEW t, NEW decided, NEW gone,
           NEW r \in DOMAIN s.rfqs, NEW q \in QuotesOf(s, r),
           GoodStore(s), GoodStore(s2), Awarded(s, s2, r, q), Consistent(s, t, decided, gone),
           GoodApprovals(t)
    PROVE  /\ NamedQuotes(s2, t, decided)
           /\ NamedOrders(s2, t, decided, gone)
           /\ \A n \in decided : t[n].result # s.counter.po + 1
<1>1. /\ Referring(s) /\ TracedOrders(s, gone) /\ NamedQuotes(s, t, decided)
      /\ NamedOrders(s, t, decided, gone)
    BY DEF GoodStore, Consistent
<1>2. /\ s2.quotes = s.quotes /\ s2.counter.po = s.counter.po + 1 /\ s.counter.po \in Nat
    BY DEF GoodStore, Typed, Counters, Awarded
<1>3. \A n \in decided : t[n].result \in Nat /\ t[n].result <= s.counter.po
    BY <1>1 DEF GoodApprovals, RowsIn, ApprovalRow, NamedQuotes
<1>4. \A x \in DOMAIN s.rfqs : s2.rfqs[x].pr = s.rfqs[x].pr
    BY DEF Awarded, SetRow, GoodStore, Typed, TableOf, RowsIn, RFQ
<1>5. /\ \A x \in DOMAIN s.pos : x \in DOMAIN s2.pos /\ s2.pos[x] = s.pos[x]
      /\ \A x \in DOMAIN s.awards : x \in DOMAIN s2.awards /\ s2.awards[x] = s.awards[x]
    BY DEF Awarded, NewRow
<1>6. NamedQuotes(s2, t, decided)
    BY <1>1, <1>2, <1>3 DEF NamedQuotes, QuotesOf
<1>7. NamedOrders(s2, t, decided, gone)
  <2> SUFFICES ASSUME NEW n \in decided, s2.rfqs[t[n].rfq].pr \notin gone
               PROVE  /\ t[n].status \in Favourable
                      /\ t[n].result \in DOMAIN s2.pos
                      /\ s2.pos[t[n].result].rfq = t[n].rfq
                      /\ s2.awards[s2.pos[t[n].result].award].quote = t[n].quote
    BY ZenonT(60) DEF NamedOrders
  <2>1. t[n].rfq \in DOMAIN s.rfqs
    BY <1>1 DEF NamedQuotes, QuotesOf, Referring
  <2>2. /\ s.rfqs[t[n].rfq].pr \notin gone
        /\ t[n].status \in Favourable /\ t[n].result \in DOMAIN s.pos
        /\ s.pos[t[n].result].rfq = t[n].rfq
        /\ s.awards[s.pos[t[n].result].award].quote = t[n].quote
    BY ZenonT(60), <2>1, <1>1, <1>4 DEF NamedOrders
  <2>3. s.pos[t[n].result].pr \notin gone
    BY ZenonT(60), <2>2, <1>1 DEF Referring
  <2>4. s.pos[t[n].result].award \in DOMAIN s.awards
    BY ZenonT(60), <2>2, <2>3, <1>1 DEF TracedOrders
  <2> QED
    BY ZenonT(60), <2>2, <2>4, <1>5
<1>8. \A n \in decided : t[n].result # s.counter.po + 1
    BY <1>2, <1>3
<1> QED
    BY <1>6, <1>7, <1>8

\* The awards of each quote after an award of q.
LEMMA AwardedSets ==
    ASSUME NEW s, NEW s2, NEW r \in DOMAIN s.rfqs, NEW q \in QuotesOf(s, r),
           GoodStore(s), Awarded(s, s2, r, q)
    PROVE  /\ \A x : x # q => AwardsIn(s2, x) = AwardsIn(s, x)
           /\ Cardinality(AwardsIn(s2, q)) = Cardinality(AwardsIn(s, q)) + 1
<1> DEFINE a == s.counter.award + 1
           row == [rfq |-> r, pr |-> s.rfqs[r].pr, quote |-> q]
<1>1. NewRow(s.awards, s2.awards, a, row) /\ row.quote = q
    BY DEF Awarded
<1> HIDE DEF a, row
<1>2. \A x : x # q => AwardsIn(s2, x) = AwardsIn(s, x)
    BY <1>1 DEF AwardsIn, NewRow
<1>3. AwardsIn(s2, q) = AwardsIn(s, q) \cup {a} /\ a \notin AwardsIn(s, q)
    BY <1>1 DEF AwardsIn, NewRow
<1> QED
    BY SMTT(60), <1>2, <1>3, AwardsFinite, FS_AddElement

\* An order that needs no approval is for less than the threshold.
LEMMA ConsistentAward ==
    ASSUME NEW s, NEW s2, NEW t, NEW decided, NEW gone,
           NEW r \in DOMAIN s.rfqs, NEW q \in QuotesOf(s, r),
           GoodStore(s), GoodStore(s2), Awarded(s, s2, r, q), Consistent(s, t, decided, gone),
           GoodApprovals(t), ~(s.quotes[q].total >= Threshold)
    PROVE  Consistent(s2, t, decided, gone)
<1>1. TracedOrders(s2, gone)
    BY AwardTraced DEF Consistent
<1>2. NamedQuotes(s2, t, decided) /\ NamedOrders(s2, t, decided, gone)
    BY AwardKeepsDecisions
<1>3. Balanced(s2, t, decided, gone)
  <2> SUFFICES ASSUME NEW x \in DOMAIN s2.quotes, s2.rfqs[s2.quotes[x].rfq].pr \notin gone
               PROVE  /\ Cardinality(AwardsIn(s2, x)) >= Cardinality(DecidedFor(t, decided, x))
                      /\ s2.quotes[x].total >= Threshold =>
                            Cardinality(AwardsIn(s2, x)) = Cardinality(DecidedFor(t, decided, x))
    BY DEF Balanced
  <2>0. /\ s2.quotes = s.quotes
        /\ \A y \in DOMAIN s.rfqs : s2.rfqs[y].pr = s.rfqs[y].pr
    BY DEF Awarded, SetRow, GoodStore, Typed, TableOf, RowsIn, RFQ
  <2>1. /\ s2.quotes = s.quotes /\ s.quotes[x].rfq \in DOMAIN s.rfqs
        /\ s2.rfqs[s.quotes[x].rfq].pr = s.rfqs[s.quotes[x].rfq].pr
    BY ZenonT(60), <2>0 DEF GoodStore, Referring
  <2>2. /\ Cardinality(AwardsIn(s, x)) >= Cardinality(DecidedFor(t, decided, x))
        /\ s.quotes[x].total >= Threshold =>
              Cardinality(AwardsIn(s, x)) = Cardinality(DecidedFor(t, decided, x))
    BY <2>1 DEF Consistent, Balanced
  <2>3. IsFiniteSet(DecidedFor(t, decided, x))
    BY FS_Subset DEF DecidedFor, Consistent, NamedQuotes, GoodApprovals
  <2>4. /\ Cardinality(AwardsIn(s, x)) \in Nat
        /\ Cardinality(DecidedFor(t, decided, x)) \in Nat
    BY <2>3, AwardsFinite, FS_CardinalityType
  <2> QED
    BY <2>1, <2>2, <2>4, AwardedSets
<1> QED
    BY <1>1, <1>2, <1>3 DEF Consistent

\* An order taken by a decision: both are counted, and they name each other.
LEMMA ConsistentDecision ==
    ASSUME NEW s, NEW s2, NEW t, NEW t2, NEW decided, NEW gone, NEW n,
           NEW r \in DOMAIN s.rfqs, NEW q \in QuotesOf(s, r),
           GoodStore(s), GoodStore(s2), Awarded(s, s2, r, q), Consistent(s, t, decided, gone),
           GoodApprovals(t),
           n \in decided => s.rfqs[r].pr \in gone /\ t[n].quote = q,
           \A m \in decided \ {n} : m \in DOMAIN t2 /\ t2[m] = t[m],
           n \in DOMAIN t2, t2[n].kind \in AwardKinds, t2[n].rfq = r, t2[n].quote = q,
           t2[n].status \in Favourable, t2[n].result = s.counter.po + 1
    PROVE  Consistent(s2, t2, decided \cup {n}, gone)
<1>1. TracedOrders(s2, gone)
    BY AwardTraced DEF Consistent
<1>2. /\ NamedQuotes(s2, t, decided) /\ NamedOrders(s2, t, decided, gone)
      /\ \A m \in decided : t[m].result # s.counter.po + 1
    BY AwardKeepsDecisions
<1>3. /\ s2.quotes = s.quotes /\ s2.counter.po = s.counter.po + 1
      /\ s.counter.po \in Nat /\ q \in QuotesOf(s2, r)
      /\ \A x \in DOMAIN s.rfqs : s2.rfqs[x].pr = s.rfqs[x].pr
    BY SMTT(60) DEF Awarded, SetRow, GoodStore, Typed, TableOf, RowsIn, RFQ, Counters, QuotesOf
<1>4. NamedQuotes(s2, t2, decided \cup {n})
  <2>1. \A m \in decided \ {n} :
           /\ m \in DOMAIN t2 /\ t2[m].kind \in AwardKinds /\ t2[m].quote \in QuotesOf(s2, t2[m].rfq)
           /\ t2[m].result <= s2.counter.po /\ t2[m].result # t2[n].result
           /\ \A k \in decided \ {n, m} : t2[m].result # None => t2[k].result # t2[m].result
    BY <1>2 DEF NamedQuotes
  <2>2. /\ n \in DOMAIN t2 /\ t2[n].kind \in AwardKinds /\ t2[n].quote \in QuotesOf(s2, t2[n].rfq)
        /\ t2[n].result <= s2.counter.po
    BY SMTT(60), <1>3
  <2> QED
    BY <2>1, <2>2 DEF NamedQuotes
<1>5. NamedOrders(s2, t2, decided \cup {n}, gone)
  <2>1. /\ t2[n].result \in DOMAIN s2.pos
        /\ s2.pos[t2[n].result].rfq = r
        /\ s2.awards[s2.pos[t2[n].result].award].quote = q
    <3>1. PICK m, a : m = s.counter.po + 1 /\ a = s.counter.award + 1
      OBVIOUS
    <3>2. /\ m \in DOMAIN s2.pos /\ s2.pos[m].rfq = r /\ s2.pos[m].award = a
          /\ s2.awards[a].quote = q
      BY <3>1 DEF Awarded, NewRow
    <3>3. t2[n].result = m
      BY Zenon, <3>1
    <3> QED
      BY Zenon, <3>2, <3>3
  <2>2. \A m \in decided \ {n} : t2[m] = t[m]
    OBVIOUS
  <2> QED
    BY ZenonT(60), <1>2, <2>1, <2>2 DEF NamedOrders
<1>6. Balanced(s2, t2, decided \cup {n}, gone)
  <2> SUFFICES ASSUME NEW x \in DOMAIN s2.quotes, s2.rfqs[s2.quotes[x].rfq].pr \notin gone
               PROVE  LET made == Cardinality(AwardsIn(s2, x))
                          taken == Cardinality(DecidedFor(t2, decided \cup {n}, x))
                      IN  made >= taken /\ (s2.quotes[x].total >= Threshold => made = taken)
    BY DEF Balanced
  <2>1. s.quotes[x].rfq \in DOMAIN s.rfqs /\ s.rfqs[s.quotes[x].rfq].pr \notin gone
    BY <1>3 DEF GoodStore, Referring
  <2>2. /\ Cardinality(AwardsIn(s, x)) >= Cardinality(DecidedFor(t, decided, x))
        /\ s.quotes[x].total >= Threshold =>
              Cardinality(AwardsIn(s, x)) = Cardinality(DecidedFor(t, decided, x))
    BY <1>3, <2>1 DEF Consistent, Balanced
  <2>3. IsFiniteSet(DecidedFor(t, decided, x))
    BY FS_Subset DEF DecidedFor, Consistent, NamedQuotes, GoodApprovals
  <2>4. /\ Cardinality(AwardsIn(s, x)) \in Nat
        /\ Cardinality(DecidedFor(t, decided, x)) \in Nat
    BY <2>3, AwardsFinite, FS_CardinalityType
  <2>5. CASE x = q
    <3>1. n \notin decided
        BY <2>1, <2>5 DEF QuotesOf
    <3>2. /\ DecidedFor(t2, decided \cup {n}, q) = DecidedFor(t, decided, q) \cup {n}
          /\ n \notin DecidedFor(t, decided, q)
        BY <3>1 DEF DecidedFor
    <3>3. Cardinality(DecidedFor(t2, decided \cup {n}, q)) = Cardinality(DecidedFor(t, decided, q)) + 1
        BY ZenonT(60), <3>2, <2>3, <2>5, FS_AddElement
    <3>4. Cardinality(AwardsIn(s2, q)) = Cardinality(AwardsIn(s, q)) + 1
        BY AwardedSets
    <3> QED
        BY <3>3, <3>4, <2>2, <2>4, <2>5, <1>3
  <2>6. CASE x # q
    <3>1. DecidedFor(t2, decided \cup {n}, x) = DecidedFor(t, decided, x)
        BY <2>6 DEF DecidedFor
    <3>2. AwardsIn(s2, x) = AwardsIn(s, x)
        BY <2>6, AwardedSets
    <3> QED
        BY <3>1, <3>2, <2>2, <1>3
  <2> QED
    BY <2>5, <2>6
<1> QED
    BY <1>1, <1>4, <1>5, <1>6 DEF Consistent

\* Only rows of requisition p and its decisions are gone after a crash.
LEMMA ConsistentBehind ==
    ASSUME NEW s, NEW t, NEW u, NEW v, NEW p, NEW decided, NEW gone,
           GoodStore(s), GoodStore(t), Behind(s, t, p), Consistent(t, v, decided, gone),
           GoodApprovals(u), GoodApprovals(v), DOMAIN u \subseteq DOMAIN v,
           \A n \in DOMAIN u : /\ u[n].kind = v[n].kind /\ u[n].rfq = v[n].rfq
                               /\ u[n].quote = v[n].quote /\ u[n].result \in {None, v[n].result},
           \A n \in decided : t.rfqs[v[n].rfq].pr # p => n \in DOMAIN u /\ u[n] = v[n],
           \A n \in decided \cap DOMAIN u :
              u[n].quote \in DOMAIN s.quotes /\ u[n].result <= s.counter.po
    PROVE  Consistent(s, u, decided \cap DOMAIN u, gone \cup {p})
<1> DEFINE left == decided \cap DOMAIN u
           all == gone \cup {p}
<1>1. Referring(s) /\ Referring(t)
    BY DEF GoodStore
<1>2. /\ TracedOrders(t, gone) /\ NamedQuotes(t, v, decided) /\ NamedOrders(t, v, decided, gone)
      /\ Balanced(t, v, decided, gone)
    BY DEF Consistent
<1>3. /\ \A x \in DOMAIN s.rfqs : x \in DOMAIN t.rfqs /\ s.rfqs[x].pr = t.rfqs[x].pr
      /\ \A x \in DOMAIN s.quotes : x \in DOMAIN t.quotes /\ s.quotes[x] = t.quotes[x]
      /\ \A x \in DOMAIN s.awards : x \in DOMAIN t.awards /\ s.awards[x] = t.awards[x]
      /\ \A x \in DOMAIN s.pos : x \in DOMAIN t.pos /\ s.pos[x] = t.pos[x]
    BY DEF Behind
<1>4. /\ \A x \in DOMAIN t.prs \ {p} : x \in DOMAIN s.prs /\ s.prs[x] = t.prs[x]
      /\ \A x \in DOMAIN t.rfqs : t.rfqs[x].pr # p => x \in DOMAIN s.rfqs /\ s.rfqs[x] = t.rfqs[x]
      /\ \A x \in DOMAIN t.awards : t.awards[x].pr # p => x \in DOMAIN s.awards
      /\ \A x \in DOMAIN t.pos : t.pos[x].pr # p => x \in DOMAIN s.pos
    BY DEF Behind
<1>10. \A x \in DOMAIN t.pos : t.rfqs[t.pos[x].rfq].pr = t.pos[x].pr
    BY ZenonT(60), <1>1 DEF Referring
<1>5. TracedOrders(s, all)
  <2> SUFFICES ASSUME NEW n \in DOMAIN s.pos, s.pos[n].pr \notin all
               PROVE  LET po == s.pos[n]
                          aw == s.awards[po.award]
                          pr == s.prs[po.pr]
                      IN  /\ po.award \in DOMAIN s.awards
                          /\ aw.rfq = po.rfq /\ aw.pr = po.pr
                          /\ s.rfqs[po.rfq].status = "awarded"
                          /\ s.quotes[aw.quote].vendor = po.vendor
                          /\ s.quotes[aw.quote].total = po.value
                          /\ pr.po >= n /\ pr.po \in DOMAIN s.pos
                          /\ s.pos[pr.po].award = pr.award /\ s.pos[pr.po].pr = po.pr
    BY ZenonT(60) DEF TracedOrders
  <2> DEFINE po == t.pos[n]
             aw == t.awards[po.award]
             pr == t.prs[po.pr]
  <2>1. n \in DOMAIN t.pos /\ s.pos[n] = po /\ po.pr \notin gone /\ po.pr # p
    BY <1>3
  <2>2. /\ po.award \in DOMAIN t.awards
        /\ aw.rfq = po.rfq /\ aw.pr = po.pr
        /\ t.rfqs[po.rfq].status = "awarded"
        /\ t.quotes[aw.quote].vendor = po.vendor /\ t.quotes[aw.quote].total = po.value
        /\ pr.po >= n /\ pr.po \in DOMAIN t.pos
        /\ t.pos[pr.po].award = pr.award /\ t.pos[pr.po].pr = po.pr
    BY ZenonT(60), <2>1, <1>2 DEF TracedOrders
  <2>3. po.rfq \in DOMAIN t.rfqs /\ t.rfqs[po.rfq].pr = po.pr /\ po.pr \in DOMAIN t.prs
    BY ZenonT(60), <2>1, <1>1 DEF Referring
  <2>4. po.award \in DOMAIN s.awards /\ s.awards[po.award] = aw
    BY ZenonT(60), <2>1, <2>2, <1>3, <1>4
  <2>5. s.rfqs[po.rfq] = t.rfqs[po.rfq] /\ s.prs[po.pr] = pr
    BY ZenonT(60), <2>1, <2>3, <1>4
  <2>6. aw.quote \in DOMAIN s.quotes
    BY ZenonT(60), <2>4, <1>1 DEF Referring
  <2>7. pr.po \in DOMAIN s.pos
    BY ZenonT(60), <2>1, <2>2, <1>4
  <2>8. s.quotes[aw.quote] = t.quotes[aw.quote] /\ s.pos[pr.po] = t.pos[pr.po]
    BY ZenonT(60), <2>6, <2>7, <1>3
  <2> HIDE DEF pr, aw
  <2>9. /\ s.pos[n].award \in DOMAIN s.awards
        /\ s.awards[s.pos[n].award] = aw
        /\ s.prs[s.pos[n].pr] = pr
    BY <2>1, <2>4, <2>5
  <2> HIDE DEF po
  <2> QED
    BY ZenonT(60), <2>1, <2>2, <2>5, <2>7, <2>8, <2>9
<1>6. \A n \in left : n \in decided /\ n \in DOMAIN u /\ u[n].kind = v[n].kind
                      /\ u[n].rfq = v[n].rfq /\ u[n].quote = v[n].quote
                      /\ u[n].result \in {None, v[n].result}
                      /\ u[n].quote \in DOMAIN s.quotes /\ u[n].result <= s.counter.po
    OBVIOUS
<1>7. NamedQuotes(s, u, left)
    BY SMTT(60), <1>2, <1>3, <1>6 DEF NamedQuotes, QuotesOf
<1>8. NamedOrders(s, u, left, all)
  <2> SUFFICES ASSUME NEW n \in left, s.rfqs[u[n].rfq].pr \notin all
               PROVE  /\ u[n].status \in Favourable
                      /\ u[n].result \in DOMAIN s.pos
                      /\ s.pos[u[n].result].rfq = u[n].rfq
                      /\ s.awards[s.pos[u[n].result].award].quote = u[n].quote
    BY DEF NamedOrders
  <2>1. u[n].rfq \in DOMAIN s.rfqs
    BY <1>1, <1>7 DEF NamedQuotes, QuotesOf, Referring
  <2>2. t.rfqs[v[n].rfq].pr \notin gone /\ t.rfqs[v[n].rfq].pr # p
    BY <2>1, <1>3, <1>6
  <2>3. u[n] = v[n]
    BY ZenonT(60), <2>2
  <2>4. /\ v[n].status \in Favourable /\ v[n].result \in DOMAIN t.pos
        /\ t.pos[v[n].result].rfq = v[n].rfq
        /\ t.awards[t.pos[v[n].result].award].quote = v[n].quote
    BY ZenonT(60), <2>2, <1>2 DEF NamedOrders
  <2>5. t.pos[v[n].result].pr \notin gone /\ t.pos[v[n].result].pr # p
    BY ZenonT(60), <2>2, <2>4, <1>10
  <2>6. v[n].result \in DOMAIN s.pos /\ s.pos[v[n].result] = t.pos[v[n].result]
    BY ZenonT(60), <2>4, <2>5, <1>3, <1>4
  <2>7. t.pos[v[n].result].award \in DOMAIN s.awards
    BY ZenonT(60), <2>4, <2>5, <1>2, <1>4 DEF TracedOrders
  <2>8. PICK w, po : w = v[n] /\ po = t.pos[w.result]
    OBVIOUS
  <2>9. /\ w.status \in Favourable /\ w.result \in DOMAIN s.pos /\ s.pos[w.result] = po
        /\ po.rfq = w.rfq /\ t.awards[po.award].quote = w.quote
        /\ po.award \in DOMAIN s.awards
    BY Zenon, <2>4, <2>6, <2>7, <2>8
  <2>10. s.awards[po.award] = t.awards[po.award]
    BY <2>9, <1>3
  <2> QED
    BY Zenon, <2>3, <2>8, <2>9, <2>10
<1>9. Balanced(s, u, left, all)
  <2> SUFFICES ASSUME NEW q \in DOMAIN s.quotes, s.rfqs[s.quotes[q].rfq].pr \notin all
               PROVE  /\ AwardsIn(s, q) = AwardsIn(t, q)
                      /\ DecidedFor(u, left, q) = DecidedFor(v, decided, q)
                      /\ q \in DOMAIN t.quotes /\ s.quotes[q] = t.quotes[q]
                      /\ t.rfqs[t.quotes[q].rfq].pr \notin gone
    <3> HIDE DEF left
    <3> QED
      BY <1>2 DEF Balanced
  <2>1. /\ q \in DOMAIN t.quotes /\ s.quotes[q] = t.quotes[q]
        /\ t.rfqs[t.quotes[q].rfq].pr \notin gone /\ t.rfqs[t.quotes[q].rfq].pr # p
    BY <1>1, <1>3 DEF Referring
  <2>2. AwardsIn(s, q) = AwardsIn(t, q)
    <3>1. \A a \in DOMAIN t.awards : t.awards[a].quote = q => t.awards[a].pr # p
        BY <2>1, <1>1 DEF Referring
    <3> QED
        BY SMTT(60), <3>1, <1>3, <1>4 DEF AwardsIn
  <2>3. \A n \in decided : v[n].quote = q => n \in DOMAIN u
    BY <2>1, <1>2 DEF NamedQuotes, QuotesOf
  <2>4. DecidedFor(u, left, q) = DecidedFor(v, decided, q)
    BY <2>3, <1>6 DEF DecidedFor
  <2> QED
    BY <2>1, <2>2, <2>4
<1> QED
    BY <1>5, <1>7, <1>8, <1>9 DEF Consistent

-----------------------------------------------------------------------------
(* The steps a handler has left, and the approvals it writes                 *)

\* The five steps of a handler that flushes twice.
LEMMA FiveSteps == FlushCloseFlush = <<"apr", "src", "close", "apr", "src">>
<1> DEFINE S == {"apr", "src", "close"}
           t == Flush
           u == <<"close">>
           three == <<"apr", "src", "close">>
           five == <<"apr", "src", "close", "apr", "src">>
<1>1. /\ t \in Seq(S) /\ Len(t) = 2 /\ t = <<"apr", "src">>
      /\ u \in Seq(S) /\ Len(u) = 1 /\ u = <<"close">>
      /\ three \in Seq(S) /\ Len(three) = 3
      /\ five \in Seq(S) /\ Len(five) = 5
      /\ FlushCloseFlush = (t \o u) \o t
    BY DEF Flush, FlushCloseFlush
<1> HIDE DEF S, t, u
<1>2. t \o u = three
  <2>1. t \o u \in Seq(S) /\ Len(t \o u) = 3 /\ \A i \in 1..3 : (t \o u)[i] = IF i <= 2 THEN t[i] ELSE u[i - 2]
    BY <1>1, ConcatProperties
  <2>2. \A i \in 1..3 : (t \o u)[i] = three[i]
    BY <2>1, <1>1
  <2> QED
    BY ZenonT(60), <2>1, <2>2, <1>1, SeqEqual
<1> DEFINE v == three
<1>3. FlushCloseFlush = v \o t /\ v \in Seq(S) /\ Len(v) = 3 /\ v = three
    BY <1>1, <1>2
<1> HIDE DEF v
<1>4. v \o t \in Seq(S) /\ Len(v \o t) = 5 /\ \A i \in 1..5 : (v \o t)[i] = IF i <= 3 THEN v[i] ELSE t[i - 3]
    BY <1>1, <1>3, ConcatProperties
<1>5. \A i \in 1..5 : (v \o t)[i] = five[i]
    BY <1>1, <1>3, <1>4
<1> HIDE DEF five
<1>6. v \o t = five
    BY Zenon, <1>1, <1>4, <1>5, SeqEqual
<1> QED
    BY <1>3, <1>6 DEF five

\* What comes first, and what is left after it.
LEMMA TodoSteps ==
    /\ Head(Flush) = "apr" /\ Head(Tail(Flush)) = "src" /\ Tail(Tail(Flush)) = <<>>
    /\ Head(FlushCloseFlush) = "apr" /\ Head(Tail(FlushCloseFlush)) = "src"
    /\ Head(Tail(Tail(FlushCloseFlush))) = "close"
    /\ Tail(Tail(Tail(FlushCloseFlush))) = Flush
    /\ Len(Flush) = 2 /\ Len(Tail(Flush)) = 1 /\ Len(FlushCloseFlush) = 5
    /\ Len(Tail(FlushCloseFlush)) = 4 /\ Len(Tail(Tail(FlushCloseFlush))) = 3
<1> DEFINE c == FlushCloseFlush
<1>1. ASSUME NEW x, x = <<"apr", "src">>
      PROVE  Head(x) = "apr" /\ Tail(x) = <<"src">> /\ Len(x) = 2
    BY <1>1
<1>2. ASSUME NEW x, x = <<"src">>
      PROVE  Head(x) = "src" /\ Tail(x) = <<>> /\ Len(x) = 1
    BY <1>2
<1>3. ASSUME NEW x, x = <<"close", "apr", "src">>
      PROVE  Head(x) = "close" /\ Tail(x) = <<"apr", "src">> /\ Len(x) = 3
    BY <1>3
<1>4. ASSUME NEW x, x = <<"src", "close", "apr", "src">>
      PROVE  Head(x) = "src" /\ Tail(x) = <<"close", "apr", "src">> /\ Len(x) = 4
    BY <1>4
<1>5. ASSUME NEW x, x = <<"apr", "src", "close", "apr", "src">>
      PROVE  Head(x) = "apr" /\ Tail(x) = <<"src", "close", "apr", "src">> /\ Len(x) = 5
    BY <1>5
<1>6. Flush = <<"apr", "src">>
    BY DEF Flush
<1>7. Head(Flush) = "apr" /\ Tail(Flush) = <<"src">> /\ Len(Flush) = 2
    BY <1>1, <1>6
<1>8. Head(Tail(Flush)) = "src" /\ Tail(Tail(Flush)) = <<>> /\ Len(Tail(Flush)) = 1
    BY <1>2, <1>7
<1>9. c = <<"apr", "src", "close", "apr", "src">>
    BY FiveSteps
<1> HIDE DEF c
<1>10. Head(c) = "apr" /\ Tail(c) = <<"src", "close", "apr", "src">> /\ Len(c) = 5
    BY <1>5, <1>9
<1>11. Head(Tail(c)) = "src" /\ Tail(Tail(c)) = <<"close", "apr", "src">> /\ Len(Tail(c)) = 4
    BY <1>4, <1>10
<1>12. /\ Head(Tail(Tail(c))) = "close" /\ Tail(Tail(Tail(c))) = <<"apr", "src">>
       /\ Len(Tail(Tail(c))) = 3
    BY <1>3, <1>11
<1> QED
    BY <1>6, <1>7, <1>8, <1>10, <1>11, <1>12 DEF c

\* The steps differ, and so does what comes first.
LEMMA TodosDiffer ==
    /\ Flush \notin {<<>>, Tail(Flush), FlushCloseFlush, Tail(FlushCloseFlush),
                     Tail(Tail(FlushCloseFlush))}
    /\ Tail(Flush) \notin {<<>>, FlushCloseFlush, Tail(FlushCloseFlush),
                           Tail(Tail(FlushCloseFlush))}
    /\ FlushCloseFlush \notin {<<>>, Tail(FlushCloseFlush), Tail(Tail(FlushCloseFlush))}
    /\ Tail(FlushCloseFlush) \notin {<<>>, Tail(Tail(FlushCloseFlush))}
    /\ Tail(Tail(FlushCloseFlush)) # <<>>
<1> DEFINE f == Flush
           f1 == Tail(Flush)
           c == FlushCloseFlush
           c1 == Tail(FlushCloseFlush)
           c2 == Tail(Tail(FlushCloseFlush))
<1>1. Len(f) = 2 /\ Len(f1) = 1 /\ Len(c) = 5 /\ Len(c1) = 4 /\ Len(c2) = 3
    BY TodoSteps
<1> HIDE DEF f, f1, c, c1, c2
<1>2. \A x : Len(x) # 0 => x # <<>>
    OBVIOUS
<1>3. f # <<>> /\ f1 # <<>> /\ c # <<>> /\ c1 # <<>> /\ c2 # <<>>
    BY <1>1, <1>2
<1>4. f # f1 /\ f # c /\ f # c1 /\ f # c2 /\ f1 # c /\ f1 # c1 /\ f1 # c2
    BY <1>1
<1>5. c # c1 /\ c # c2 /\ c1 # c2
    BY <1>1
<1> QED
    BY <1>3, <1>4, <1>5 DEF f, f1, c, c1, c2

\* An approval under the next number.
LEMMA ApprovalAdded ==
    ASSUME NEW t, GoodApprovals(t), NEW row \in ApprovalRow,
           Waiting(row),
           NEW n, n = Cardinality(DOMAIN t) + 1, NEW u, u = Put(t, n, row)
    PROVE  GoodApprovals(u) /\ NewRow(t, u, n, row) /\ n \in Nat \ {0}
<1>1. IsFiniteSet(DOMAIN t) /\ Cardinality(DOMAIN t) \in Nat /\ DOMAIN t = 1..Cardinality(DOMAIN t)
    BY FS_CardinalityType DEF GoodApprovals
<1>2. n \in Nat \ {0} /\ n \notin DOMAIN t /\ DOMAIN t \cup {n} = 1..n
    BY <1>1
<1>3. u = [k \in DOMAIN u |-> u[k]] /\ NewRow(t, u, n, row)
    BY <1>2 DEF Put, NewRow
<1>4. IsFiniteSet(DOMAIN u) /\ Cardinality(DOMAIN u) = n /\ DOMAIN u = 1..n
  <2>1. DOMAIN u = DOMAIN t \cup {n}
    BY <1>3 DEF NewRow
  <2>2. IsFiniteSet(DOMAIN t \cup {n}) /\ Cardinality(DOMAIN t \cup {n}) = Cardinality(DOMAIN t) + 1
    BY <1>1, <1>2, FS_AddElement
  <2> QED
    BY <2>1, <2>2, <1>2
<1>5. RowsIn(u, ApprovalRow) /\ \A k \in DOMAIN u : Waiting(u[k])
    BY <1>3 DEF GoodApprovals, RowsIn, NewRow
<1> QED
    BY <1>2, <1>3, <1>4, <1>5 DEF GoodApprovals

\* An approval replaced.
LEMMA ApprovalSet ==
    ASSUME NEW t, GoodApprovals(t), NEW k \in DOMAIN t, NEW row \in ApprovalRow,
           Waiting(row), NEW u, u = [t EXCEPT ![k] = row]
    PROVE  GoodApprovals(u) /\ SetRow(t, u, k, row)
<1>1. u = [x \in DOMAIN t |-> IF x = k THEN row ELSE t[x]]
    OBVIOUS
<1>2. u = [x \in DOMAIN u |-> u[x]] /\ SetRow(t, u, k, row)
    BY <1>1 DEF SetRow
<1>3. RowsIn(u, ApprovalRow) /\ \A x \in DOMAIN u : Waiting(u[x])
    BY <1>2 DEF GoodApprovals, RowsIn, SetRow
<1> QED
    BY <1>2, <1>3 DEF GoodApprovals, SetRow

\* What a handler has still to record changes no decision it finds.
LEMMA ClosedAhead ==
    ASSUME JobOK, GoodApprovals(apr)
    PROVE  /\ GoodApprovals(Closed)
           /\ ApprovalsBehind(apr, Closed, job.pr)
           /\ \A k \in DOMAIN apr : k \in DOMAIN Closed /\ Closed[k].status = apr[k].status
<1>1. CASE job.todo = <<>> \/ ~ClosePending
    BY <1>1 DEF Closed, ApprovalsBehind
<1>2. CASE job.todo # <<>> /\ ClosePending
  <2>1. job # NoJob
    BY <1>2 DEF NoJob
  <2>2. job.close.kind \in {"record", "result"}
    BY <1>2, <2>1, TodosDiffer DEF JobOK, ClosePending
  <2>3. CASE job.close.kind = "record"
    <3>1. Closed = Put(apr, NextApproval, job.close.approval)
        BY <1>2, <2>3 DEF Closed
    <3>2. /\ job.close.approval \in ApprovalRow /\ job.close.approval.status # "pending"
          /\ PrOfRfq(job.close.approval.rfq) = job.pr
          /\ Waiting(job.close.approval)
        BY <2>1, <2>3 DEF JobOK, Waiting
    <3>3. GoodApprovals(Closed) /\ NewRow(apr, Closed, NextApproval, job.close.approval)
        BY <3>1, <3>2, ApprovalAdded DEF NextApproval
    <3> QED
        BY <3>2, <3>3 DEF ApprovalsBehind, NewRow
  <2>4. CASE job.close.kind = "result"
    <3> DEFINE a == job.close.approval
               row == [apr[a] EXCEPT !.result = job.close.result]
    <3>1. Closed = [apr EXCEPT ![a] = row]
        BY <1>2, <2>4 DEF Closed
    <3>2. /\ a \in DOMAIN apr /\ apr[a].status # "pending" /\ job.close.result \in Nat
          /\ apr[a].result = None /\ PrOfRfq(apr[a].rfq) = job.pr
        BY <1>2, <2>1, <2>4 DEF JobOK
    <3>3. apr[a] \in ApprovalRow
        BY <3>2 DEF GoodApprovals, RowsIn
    <3>4. /\ row \in ApprovalRow /\ row.status = apr[a].status /\ row.kind = apr[a].kind
          /\ row.rfq = apr[a].rfq /\ row.quote = apr[a].quote /\ Waiting(row)
        BY <3>2, <3>3 DEF ApprovalRow, Waiting
    <3> HIDE DEF a, row
    <3>5. GoodApprovals(Closed) /\ SetRow(apr, Closed, a, row)
        BY <3>1, <3>2, <3>4, ApprovalSet
    <3> QED
        BY <3>2, <3>4, <3>5 DEF ApprovalsBehind, SetRow
  <2> QED
    BY <2>2, <2>3, <2>4
<1> QED
    BY <1>1, <1>2

-----------------------------------------------------------------------------
(* A handler starts                                                          *)

\* What the approvals say stays, and what is new belongs to requisition p.
Grows(p) ==
    /\ \A k \in DOMAIN apr :
          /\ k \in DOMAIN apr'
          /\ apr[k].kind = apr'[k].kind /\ apr[k].rfq = apr'[k].rfq
          /\ apr[k].quote = apr'[k].quote /\ apr[k].result \in {None, apr'[k].result}
          /\ apr[k].status # "pending" => apr'[k].status # "pending"
    /\ \A k \in DOMAIN apr' :
          PrOfRfq(apr[k].rfq)' # p => k \in DOMAIN apr /\ apr[k] = apr'[k]

\* Between handlers the files and the snapshot hold what memory holds, so what
\* they miss afterwards is the handler's own rows.
LEMMA BeginKeeps ==
    ASSUME IInv, Idle, Untouched, NEW p,
           GoodStore(src'), Behind(src, src', p), GoodApprovals(apr'), JobOK', job'.pr = p,
           (job'.todo = Flush /\ job'.close.kind = "none") \/ job'.todo = FlushCloseFlush,
           Grows(p),
           ~lost => \A n \in owed' \cap DOMAIN apr' :
                       apr'[n].quote \in DOMAIN src.quotes /\ apr'[n].result <= src.counter.po,
           ~lost => Consistent(src', Closed', owed', torn)
    PROVE  IInv'
<1>1. Stores /\ JobOK /\ Lagging /\ Truthful /\ up /\ job.todo = <<>>
    BY DEF IInv, Idle
<1>2. /\ disk' = disk /\ up' = up /\ snap' = snap /\ unsaved' = unsaved
      /\ answered' = answered /\ torn' = torn /\ lost' = lost
    BY DEF Untouched
<1>3. /\ job'.todo # <<>> /\ Head(job'.todo) = "apr"
      /\ ~(Rested')
    BY TodoSteps, TodosDiffer DEF Rested
<1>4. /\ snap.phase = "reading" => snap.from = src
      /\ Whole => disk.src = src /\ disk.apr = apr
    BY <1>1 DEF Lagging, Rested
<1>5. Stores'
    BY <1>1, <1>2 DEF Stores
<1>6. Lagging'
  <2>1. Whole => ApprovalsBehind(disk.apr, apr, job.pr)'
    BY <1>2, <1>4 DEF ApprovalsBehind, Grows
  <2>2. ~lost => /\ snap.phase = "reading" => Backed(apr, snap.from)'
                 /\ ~unsaved => Backed(apr, disk.src)'
    BY <1>2, <1>4 DEF Backed, Whole
  <2>3. /\ snap.phase = "reading" => Behind(snap.from, src', p)
        /\ Whole => Behind(disk.src, src', p)
    BY <1>4
  <2> QED
    BY <1>2, <1>3, <2>1, <2>2, <2>3 DEF Lagging, Whole
<1>7. Truthful'
  <2>1. \A s : Told(s, apr) => Told(s, apr')
    BY DEF Told, Grows
  <2>2. Told(src, apr) => Told(src', apr)
    BY DEF Told, Behind
  <2>3. \A s, t : Told(s, t)' <=> Told(s, t)
    BY <1>2 DEF Told
  <2> QED
    BY <1>1, <1>2, <2>1, <2>2, <2>3 DEF Truthful
<1> QED
    BY <1>5, <1>6, <1>7 DEF IInv

\* What holds between handlers.
LEMMA IdleFacts ==
    ASSUME IInv, Idle
    PROVE  /\ GoodStore(src) /\ GoodApprovals(apr) /\ Closed = apr
           /\ ~lost => /\ Consistent(src, apr, owed, torn)
                       /\ \A n \in owed : n \in DOMAIN apr
                       /\ \A n \in owed : /\ apr[n].quote \in DOMAIN src.quotes
                                          /\ apr[n].result <= src.counter.po
           /\ \A p \in DOMAIN src.prs : p \in 0..MaxPrs
           /\ \A r \in DOMAIN src.rfqs : src.rfqs[r].pr \in DOMAIN src.prs
<1>1. GoodStore(src) /\ GoodApprovals(apr) /\ up /\ job.todo = <<>>
    BY DEF IInv, Stores, Idle
<1>2. Closed = apr
    BY <1>1 DEF Closed
<1>3. ~lost => Consistent(src, apr, owed, torn)
    BY <1>1, <1>2 DEF IInv, Truthful
<1>4. ~lost => \A n \in owed : /\ n \in DOMAIN apr
                               /\ apr[n].quote \in DOMAIN src.quotes
                               /\ apr[n].result <= src.counter.po
    BY <1>3 DEF Consistent, NamedQuotes, QuotesOf
<1>5. /\ \A p \in DOMAIN src.prs : p \in 0..MaxPrs
      /\ \A r \in DOMAIN src.rfqs : src.rfqs[r].pr \in DOMAIN src.prs
    BY <1>1, BoundsAreNat DEF GoodStore, Typed, Referring, TableOf, Counters
<1> QED
    BY <1>1, <1>2, <1>3, <1>4, <1>5

\* A job that only flushes.
LEMMA PlainJob ==
    ASSUME NEW p \in 0..MaxPrs, NEW pos \in Nat, NEW decision \in Nat,
           Begin(p, Flush, NoClose, pos, decision),
           pos # None => pos \in DOMAIN src'.pos,
           decision # None => decision \in DOMAIN apr' /\ apr'[decision].status # "pending"
    PROVE  /\ JobOK' /\ job'.pr = p /\ job'.todo = Flush /\ job'.close.kind = "none"
           /\ Closed' = apr'
<1>1. job' = [todo |-> Flush, pr |-> p, close |-> [kind |-> "none"],
              answer |-> [pos |-> pos, decision |-> decision]]
    BY DEF Begin, NoClose
<1>2. /\ job' = [todo |-> job'.todo, pr |-> job'.pr, close |-> job'.close, answer |-> job'.answer]
      /\ job'.pr = p /\ job'.todo = Flush /\ job'.close.kind = "none"
      /\ job'.answer \in Answers /\ job'.answer.pos = pos /\ job'.answer.decision = decision
    BY <1>1 DEF Answers
<1>3. job'.todo \in Todos \ {<<>>} /\ job'.todo # Tail(Flush) /\ job'.todo # Tail(FlushCloseFlush)
    BY <1>2, TodosDiffer DEF Todos
<1>4. Closed' = apr'
    BY <1>2, TodosDiffer DEF Closed, ClosePending
<1>5. JobOK'
    BY <1>2, <1>3, <1>4 DEF JobOK
<1> QED
    BY <1>2, <1>4, <1>5

\* A handler that writes only the store, and awards nothing.
LEMMA StoreBegins ==
    ASSUME IInv, Idle, Untouched, NEW p \in 0..MaxPrs,
           GoodStore(src'), Behind(src, src', p), KeepsOrders(src, src'),
           Begin(p, Flush, NoClose, None, None), UNCHANGED <<apr, owed>>
    PROVE  IInv'
<1>1. /\ JobOK' /\ job'.pr = p /\ job'.todo = Flush /\ job'.close.kind = "none"
      /\ Closed' = apr'
    BY PlainJob DEF None
<1>2. GoodApprovals(apr')
    BY IdleFacts
<1>3. /\ ~lost => \A n \in owed' \cap DOMAIN apr' :
                     apr'[n].quote \in DOMAIN src.quotes /\ apr'[n].result <= src.counter.po
      /\ ~lost => Consistent(src', Closed', owed', torn)
    BY <1>1, IdleFacts, ConsistentKeeps
<1>4. Grows(p)
    BY DEF Grows
<1> QED
    BY <1>1, <1>2, <1>3, <1>4, BeginKeeps

\* POST /api/prs.
LEMMA CreatePrKeeps ==
    ASSUME IInv, CreatePrH
    PROVE  IInv'
<1>1. Idle /\ Untouched /\ src' = CreatePr(src) /\ UNCHANGED <<apr, owed>>
    BY DEF CreatePrH
<1>2. /\ src.counter.pr < MaxPrs
      /\ Begin(src.counter.pr + 1, Flush, NoClose, None, None)
    BY DEF CreatePrH
<1>3. src.counter.pr + 1 \in 0..MaxPrs
    BY <1>1, <1>2, IdleFacts, BoundsAreNat DEF GoodStore, Typed, Counters
<1> QED
    BY <1>1, <1>2, <1>3, IdleFacts, CreatePrGood, StoreBegins

\* POST /api/rfqs.
LEMMA IssueRfqKeeps ==
    ASSUME IInv, IssueRfqH
    PROVE  IInv'
<1>1. PICK p \in DOMAIN src.prs : /\ src' = IssueRfq(src, p)
                                  /\ Begin(p, Flush, NoClose, None, None)
    BY DEF IssueRfqH
<1>2. Idle /\ Untouched /\ UNCHANGED <<apr, owed>>
    BY DEF IssueRfqH
<1> QED
    BY <1>1, <1>2, IdleFacts, IssueRfqGood, StoreBegins

\* The SAP webhook.
LEMMA ReleaseKeeps ==
    ASSUME IInv, SapReleasesPr
    PROVE  IInv'
<1>1. PICK p \in DOMAIN src.prs : /\ src' = ReleasePr(src, p)
                                  /\ Begin(p, Flush, NoClose, None, None)
    BY DEF SapReleasesPr
<1>2. Idle /\ Untouched /\ UNCHANGED <<apr, owed>>
    BY DEF SapReleasesPr
<1> QED
    BY <1>1, <1>2, IdleFacts, ReleasePrGood, StoreBegins

\* A handler that only asks for an approval.
LEMMA ApprovalBegins ==
    ASSUME IInv, Idle, Untouched, NEW p \in 0..MaxPrs, UNCHANGED <<src, owed>>,
           NEW row \in ApprovalRow, Waiting(row),
           PrOfRfq(row.rfq) = p,
           apr' = Put(apr, NextApproval, row), Begin(p, Flush, NoClose, None, None)
    PROVE  IInv'
<1>1. /\ JobOK' /\ job'.pr = p /\ job'.todo = Flush /\ job'.close.kind = "none"
      /\ Closed' = apr'
    BY PlainJob DEF None
<1>2. GoodApprovals(apr') /\ NewRow(apr, apr', NextApproval, row)
    BY IdleFacts, ApprovalAdded DEF NextApproval
<1>3. GoodStore(src') /\ Behind(src, src', p)
    BY IdleFacts, BehindSelf
<1>4. \A k \in DOMAIN apr : k \in DOMAIN apr' /\ apr'[k] = apr[k]
    BY <1>2 DEF NewRow
<1>5. \A k \in DOMAIN apr' : PrOfRfq(apr[k].rfq)' # p => k \in DOMAIN apr /\ apr[k] = apr'[k]
    BY <1>2 DEF NewRow, PrOfRfq
<1>6. ~lost => /\ \A n \in owed' \cap DOMAIN apr' :
                    apr'[n].quote \in DOMAIN src.quotes /\ apr'[n].result <= src.counter.po
               /\ Consistent(src', Closed', owed', torn)
    BY <1>1, <1>4, IdleFacts, ConsistentApprovals
<1>7. Grows(p)
    BY <1>4, <1>5 DEF Grows
<1> QED
    BY <1>1, <1>2, <1>3, <1>6, <1>7, BeginKeeps

\* A handler that awards or quotes first and records its approval afterwards.
LEMMA RecordBegins ==
    ASSUME IInv, Idle, Untouched, NEW p \in 0..MaxPrs,
           GoodStore(src'), Behind(src, src', p), apr' = apr,
           NEW row \in ApprovalRow, row.status = "auto_approved",
           row.rfq \in DOMAIN src'.rfqs, src'.rfqs[row.rfq].pr = p,
           NEW pos \in Nat, pos # None => pos \in DOMAIN src'.pos,
           Begin(p, FlushCloseFlush, [kind |-> "record", approval |-> row], pos, NextApproval),
           owed' \subseteq owed \cup {NextApproval},
           ~lost => Consistent(src', Put(apr, NextApproval, row), owed', torn)
    PROVE  IInv'
<1> DEFINE n == NextApproval
           after == Put(apr, n, row)
<1>1. /\ job' = [todo |-> FlushCloseFlush, pr |-> p, close |-> [kind |-> "record", approval |-> row],
                 answer |-> [pos |-> pos, decision |-> n]]
    BY DEF Begin
<1>2. GoodApprovals(apr) /\ GoodApprovals(after) /\ NewRow(apr, after, n, row) /\ n \in Nat \ {0}
    BY IdleFacts, ApprovalAdded DEF NextApproval, Waiting
<1>3. /\ job' = [todo |-> job'.todo, pr |-> job'.pr, close |-> job'.close, answer |-> job'.answer]
      /\ job'.pr = p /\ job'.todo = FlushCloseFlush
      /\ job'.close.kind = "record" /\ job'.close.approval = row
      /\ job'.answer \in Answers /\ job'.answer.pos = pos /\ job'.answer.decision = n
    BY <1>1, <1>2 DEF Answers
<1>4. job'.todo \in Todos \ {<<>>} /\ job'.todo # Tail(Flush) /\ job'.todo # Tail(FlushCloseFlush)
    BY <1>3, TodosDiffer DEF Todos
<1>5. Closed' = after
  <2>1. NextApproval' = n
    BY DEF NextApproval
  <2>2. job'.todo # <<>> /\ ClosePending'
    BY <1>3, TodosDiffer DEF ClosePending
  <2> QED
    BY <2>1, <2>2, <1>3 DEF Closed
<1>6. JobOK'
  <2>1. n \in DOMAIN Closed' /\ Closed'[n].status # "pending"
    BY <1>2, <1>5 DEF NewRow
  <2> HIDE DEF n
  <2>2. (PrOfRfq(job.close.approval.rfq) = job.pr)'
    BY <1>3 DEF PrOfRfq
  <2> QED
    BY <2>1, <2>2, <1>3, <1>4 DEF JobOK
<1>7. ~lost => \A m \in owed' \cap DOMAIN apr' :
                  apr'[m].quote \in DOMAIN src.quotes /\ apr'[m].result <= src.counter.po
    BY <1>2, IdleFacts DEF NewRow
<1>8. Grows(p)
    BY DEF Grows
<1> QED
    BY <1>2, <1>3, <1>5, <1>6, <1>7, <1>8, BeginKeeps

\* POST /api/rfqs/{rfq_no}/quotes.
LEMMA QuoteKeeps ==
    ASSUME IInv, NEW role \in Roles, NEW r \in DOMAIN src.rfqs, NEW vendor \in Vendors,
           NEW total \in Totals, QuoteH(role, r, vendor, total)
    PROVE  IInv'
<1> DEFINE p == src.rfqs[r].pr
           q == NextNo(src, "quote")
           made == AddQuote(src, r, vendor, total)
           row(status, result) ==
               Approval("quote_above_budget", r, None, vendor, total, status, result)
<1>1. Idle /\ Untouched /\ UNCHANGED owed
    BY DEF QuoteH
<1>2. /\ p \in DOMAIN src.prs /\ p \in 0..MaxPrs /\ PrOfRfq(r) = p
      /\ GoodStore(src) /\ GoodApprovals(apr) /\ r \in Nat /\ q \in Nat
    BY <1>1, IdleFacts DEF PrOfRfq, GoodStore, Typed, Counters, TableOf, NextNo
<1>3. total \in Nat
    BY AmountsAreNat
<1>4. GoodStore(made) /\ Behind(src, made, p) /\ KeepsOrders(src, made)
    BY <1>2, <1>3, AddQuoteGood
<1>5. /\ \A result \in Nat : row("auto_approved", result) \in ApprovalRow
      /\ row("pending", None) \in ApprovalRow /\ Waiting(row("pending", None))
    BY <1>2, <1>3 DEF Approval, ApprovalRow, None, Waiting
<1>6. \A status, result : /\ row(status, result).status = status
                          /\ row(status, result).result = result
                          /\ row(status, result).rfq = r
    BY DEF Approval
<1>7. \/ src' = made /\ Begin(p, Flush, NoClose, None, None) /\ UNCHANGED apr
      \/ /\ src' = made
         /\ Begin(p, FlushCloseFlush,
                  [kind |-> "record", approval |-> row("auto_approved", q)], None, NextApproval)
         /\ UNCHANGED apr
      \/ /\ apr' = Put(apr, NextApproval, row("pending", None))
         /\ Begin(p, Flush, NoClose, None, None)
         /\ UNCHANGED src
    BY DEF QuoteH
<1> HIDE DEF made, p, q, row
<1>8. CASE src' = made /\ Begin(p, Flush, NoClose, None, None) /\ UNCHANGED apr
    BY <1>1, <1>2, <1>4, <1>8, StoreBegins
<1>9. CASE /\ src' = made
           /\ Begin(p, FlushCloseFlush,
                    [kind |-> "record", approval |-> row("auto_approved", q)], None, NextApproval)
           /\ UNCHANGED apr
  <2> DEFINE new == row("auto_approved", q)
             after == Put(apr, NextApproval, new)
  <2>1. new \in ApprovalRow /\ new.status = "auto_approved" /\ new.rfq = r
    BY <1>2, <1>5, <1>6
  <2> HIDE DEF new
  <2>2. new.rfq \in DOMAIN src'.rfqs /\ src'.rfqs[new.rfq].pr = p
    BY <2>1, <1>4, <1>9 DEF KeepsOrders, p
  <2>3. NewRow(apr, after, NextApproval, new)
    BY <1>2, <2>1, ApprovalAdded DEF NextApproval, Waiting
  <2>4. ~lost => Consistent(src', apr, owed', torn)
    BY <1>1, <1>2, <1>4, <1>9, IdleFacts, ConsistentKeeps
  <2>5. ~lost => Consistent(src', after, owed', torn)
    BY <2>3, <2>4, <1>1, IdleFacts, ConsistentApprovals DEF NewRow
  <2>6. None \in Nat /\ owed' \subseteq owed \cup {NextApproval}
    BY <1>1 DEF None
  <2>7. Begin(p, FlushCloseFlush, [kind |-> "record", approval |-> new], None, NextApproval)
    BY <1>9 DEF new
  <2>8. GoodStore(src') /\ Behind(src, src', p) /\ apr' = apr
    BY <1>4, <1>9
  <2> QED
    BY <1>1, <1>2, <2>1, <2>2, <2>5, <2>6, <2>7, <2>8, RecordBegins
<1>10. CASE /\ apr' = Put(apr, NextApproval, row("pending", None))
            /\ Begin(p, Flush, NoClose, None, None)
            /\ UNCHANGED src
    BY <1>1, <1>2, <1>5, <1>6, <1>10, ApprovalBegins
<1> QED
    BY <1>7, <1>8, <1>9, <1>10

\* POST /api/rfqs/{rfq_no}/award.
LEMMA AwardKeeps ==
    ASSUME IInv, NEW role \in Roles, NEW r \in DOMAIN src.rfqs, NEW q \in 1..MaxQuotes,
           NEW winner, AwardH(role, r, q, winner)
    PROVE  IInv'
<1> DEFINE p == src.rfqs[r].pr
           kind == Gate(r, q, winner)
           known == q \in QuotesOf(src, r)
           made == Award(src, r, q)
           po == PoForAward(made, made.counter.award)
           n == NextApproval
           row(status, result) == Approval(kind, r, q, None, AwardValue(r, q), status, result)
           asked == Approval(kind, r, q, None, AwardValue(r, q), "pending", None)
<1>1. Idle /\ Untouched
    BY DEF AwardH
<1>2. /\ p \in DOMAIN src.prs /\ p \in 0..MaxPrs /\ PrOfRfq(r) = p
      /\ GoodStore(src) /\ GoodApprovals(apr) /\ r \in Nat /\ q \in Nat
      /\ src.counter.po \in Nat
    BY <1>1, IdleFacts, BoundsAreNat DEF PrOfRfq, GoodStore, Typed, Counters, TableOf
<1>3. AwardValue(r, q) \in Nat
    BY <1>2 DEF AwardValue, QuotesOf, GoodStore, Typed, TableOf, RowsIn, Quote
<1>4. kind # "none" => kind \in AwardKinds
    BY DEF Gate, AwardKinds
<1>5. known /\ kind = "none" => ~(src.quotes[q].total >= Threshold)
    BY DEF Gate, AwardValue
<1>6. kind # "none" =>
         /\ \A result \in Nat : row("auto_approved", result) \in ApprovalRow
         /\ row("pending", None) \in ApprovalRow
    BY <1>2, <1>3, <1>4 DEF Approval, ApprovalRow, None
<1>7. \A status, result : /\ row(status, result).status = status
                          /\ row(status, result).result = result
                          /\ row(status, result).rfq = r
                          /\ row(status, result).quote = q
                          /\ row(status, result).kind = kind
    BY DEF Approval
<1>8. /\ asked = row("pending", None)
      /\ [asked EXCEPT !.status = "auto_approved"] = row("auto_approved", None)
      /\ [asked EXCEPT !.status = "auto_approved", !.result = po] = row("auto_approved", po)
  <2> HIDE DEF kind, po
  <2> DEFINE a == asked
             b == [a EXCEPT !.status = "auto_approved"]
             c == [a EXCEPT !.status = "auto_approved", !.result = po]
  <2>1. /\ a = Approval(kind, r, q, None, AwardValue(r, q), "pending", None)
        /\ b = [a EXCEPT !.status = "auto_approved"]
        /\ c = [a EXCEPT !.status = "auto_approved", !.result = po]
    OBVIOUS
  <2> HIDE DEF a, b, c
  <2>2. \A x \in {b, c} :
          /\ x = [f \in DOMAIN x |-> x[f]]
          /\ DOMAIN x = {"kind", "rfq", "quote", "vendor", "total", "status", "result"}
          /\ x.kind = kind /\ x.rfq = r /\ x.quote = q /\ x.vendor = None
          /\ x.total = AwardValue(r, q) /\ x.status = "auto_approved"
    BY <2>1 DEF Approval
  <2>3. b.result = None /\ c.result = po
    BY <2>1 DEF Approval
  <2>4. b = row("auto_approved", None) /\ c = row("auto_approved", po)
    BY <2>2, <2>3 DEF Approval
  <2> QED
    BY <2>1, <2>4 DEF a, b, c
<1>9. known => /\ GoodStore(made) /\ Behind(src, made, p) /\ Awarded(src, made, r, q)
               /\ po = src.counter.po + 1
    BY <1>2, AwardGood
<1>10. \/ /\ kind = "none" /\ known /\ src' = made /\ Begin(p, Flush, NoClose, po, None)
          /\ UNCHANGED <<apr, owed>>
       \/ /\ kind # "none" /\ known /\ src' = made /\ owed' = owed \cup {n}
          /\ Begin(p, FlushCloseFlush,
                   [kind |-> "record", approval |-> row("auto_approved", po)], po, n)
          /\ UNCHANGED apr
       \/ /\ kind # "none" /\ apr' = Put(apr, n, row("auto_approved", None))
          /\ Begin(p, Flush, NoClose, None, None)
          /\ UNCHANGED <<src, owed>>
       \/ /\ kind # "none" /\ apr' = Put(apr, n, row("pending", None))
          /\ Begin(p, Flush, NoClose, None, None)
          /\ UNCHANGED <<src, owed>>
  <2> HIDE DEF row
  <2>1. \/ /\ kind = "none" /\ known /\ src' = made /\ Begin(p, Flush, NoClose, po, None)
           /\ UNCHANGED <<apr, owed>>
        \/ /\ kind # "none" /\ known /\ src' = made /\ owed' = owed \cup {n}
           /\ Begin(p, FlushCloseFlush,
                    [kind |-> "record",
                     approval |-> [asked EXCEPT !.status = "auto_approved", !.result = po]], po, n)
           /\ UNCHANGED apr
        \/ /\ kind # "none" /\ apr' = Put(apr, n, [asked EXCEPT !.status = "auto_approved"])
           /\ Begin(p, Flush, NoClose, None, None)
           /\ UNCHANGED <<src, owed>>
        \/ /\ kind # "none" /\ apr' = Put(apr, n, asked)
           /\ Begin(p, Flush, NoClose, None, None)
           /\ UNCHANGED <<src, owed>>
    BY DEF AwardH
  <2> QED
    BY <2>1, <1>8
<1>11. p = src.rfqs[r].pr /\ (known => q \in QuotesOf(src, r)) /\ n = NextApproval
    OBVIOUS
<1> HIDE DEF made, p, row, kind, known, po, n
<1>12. CASE /\ kind = "none" /\ known /\ src' = made /\ Begin(p, Flush, NoClose, po, None)
            /\ UNCHANGED <<apr, owed>>
  <2>1. po \in Nat /\ None \in Nat /\ po \in DOMAIN src'.pos
    BY <1>2, <1>9, <1>12 DEF None, Awarded, NewRow
  <2>2. /\ JobOK' /\ job'.pr = p /\ job'.todo = Flush /\ job'.close.kind = "none"
        /\ Closed' = apr'
    BY <2>1, <1>2, <1>12, PlainJob
  <2>3. GoodStore(src') /\ Behind(src, src', p) /\ GoodApprovals(apr')
    BY <1>2, <1>9, <1>12
  <2>4. ~lost => Consistent(src', apr, owed, torn)
    BY <1>1, <1>2, <1>5, <1>9, <1>11, <1>12, IdleFacts, ConsistentAward
  <2>5. ~lost => \A m \in owed' \cap DOMAIN apr' :
                    apr'[m].quote \in DOMAIN src.quotes /\ apr'[m].result <= src.counter.po
    BY <1>1, <1>12, IdleFacts
  <2>6. Grows(p)
    BY <1>12 DEF Grows
  <2> QED
    BY <2>2, <2>3, <2>4, <2>5, <2>6, <1>1, <1>12, BeginKeeps
<1>13. CASE /\ kind # "none" /\ known /\ src' = made /\ owed' = owed \cup {n}
            /\ Begin(p, FlushCloseFlush,
                     [kind |-> "record", approval |-> row("auto_approved", po)], po, n)
            /\ UNCHANGED apr
  <2> DEFINE new == row("auto_approved", po)
             after == Put(apr, n, new)
  <2>1. po \in Nat /\ po \in DOMAIN src'.pos
    BY <1>2, <1>9, <1>13 DEF Awarded, NewRow
  <2>2. /\ new \in ApprovalRow /\ new.status = "auto_approved" /\ new.rfq = r
        /\ new.quote = q /\ new.kind \in AwardKinds /\ new.result = src.counter.po + 1
    BY <2>1, <1>4, <1>6, <1>7, <1>9, <1>13
  <2>3. Begin(p, FlushCloseFlush, [kind |-> "record", approval |-> new], po, NextApproval)
    BY <1>11, <1>13
  <2> HIDE DEF new
  <2>4. NewRow(apr, after, n, new)
    BY <1>2, <1>11, <2>2, ApprovalAdded DEF NextApproval, Waiting
  <2>5. new.rfq \in DOMAIN src'.rfqs /\ src'.rfqs[new.rfq].pr = p
    BY <2>2, <1>2, <1>9, <1>11, <1>13 DEF Awarded, SetRow, GoodStore, Typed, TableOf, RowsIn, RFQ
  <2>6. ~lost => Consistent(src', after, owed', torn)
    <3>1. GoodStore(src') /\ Awarded(src, src', r, q) /\ q \in QuotesOf(src, r)
        BY <1>9, <1>11, <1>13
    <3>2. ~lost => Consistent(src, apr, owed, torn) /\ \A m \in owed : m \in DOMAIN apr
        BY <1>1, IdleFacts
    <3>3. n \in DOMAIN after /\ after[n] = new /\ n \notin DOMAIN apr
          /\ \A m \in DOMAIN apr : m \in DOMAIN after /\ after[m] = apr[m]
        BY <2>4 DEF NewRow
    <3>4. new.status \in Favourable
        BY <2>2 DEF Favourable
    <3> HIDE DEF after
    <3>5. ~lost => Consistent(src', after, owed \cup {n}, torn)
        BY <3>1, <3>2, <3>3, <3>4, <2>2, <1>2, ConsistentDecision
    <3> QED
        BY <3>5, <1>13
  <2>7. GoodStore(src') /\ Behind(src, src', p) /\ apr' = apr
    BY <1>9, <1>13
  <2>8. owed' \subseteq owed \cup {NextApproval} /\ (~lost => Consistent(src', Put(apr, NextApproval, new), owed', torn))
    BY <1>11, <1>13, <2>6
  <2> HIDE DEF after
  <2> QED
    BY <1>1, <1>2, <2>1, <2>2, <2>3, <2>5, <2>7, <2>8, RecordBegins
<1>14. CASE /\ kind # "none" /\ apr' = Put(apr, n, row("auto_approved", None))
            /\ Begin(p, Flush, NoClose, None, None)
            /\ UNCHANGED <<src, owed>>
  <2> DEFINE new == row("auto_approved", None)
  <2>1. new \in ApprovalRow /\ Waiting(new) /\ new.rfq = r
    BY <1>6, <1>7, <1>14 DEF None, Waiting
  <2> HIDE DEF new
  <2>2. apr' = Put(apr, NextApproval, new)
    BY <1>11, <1>14 DEF new
  <2> QED
    BY <1>1, <1>2, <1>14, <2>1, <2>2, ApprovalBegins
<1>15. CASE /\ kind # "none" /\ apr' = Put(apr, n, row("pending", None))
            /\ Begin(p, Flush, NoClose, None, None)
            /\ UNCHANGED <<src, owed>>
  <2> DEFINE new == row("pending", None)
  <2>1. new \in ApprovalRow /\ Waiting(new) /\ new.rfq = r
    BY <1>4, <1>6, <1>7, <1>15 DEF Waiting, AwardKinds
  <2> HIDE DEF new
  <2>2. apr' = Put(apr, NextApproval, new)
    BY <1>11, <1>15 DEF new
  <2> QED
    BY <1>1, <1>2, <1>15, <2>1, <2>2, ApprovalBegins
<1> QED
    BY <1>10, <1>12, <1>13, <1>14, <1>15

\* A committer that answers with a number did its work.
LEMMA CommittedDid ==
    ASSUME NEW a \in DOMAIN apr, Committed(a).result # None
    PROVE  LET row == apr[a]
               made == Award(src, row.rfq, row.quote)
           IN  /\ row.rfq \in DOMAIN src.rfqs
               /\ \/ /\ row.kind = "quote_above_budget"
                     /\ Committed(a).src = AddQuote(src, row.rfq, row.vendor, row.total)
                     /\ Committed(a).result = NextNo(src, "quote")
                  \/ /\ row.kind \in AwardKinds
                     /\ row.quote \in QuotesOf(src, row.rfq)
                     /\ Committed(a).src = made
                     /\ Committed(a).result = PoForAward(made, made.counter.award)
<1> DEFINE row == apr[a]
           made == Award(src, row.rfq, row.quote)
           nothing == [src |-> src, result |-> None]
           quoted == [src |-> AddQuote(src, row.rfq, row.vendor, row.total),
                      result |-> NextNo(src, "quote")]
           awarded == [src |-> made, result |-> PoForAward(made, made.counter.award)]
<1> HIDE DEF nothing, quoted, awarded
<1>1. row.kind = "quote_above_budget" => row.kind \notin AwardKinds
    BY DEF AwardKinds
<1>2. Committed(a) =
         CASE row.rfq \notin DOMAIN src.rfqs -> nothing
           [] row.kind = "quote_above_budget" /\ row.rfq \in DOMAIN src.rfqs -> quoted
           [] /\ row.kind \in AwardKinds
              /\ row.rfq \in DOMAIN src.rfqs
              /\ row.quote \in QuotesOf(src, row.rfq) -> awarded
           [] OTHER -> nothing
    BY DEF Committed, nothing, quoted, awarded
<1>3. nothing.result = None
    BY DEF nothing
<1>4. row.rfq \in DOMAIN src.rfqs
    BY <1>2, <1>3
<1>5. \/ row.kind = "quote_above_budget" /\ Committed(a) = quoted
      \/ row.kind \in AwardKinds /\ row.quote \in QuotesOf(src, row.rfq) /\ Committed(a) = awarded
    BY <1>1, <1>2, <1>3, <1>4
<1> QED
    BY <1>4, <1>5 DEF quoted, awarded

\* A decision without a committer, or whose committer raises.
LEMMA StatusBegins ==
    ASSUME IInv, Idle, Untouched, UNCHANGED <<src, owed>>,
           NEW a \in DOMAIN apr, apr[a].status = "pending", NEW status \in {"approved", "rejected"},
           apr' = [apr EXCEPT ![a].status = status],
           Begin(PrOfRfq(apr[a].rfq), Flush, NoClose, None, a)
    PROVE  IInv'
<1> DEFINE p == PrOfRfq(apr[a].rfq)
           row == [apr[a] EXCEPT !.status = status]
<1>1. GoodStore(src) /\ GoodApprovals(apr) /\ apr[a] \in ApprovalRow /\ a \in Nat \ {0}
    BY IdleFacts, FS_CardinalityType DEF GoodApprovals, RowsIn
<1>2. p \in 0..MaxPrs
    BY IdleFacts, BoundsAreNat DEF PrOfRfq, None
<1>3. /\ row \in ApprovalRow /\ Waiting(row) /\ row.status = status
      /\ row.kind = apr[a].kind /\ row.rfq = apr[a].rfq /\ row.quote = apr[a].quote
      /\ row.result = apr[a].result
    BY <1>1 DEF ApprovalRow, Waiting
<1>4. apr' = [apr EXCEPT ![a] = row] /\ p = PrOfRfq(apr[a].rfq)
    OBVIOUS
<1> HIDE DEF p, row
<1>5. GoodApprovals(apr') /\ SetRow(apr, apr', a, row)
    BY <1>1, <1>3, <1>4, ApprovalSet
<1>6. /\ JobOK' /\ job'.pr = p /\ job'.todo = Flush /\ job'.close.kind = "none"
      /\ Closed' = apr'
  <2>1. None \in Nat /\ a \in Nat /\ a \in DOMAIN apr' /\ apr'[a].status # "pending"
    BY <1>1, <1>3, <1>5 DEF None, SetRow
  <2>2. Begin(p, Flush, NoClose, None, a)
    BY <1>4
  <2> QED
    BY <2>1, <2>2, <1>2, PlainJob
<1>7. GoodStore(src') /\ Behind(src, src', p)
    BY <1>1, BehindSelf
<1>8. \A k \in DOMAIN apr :
        /\ k \in DOMAIN apr'
        /\ apr'[k].kind = apr[k].kind /\ apr'[k].rfq = apr[k].rfq
        /\ apr'[k].quote = apr[k].quote /\ apr'[k].result = apr[k].result
        /\ apr[k].status # "pending" => apr'[k].status = apr[k].status
        /\ k # a => apr'[k] = apr[k]
    BY <1>3, <1>5 DEF SetRow
<1>9. \A k \in DOMAIN apr' : PrOfRfq(apr[k].rfq)' # p => k \in DOMAIN apr /\ apr[k] = apr'[k]
    BY <1>4, <1>5, <1>8 DEF SetRow, PrOfRfq
<1>10. ~lost => /\ \A n \in owed' \cap DOMAIN apr' :
                     apr'[n].quote \in DOMAIN src.quotes /\ apr'[n].result <= src.counter.po
                /\ Consistent(src', Closed', owed', torn)
  <2>1. \A n \in owed : apr[n].status \in Favourable => n # a /\ apr[n].status # "pending"
    BY DEF Favourable
  <2> QED
    BY ZenonT(60), <2>1, <1>6, <1>8, IdleFacts, ConsistentApprovals
<1>11. \A k \in DOMAIN apr :
         /\ k \in DOMAIN apr'
         /\ apr[k].kind = apr'[k].kind /\ apr[k].rfq = apr'[k].rfq
         /\ apr[k].quote = apr'[k].quote /\ apr[k].result \in {None, apr'[k].result}
         /\ apr[k].status # "pending" => apr'[k].status # "pending"
    BY <1>8
<1>12. GoodApprovals(apr') /\ JobOK' /\ job'.pr = p /\ GoodStore(src') /\ Behind(src, src', p)
    BY <1>5, <1>6, <1>7
<1>13. (job'.todo = Flush /\ job'.close.kind = "none") \/ job'.todo = FlushCloseFlush
    BY <1>6
<1>14. Grows(p)
    BY <1>9, <1>11 DEF Grows
<1> QED
    BY <1>10, <1>12, <1>13, <1>14, BeginKeeps

\* Approvals t are those in memory, but for a, which is approved with a result.
WithResult(t, a, result) ==
    /\ a \in DOMAIN t /\ t[a].kind = apr[a].kind /\ t[a].rfq = apr[a].rfq
    /\ t[a].quote = apr[a].quote /\ t[a].status = "approved" /\ t[a].result = result
    /\ \A k \in DOMAIN apr \ {a} : k \in DOMAIN t /\ t[k] = apr[k]

\* A decision whose committer did its work, and whose result comes after the flush.
LEMMA ResultBegins ==
    ASSUME IInv, Idle, Untouched, NEW p \in 0..MaxPrs,
           NEW a \in DOMAIN apr, apr[a].status = "pending",
           GoodStore(src'), Behind(src, src', p),
           apr[a].rfq \in DOMAIN src'.rfqs, src'.rfqs[apr[a].rfq].pr = p,
           apr' = [apr EXCEPT ![a].status = "approved"],
           NEW result \in Nat, NEW pos \in Nat, pos # None => pos \in DOMAIN src'.pos,
           Begin(p, FlushCloseFlush, [kind |-> "result", approval |-> a, result |-> result], pos, a),
           \/ owed' = owed
           \/ owed' = owed \cup {a} /\ apr[a].quote \in DOMAIN src.quotes,
           \A t : ~lost /\ WithResult(t, a, result) => Consistent(src', t, owed', torn)
    PROVE  IInv'
<1> DEFINE row == [apr[a] EXCEPT !.status = "approved"]
           final == [row EXCEPT !.result = result]
           after == [apr' EXCEPT ![a] = final]
<1>1. GoodStore(src) /\ GoodApprovals(apr) /\ apr[a] \in ApprovalRow /\ a \in Nat \ {0} /\ apr[a].result = None
    BY IdleFacts, FS_CardinalityType DEF GoodApprovals, RowsIn, Waiting
<1>2. /\ row \in ApprovalRow /\ Waiting(row) /\ row.status = "approved"
      /\ row.kind = apr[a].kind /\ row.rfq = apr[a].rfq /\ row.quote = apr[a].quote
      /\ row.result = None
    BY <1>1 DEF ApprovalRow, Waiting
<1>3. apr' = [apr EXCEPT ![a] = row]
    OBVIOUS
<1> HIDE DEF row
<1>4. GoodApprovals(apr') /\ SetRow(apr, apr', a, row)
    BY <1>1, <1>2, <1>3, ApprovalSet
<1>5. /\ final \in ApprovalRow /\ Waiting(final) /\ final.status = "approved"
      /\ final.kind = apr[a].kind /\ final.rfq = apr[a].rfq /\ final.quote = apr[a].quote
      /\ final.result = result
    BY <1>2 DEF ApprovalRow, Waiting
<1>6. /\ job' = [todo |-> FlushCloseFlush, pr |-> p,
                 close |-> [kind |-> "result", approval |-> a, result |-> result],
                 answer |-> [pos |-> pos, decision |-> a]]
    BY DEF Begin
<1>7. /\ job' = [todo |-> job'.todo, pr |-> job'.pr, close |-> job'.close, answer |-> job'.answer]
      /\ job'.pr = p /\ job'.todo = FlushCloseFlush
      /\ job'.close.kind = "result" /\ job'.close.approval = a /\ job'.close.result = result
      /\ job'.answer \in Answers /\ job'.answer.pos = pos /\ job'.answer.decision = a
    BY <1>1, <1>6 DEF Answers
<1>8. job'.todo \in Todos \ {<<>>} /\ job'.todo # Tail(Flush) /\ job'.todo # Tail(FlushCloseFlush)
    BY <1>7, TodosDiffer DEF Todos
<1>9. Closed' = after
  <2>1. job'.todo # <<>> /\ ClosePending'
    BY <1>7, TodosDiffer DEF ClosePending
  <2>2. Closed' = [apr' EXCEPT ![a].result = result]
    BY <2>1, <1>7 DEF Closed
  <2>3. apr'[a] = row
    BY <1>4 DEF SetRow
  <2> QED
    BY <2>2, <2>3
<1> HIDE DEF final
<1>10. GoodApprovals(after) /\ SetRow(apr', after, a, final)
  <2>1. a \in DOMAIN apr'
    BY <1>4 DEF SetRow
  <2> QED
    BY <2>1, <1>4, <1>5, ApprovalSet
<1> HIDE DEF after
<1>11. JobOK'
  <2>1. a \in DOMAIN Closed' /\ Closed'[a].status # "pending"
    BY <1>4, <1>5, <1>9, <1>10 DEF SetRow
  <2>2. /\ a \in DOMAIN apr' /\ apr'[a].status # "pending" /\ apr'[a].result = None
        /\ apr'[a].rfq = apr[a].rfq
    BY <1>2, <1>4 DEF SetRow
  <2>3. (PrOfRfq(apr[job.close.approval].rfq) = job.pr)'
    BY <2>2, <1>7 DEF PrOfRfq
  <2> QED
    BY <2>1, <2>2, <2>3, <1>7, <1>8 DEF JobOK
<1>12. \A k \in DOMAIN apr :
         /\ k \in DOMAIN apr'
         /\ apr'[k].kind = apr[k].kind /\ apr'[k].rfq = apr[k].rfq
         /\ apr'[k].quote = apr[k].quote /\ apr'[k].result = apr[k].result
         /\ apr[k].status # "pending" => apr'[k].status = apr[k].status
         /\ k # a => apr'[k] = apr[k]
    BY <1>1, <1>2, <1>4 DEF SetRow
<1>13. \A k \in DOMAIN apr' : PrOfRfq(apr[k].rfq)' # p => k \in DOMAIN apr /\ apr[k] = apr'[k]
    BY <1>2, <1>4, <1>12 DEF SetRow, PrOfRfq
<1>14. ~lost => \A n \in owed' \cap DOMAIN apr' :
                   apr'[n].quote \in DOMAIN src.quotes /\ apr'[n].result <= src.counter.po
  <2>1. src.counter.po \in Nat
    BY <1>1 DEF GoodStore, Typed, Counters
  <2>2. \A x : x = None => x <= src.counter.po
    BY <2>1 DEF None
  <2>3. apr'[a].result = None
    BY <1>2, <1>4 DEF SetRow
  <2>4. apr'[a].result <= src.counter.po
    BY <2>2, <2>3
  <2> QED
    BY <2>4, <1>12, IdleFacts
<1>15. ~lost => Consistent(src', Closed', owed', torn)
  <2>1. /\ a \in DOMAIN Closed' /\ Closed'[a] = final
        /\ \A k \in DOMAIN apr \ {a} : k \in DOMAIN Closed' /\ Closed'[k] = apr[k]
    BY <1>4, <1>9, <1>10, <1>12 DEF SetRow
  <2> DEFINE t == Closed'
  <2> HIDE DEF t
  <2>2. WithResult(t, a, result)
    BY <2>1, <1>5 DEF t, WithResult
  <2>3. ~lost => Consistent(src', t, owed', torn)
    BY <2>2
  <2> QED
    BY <2>3 DEF t
<1>16. \A k \in DOMAIN apr :
         /\ k \in DOMAIN apr'
         /\ apr[k].kind = apr'[k].kind /\ apr[k].rfq = apr'[k].rfq
         /\ apr[k].quote = apr'[k].quote /\ apr[k].result \in {None, apr'[k].result}
         /\ apr[k].status # "pending" => apr'[k].status # "pending"
    BY <1>12
<1>17. GoodStore(src') /\ Behind(src, src', p) /\ GoodApprovals(apr') /\ JobOK' /\ job'.pr = p
    BY <1>4, <1>7, <1>11
<1>18. (job'.todo = Flush /\ job'.close.kind = "none") \/ job'.todo = FlushCloseFlush
    BY <1>7
<1>19. Grows(p)
    BY <1>13, <1>16 DEF Grows
<1> QED
    BY <1>14, <1>15, <1>17, <1>18, <1>19, BeginKeeps

\* POST /api/approvals/{id}/approve and /reject.
LEMMA DecideKeeps ==
    ASSUME IInv, NEW a \in DOMAIN apr, NEW approve \in BOOLEAN, DecideH(a, approve)
    PROVE  IInv'
<1> DEFINE r == apr[a].rfq
           q == apr[a].quote
           p == src.rfqs[r].pr
           c == Committed(a)
           made == Award(src, r, q)
<1>1. Idle /\ Untouched /\ apr[a].status = "pending"
    BY DEF DecideH, MayDecide
<1>2. /\ GoodStore(src) /\ GoodApprovals(apr) /\ apr[a] \in ApprovalRow /\ Waiting(apr[a])
      /\ a \in Nat
    BY <1>1, IdleFacts, FS_CardinalityType DEF GoodApprovals, RowsIn
<1>3. \/ /\ \E status \in {"approved", "rejected"} : apr' = [apr EXCEPT ![a].status = status]
         /\ Begin(PrOfRfq(r), Flush, NoClose, None, a)
         /\ UNCHANGED <<src, owed>>
      \/ /\ c.result # None
         /\ apr' = [apr EXCEPT ![a].status = "approved"]
         /\ src' = c.src
         /\ owed' = IF apr[a].kind \in AwardKinds THEN owed \cup {a} ELSE owed
         /\ Begin(PrOfRfq(r), FlushCloseFlush,
                  [kind |-> "result", approval |-> a, result |-> c.result],
                  IF apr[a].kind \in AwardKinds THEN c.result ELSE None, a)
    BY DEF DecideH
<1>4. CASE /\ \E status \in {"approved", "rejected"} : apr' = [apr EXCEPT ![a].status = status]
           /\ Begin(PrOfRfq(r), Flush, NoClose, None, a)
           /\ UNCHANGED <<src, owed>>
    BY <1>1, <1>4, StatusBegins
<1>5. CASE /\ c.result # None
           /\ apr' = [apr EXCEPT ![a].status = "approved"]
           /\ src' = c.src
           /\ owed' = IF apr[a].kind \in AwardKinds THEN owed \cup {a} ELSE owed
           /\ Begin(PrOfRfq(r), FlushCloseFlush,
                    [kind |-> "result", approval |-> a, result |-> c.result],
                    IF apr[a].kind \in AwardKinds THEN c.result ELSE None, a)
  <2>1. /\ r \in DOMAIN src.rfqs
        /\ \/ /\ apr[a].kind = "quote_above_budget"
              /\ c.src = AddQuote(src, r, apr[a].vendor, apr[a].total)
              /\ c.result = NextNo(src, "quote")
           \/ /\ apr[a].kind \in AwardKinds /\ q \in QuotesOf(src, r)
              /\ c.src = made
              /\ c.result = PoForAward(made, made.counter.award)
    BY <1>5, CommittedDid
  <2>2. p \in 0..MaxPrs /\ PrOfRfq(r) = p
    BY <1>1, <2>1, IdleFacts DEF PrOfRfq
  <2>3. ~lost => /\ Consistent(src, apr, owed, torn)
                 /\ \A n \in owed : n \in DOMAIN apr
    BY <1>1, IdleFacts
  <2>4. CASE /\ apr[a].kind = "quote_above_budget"
             /\ c.src = AddQuote(src, r, apr[a].vendor, apr[a].total)
             /\ c.result = NextNo(src, "quote")
    <3> DEFINE t2 == AddQuote(src, r, apr[a].vendor, apr[a].total)
    <3>1. apr[a].kind \notin AwardKinds
        BY <2>4 DEF AwardKinds
    <3>2. apr[a].vendor \in Vendors /\ apr[a].total \in Nat
        BY <1>1, <1>2, <2>4 DEF Waiting, ApprovalRow
    <3>3. GoodStore(t2) /\ Behind(src, t2, p) /\ KeepsOrders(src, t2)
        BY <1>2, <2>1, <3>2, AddQuoteGood
    <3>4. src' = t2 /\ owed' = owed
        BY <1>5, <2>4, <3>1
    <3> HIDE DEF t2
    <3>5. GoodStore(src') /\ Behind(src, src', p) /\ KeepsOrders(src, src')
        BY <3>3, <3>4
    <3>6. r \in DOMAIN src'.rfqs /\ src'.rfqs[r].pr = p
        BY <2>1, <3>5 DEF KeepsOrders
    <3>7. c.result \in Nat /\ None \in Nat
        BY <1>2, <2>4 DEF NextNo, GoodStore, Typed, Counters, None
    <3>8. Begin(p, FlushCloseFlush, [kind |-> "result", approval |-> a, result |-> c.result], None, a)
        BY <1>5, <2>2, <3>1
    <3>9. ~lost => Consistent(src', apr, owed, torn)
        BY <1>2, <2>3, <3>5, ConsistentKeeps
    <3>10. ~lost => \A n \in owed : n # a /\ n \in DOMAIN apr
        BY <2>3, <3>1 DEF Consistent, NamedQuotes
    <3>11. ASSUME NEW t, ~lost, WithResult(t, a, c.result)
           PROVE  Consistent(src', t, owed', torn)
        BY <3>4, <3>9, <3>10, <3>11, ConsistentApprovals DEF WithResult
    <3> HIDE DEF c, p, q, r
    <3> QED
        BY <1>1, <1>5, <2>2, <3>4, <3>5, <3>6, <3>7, <3>8, <3>11, ResultBegins DEF r
  <2>5. CASE /\ apr[a].kind \in AwardKinds /\ q \in QuotesOf(src, r)
             /\ c.src = made
             /\ c.result = PoForAward(made, made.counter.award)
    <3>1. GoodStore(made) /\ Behind(src, made, p) /\ Awarded(src, made, r, q)
          /\ c.result = src.counter.po + 1
        BY <1>2, <2>1, <2>5, AwardGood
    <3>2. src' = made /\ owed' = owed \cup {a}
        BY <1>5, <2>5
    <3> HIDE DEF made
    <3>3. GoodStore(src') /\ Behind(src, src', p) /\ Awarded(src, src', r, q)
        BY SMTT(60), <3>1, <3>2
    <3>4. r \in DOMAIN src'.rfqs /\ src'.rfqs[r].pr = p
        BY SMTT(60), <1>2, <2>1, <3>3 DEF Awarded, SetRow, GoodStore, Typed, TableOf, RowsIn, RFQ
    <3>5. c.result \in Nat /\ c.result \in DOMAIN src'.pos
        BY <1>2, <3>1, <3>3 DEF GoodStore, Typed, Counters, Awarded, NewRow
    <3>6. Begin(p, FlushCloseFlush, [kind |-> "result", approval |-> a, result |-> c.result], c.result, a)
        BY <1>5, <2>2, <2>5
    <3>7. q \in DOMAIN src.quotes
        BY <2>5 DEF QuotesOf
    <3>8. ~lost /\ a \in owed => p \in torn
        BY <1>1, <2>3 DEF Consistent, NamedOrders, Favourable
    <3>9. ASSUME NEW t, ~lost, WithResult(t, a, c.result)
          PROVE  Consistent(src', t, owed', torn)
        <4>1. /\ t[a].kind \in AwardKinds /\ t[a].rfq = r /\ t[a].quote = q
              /\ t[a].status \in Favourable /\ t[a].result = src.counter.po + 1
            BY <2>5, <3>1, <3>9 DEF Favourable, WithResult
        <4>2. a \in owed => src.rfqs[r].pr \in torn /\ apr[a].quote = q
            BY <3>8, <3>9
        <4>3. \A m \in owed \ {a} : m \in DOMAIN t /\ t[m] = apr[m]
            BY <2>3, <3>9 DEF WithResult
        <4>4. Consistent(src, apr, owed, torn)
            BY <2>3, <3>9
        <4>5. q \in QuotesOf(src, r) /\ r \in DOMAIN src.rfqs /\ a \in DOMAIN t
            BY <2>1, <2>5, <3>9 DEF WithResult
        <4>6. GoodStore(src) /\ GoodApprovals(apr)
            BY <1>2
        <4> HIDE DEF c, r, q
        <4>7. Consistent(src', t, owed \cup {a}, torn)
            BY <3>3, <4>1, <4>2, <4>3, <4>4, <4>5, <4>6, ConsistentDecision
        <4> QED
            BY <4>7, <3>2
    <3> HIDE DEF c, p, q, r
    <3>10. \A t : ~lost /\ WithResult(t, a, c.result) => Consistent(src', t, owed', torn)
        BY <3>9
    <3> QED
        BY <1>1, <1>5, <2>2, <3>2, <3>3, <3>4, <3>5, <3>6, <3>7, <3>10, ResultBegins DEF r, q
  <2> QED
    BY <2>1, <2>4, <2>5
<1> QED
    BY <1>3, <1>4, <1>5

\* Every handler's first step.
LEMMA HandlerKeeps ==
    ASSUME IInv, Handler
    PROVE  IInv'
BY CreatePrKeeps, IssueRfqKeeps, ReleaseKeeps, QuoteKeeps, AwardKeeps, DecideKeeps DEF Handler

-----------------------------------------------------------------------------
(* The rest of a handler, step by step                                       *)

\* What holds while the process runs, in the middle of a handler too.
LEMMA WorkingFacts ==
    ASSUME IInv, up
    PROVE  /\ GoodStore(src) /\ GoodApprovals(apr) /\ GoodApprovals(Closed)
           /\ ApprovalsBehind(apr, Closed, job.pr)
           /\ \A k \in DOMAIN apr : k \in DOMAIN Closed /\ Closed[k].status = apr[k].status
           /\ ~lost => /\ Consistent(src, Closed, owed, torn)
                       /\ Told(src, apr)
                       /\ Backed(apr, src) /\ Backed(Closed, src)
<1>1. /\ GoodStore(src) /\ GoodApprovals(apr) /\ GoodApprovals(Closed)
      /\ ApprovalsBehind(apr, Closed, job.pr)
      /\ \A k \in DOMAIN apr : k \in DOMAIN Closed /\ Closed[k].status = apr[k].status
    BY ClosedAhead DEF IInv, Stores
<1>2. ~lost => Consistent(src, Closed, owed, torn) /\ Told(src, apr)
    BY DEF IInv, Truthful
<1>3. ASSUME ~lost
      PROVE  Backed(apr, src) /\ Backed(Closed, src)
  <2>1. src.counter.po \in Nat
    BY <1>1 DEF GoodStore, Typed, Counters
  <2>2. \A n \in owed : Closed[n].quote \in DOMAIN src.quotes /\ Closed[n].result <= src.counter.po
    BY <1>2, <1>3 DEF Consistent, NamedQuotes, QuotesOf
  <2>3. \A n \in owed \cap DOMAIN apr :
           apr[n].quote = Closed[n].quote /\ apr[n].result \in {None, Closed[n].result}
    BY <1>1 DEF ApprovalsBehind
  <2> QED
    BY <2>1, <2>2, <2>3 DEF Backed, None
<1> QED
    BY <1>1, <1>2, <1>3

\* The steps left are some of Todos, and what comes first tells which.
LEMMA TodoHeads ==
    ASSUME JobOK, job.todo # <<>>
    PROVE  /\ job # NoJob /\ job.todo \in Todos \ {<<>>}
           /\ Head(job.todo) = "apr" =>
                 job.todo \in {Flush, FlushCloseFlush}
           /\ Head(job.todo) = "src" =>
                 job.todo \in {Tail(Flush), Tail(FlushCloseFlush)} /\ snap.phase = "idle"
           /\ Head(job.todo) = "close" => job.todo = Tail(Tail(FlushCloseFlush))
           /\ Head(job.todo) # "src" => job.todo \notin {Tail(Flush), Tail(FlushCloseFlush)}
<1>1. job # NoJob
    BY DEF NoJob
<1>2. job.todo \in Todos \ {<<>>}
    BY <1>1 DEF JobOK
<1>3. job.todo \in {Tail(Flush), Tail(FlushCloseFlush)} => snap.phase = "idle"
    BY <1>1 DEF JobOK
<1> QED
    BY <1>1, <1>2, <1>3, TodoSteps DEF Todos

\* A step that is not the handler's last, and writes no approval.
LEMMA JobMoves ==
    ASSUME JobOK, job.todo # <<>>, NEW next \in Todos \ {<<>>}, Advance(next),
           UNCHANGED <<src, apr>>,
           next \in {Tail(Flush), Tail(FlushCloseFlush)} => snap'.phase = "idle",
           \/ job.todo = Flush /\ next = Tail(Flush)
           \/ job.todo = FlushCloseFlush /\ next \in {Tail(FlushCloseFlush), Tail(Tail(FlushCloseFlush))}
           \/ job.todo = Tail(FlushCloseFlush) /\ next = Tail(Tail(FlushCloseFlush))
    PROVE  /\ JobOK' /\ Closed' = Closed /\ answered' = answered
           /\ job'.todo = next /\ job'.pr = job.pr /\ job'.close = job.close
<1>1. job # NoJob
    BY DEF NoJob
<1>2. job' = [job EXCEPT !.todo = next] /\ answered' = answered
    BY DEF Advance
<1>3. job = [todo |-> job.todo, pr |-> job.pr, close |-> job.close, answer |-> job.answer]
    BY <1>1 DEF JobOK
<1>4. /\ job' = [todo |-> job'.todo, pr |-> job'.pr, close |-> job'.close, answer |-> job'.answer]
      /\ job'.todo = next /\ job'.pr = job.pr /\ job'.close = job.close /\ job'.answer = job.answer
    BY <1>2, <1>3
<1>5. ClosePending' <=> ClosePending
    BY <1>4, TodosDiffer DEF ClosePending
<1>6. Closed' = Closed
  <2>1. NextApproval' = NextApproval /\ job'.todo # <<>>
    BY <1>4 DEF NextApproval
  <2> QED
    BY <1>4, <1>5, <2>1 DEF Closed
<1>7. JobOK'
  <2>1. /\ job'.todo \in Todos \ {<<>>} /\ job'.pr \in 0..MaxPrs /\ job'.answer \in Answers
        /\ job'.answer.pos # None => job'.answer.pos \in DOMAIN src'.pos
        /\ job'.answer.decision # None => /\ job'.answer.decision \in DOMAIN Closed'
                                          /\ Closed'[job'.answer.decision].status # "pending"
    BY <1>1, <1>4, <1>6 DEF JobOK
  <2>2. job.close.kind = "none" => job'.todo \in {Flush, Tail(Flush)}
    BY <1>1, <1>4, TodosDiffer DEF JobOK
  <2>3. \A r : PrOfRfq(r)' = PrOfRfq(r)
    BY DEF PrOfRfq
  <2>4. (PrOfRfq(job.close.approval.rfq) = job.pr)' <=> PrOfRfq(job.close.approval.rfq) = job.pr
    BY <1>4 DEF PrOfRfq
  <2>5. (PrOfRfq(apr[job.close.approval].rfq) = job.pr)' <=> PrOfRfq(apr[job.close.approval].rfq) = job.pr
    BY <1>4 DEF PrOfRfq
  <2>6. \/ /\ job'.close.kind = "none"
           /\ job'.todo \in {Flush, Tail(Flush)}
        \/ /\ job'.close.kind = "record"
           /\ job'.close.approval \in ApprovalRow
           /\ job'.close.approval.status # "pending"
           /\ (PrOfRfq(job.close.approval.rfq) = job.pr)'
        \/ /\ job'.close.kind = "result"
           /\ job'.close.result \in Nat
           /\ job'.close.approval \in DOMAIN apr'
           /\ apr'[job'.close.approval].status # "pending"
           /\ ClosePending' => apr'[job'.close.approval].result = None
           /\ (PrOfRfq(apr[job.close.approval].rfq) = job.pr)'
    BY <1>1, <1>4, <1>5, <2>2, <2>4, <2>5 DEF JobOK
  <2> QED
    BY <1>4, <2>1, <2>6 DEF JobOK
<1> QED
    BY <1>2, <1>4, <1>6, <1>7

\* The last step: the client has its answer.
LEMMA JobEnds ==
    ASSUME JobOK, job.todo \in {Flush, Tail(Flush)}, Advance(<<>>), UNCHANGED <<src, apr>>
    PROVE  /\ JobOK' /\ Closed' = Closed /\ Closed = apr /\ job' = NoJob /\ job'.todo = <<>>
           /\ Told(src, apr) => Told(src, apr)'
<1>1. job # NoJob /\ job.todo # <<>> /\ ~ClosePending
  <2>1. job.todo # <<>> /\ ~ClosePending
    BY TodosDiffer DEF ClosePending
  <2> QED
    BY <2>1 DEF NoJob
<1>2. job' = NoJob /\ job'.todo = <<>> /\ answered' \subseteq answered \cup {job.answer}
    BY DEF Advance, NoJob
<1>3. Closed' = apr /\ Closed = apr
    BY <1>1, <1>2 DEF Closed
<1>4. /\ job.answer.pos # None => job.answer.pos \in DOMAIN src.pos
      /\ job.answer.decision # None => /\ job.answer.decision \in DOMAIN apr
                                       /\ apr[job.answer.decision].status # "pending"
    BY <1>1, <1>3 DEF JobOK
<1>5. Told(src, apr) => Told(src, apr)'
    BY <1>2, <1>4 DEF Told
<1>6. JobOK'
    BY <1>2 DEF JobOK
<1> QED
    BY <1>2, <1>3, <1>5, <1>6

\* The store of a first start.
LEMMA EmptyGood ==
    /\ GoodStore(EmptyStore) /\ GoodApprovals(EmptyTable)
    /\ \A t, gone : Consistent(EmptyStore, t, {}, gone)
<1>1. DOMAIN EmptyTable = {} /\ EmptyTable = [x \in DOMAIN EmptyTable |-> EmptyTable[x]]
    BY DEF EmptyTable
<1>2. /\ EmptyStore.prs = EmptyTable /\ EmptyStore.rfqs = EmptyTable
      /\ EmptyStore.quotes = EmptyTable /\ EmptyStore.awards = EmptyTable
      /\ EmptyStore.pos = EmptyTable
      /\ EmptyStore.counter = [pr |-> 0, rfq |-> 0, quote |-> 0, award |-> 0, po |-> 0]
      /\ EmptyStore = [prs |-> EmptyStore.prs, rfqs |-> EmptyStore.rfqs,
                       quotes |-> EmptyStore.quotes, awards |-> EmptyStore.awards,
                       pos |-> EmptyStore.pos, counter |-> EmptyStore.counter]
    BY DEF EmptyStore
<1>3. EmptyStore.counter \in Counters
    BY <1>2, BoundsAreNat DEF Counters
<1> HIDE DEF EmptyTable
<1>4. Typed(EmptyStore)
    BY <1>1, <1>2, <1>3, BoundsAreNat DEF Typed, TableOf, RowsIn, Counters
<1>5. Referring(EmptyStore)
    BY <1>1, <1>2 DEF Referring
<1>6. GoodApprovals(EmptyTable)
    BY <1>1, FS_EmptySet DEF GoodApprovals, RowsIn
<1>7. \A t, gone : Consistent(EmptyStore, t, {}, gone)
    BY <1>1, <1>2 DEF Consistent, TracedOrders, NamedQuotes, NamedOrders, Balanced
<1> QED
    BY <1>4, <1>5, <1>6, <1>7 DEF GoodStore

\* A file that is written holds what was written and is not cut.
LEMMA WrittenFile ==
    ASSUME Stores, NEW content
    PROVE  /\ Written("apr", content) = [src |-> disk.src, apr |-> content,
                                         cut |-> disk.cut \ {"apr"}]
           /\ Written("src", content) = [src |-> content, apr |-> disk.apr,
                                         cut |-> disk.cut \ {"src"}]
<1>1. disk = [src |-> disk.src, apr |-> disk.apr, cut |-> disk.cut]
    BY DEF Stores
<1>2. DOMAIN disk = {"src", "apr", "cut"}
    BY <1>1
<1>3. /\ Written("apr", content) = [f \in DOMAIN disk |->
            IF f = "cut" THEN disk.cut \ {"apr"} ELSE IF f = "apr" THEN content ELSE disk[f]]
      /\ Written("src", content) = [f \in DOMAIN disk |->
            IF f = "cut" THEN disk.cut \ {"src"} ELSE IF f = "src" THEN content ELSE disk[f]]
    BY <1>2 DEF Written
<1> QED
    BY <1>2, <1>3

\* A file cut short has nothing to be read, and the other is as it was.
LEMMA CutStores ==
    ASSUME Stores, NEW files \in SUBSET {"apr", "src"}, NEW d, d = CutShort(files)
    PROVE  /\ GoodStore(d.src) /\ GoodApprovals(d.apr)
           /\ d = [src |-> d.src, apr |-> d.apr, cut |-> d.cut]
           /\ d.cut \subseteq {"apr", "src"} /\ d.cut = disk.cut \cup files
           /\ files = {} => d = disk
<1> DEFINE s == IF "src" \in files THEN EmptyStore ELSE disk.src
           t == IF "apr" \in files THEN EmptyTable ELSE disk.apr
<1>1. /\ GoodStore(s) /\ GoodApprovals(t)
      /\ disk.cut \subseteq {"apr", "src"}
      /\ disk = [src |-> disk.src, apr |-> disk.apr, cut |-> disk.cut]
    BY EmptyGood DEF Stores
<1>2. files = {} => s = disk.src /\ t = disk.apr
    OBVIOUS
<1> HIDE DEF s, t
<1>3. d = [src |-> s, apr |-> t, cut |-> disk.cut \cup files]
    BY DEF CutShort, s, t
<1> QED
    BY <1>1, <1>2, <1>3

\* flush_critical's first write: the approvals are saved before the orders.
LEMMA FlushApprovalsKeeps ==
    ASSUME IInv, FlushApprovals
    PROVE  IInv'
<1> DEFINE next == Tail(job.todo)
<1>1. /\ up /\ job.todo # <<>> /\ Head(job.todo) = "apr" /\ snap.phase = "idle"
      /\ disk' = Written("apr", apr) /\ Advance(next)
      /\ UNCHANGED <<src, apr, up, snap, unsaved, owed, torn, lost>>
    BY DEF FlushApprovals, LockFree
<1>2. Stores /\ JobOK /\ Lagging /\ Truthful
    BY SMTT(60) DEF IInv
<1>3. /\ \/ job.todo = Flush /\ next = Tail(Flush)
         \/ job.todo = FlushCloseFlush /\ next = Tail(FlushCloseFlush)
      /\ next \in Todos \ {<<>>} /\ Head(next) = "src" /\ next # <<>>
    BY <1>1, <1>2, TodoHeads, TodoSteps, TodosDiffer DEF Todos
<1> HIDE DEF next
<1>4. /\ JobOK' /\ Closed' = Closed /\ answered' = answered
      /\ job'.todo = next /\ job'.pr = job.pr /\ job'.close = job.close
    BY <1>1, <1>2, <1>3, JobMoves
<1>5. /\ disk' = [src |-> disk.src, apr |-> apr, cut |-> disk.cut \ {"apr"}]
      /\ disk'.src = disk.src /\ disk'.apr = apr /\ disk'.cut = disk.cut \ {"apr"}
    BY <1>1, <1>2, WrittenFile DEF Stores
<1>6. Stores'
    BY <1>1, <1>2, <1>5 DEF Stores
<1>7. Rested' => Rested
    BY <1>3, <1>4, TodosDiffer DEF Rested
<1>8. Lagging'
  <2>1. ApprovalsBehind(disk.apr, apr, job.pr)'
    BY <1>1, <1>5 DEF ApprovalsBehind
  <2>2. ~lost /\ ~unsaved => Backed(apr, disk.src)'
    BY <1>1, <1>2, <1>5 DEF Lagging, Whole, Backed
  <2>3. Whole => Behind(disk.src, src, job.pr) /\ (Rested => disk.src = src)
    BY <1>1, <1>2 DEF Lagging
  <2> QED
    BY <1>1, <1>3, <1>4, <1>5, <1>7, <2>1, <2>2, <2>3 DEF Lagging, Whole
<1>9. Truthful'
  <2>1. \A s, t : Told(s, t)' <=> Told(s, t)
    BY <1>4 DEF Told
  <2>2. Told(src, apr) /\ Told(disk.src, disk.apr) => Told(disk.src, apr)
    BY DEF Told
  <2> QED
    BY <1>1, <1>2, <1>4, <1>5, <2>1, <2>2 DEF Truthful
<1> QED
    BY <1>4, <1>6, <1>8, <1>9 DEF IInv

\* Its second write: the files hold what memory holds.
LEMMA FlushSourcingKeeps ==
    ASSUME IInv, FlushSourcing
    PROVE  IInv'
<1> DEFINE next == Tail(job.todo)
<1>1. /\ up /\ job.todo # <<>> /\ Head(job.todo) = "src"
      /\ disk' = Written("src", src) /\ unsaved' = FALSE /\ Advance(next)
      /\ UNCHANGED <<src, apr, up, snap, owed, torn, lost>>
    BY DEF FlushSourcing
<1>2. Stores /\ JobOK /\ Lagging /\ Truthful
    BY DEF IInv
<1>3. /\ snap.phase = "idle" /\ disk.apr = apr /\ "apr" \notin disk.cut
      /\ \/ job.todo = Tail(Flush) /\ next = <<>>
         \/ job.todo = Tail(FlushCloseFlush) /\ next = Tail(Tail(FlushCloseFlush))
    BY <1>1, <1>2, TodoHeads, TodoSteps DEF Lagging, Whole
<1> HIDE DEF next
<1>4. /\ JobOK' /\ Closed' = Closed /\ (Told(src, apr) => Told(src, apr)')
      /\ job'.todo = next /\ (next # <<>> => job'.pr = job.pr)
  <2>1. CASE job.todo = Tail(Flush) /\ next = <<>>
    BY <1>1, <1>2, <2>1, JobEnds
  <2>2. CASE job.todo = Tail(FlushCloseFlush) /\ next = Tail(Tail(FlushCloseFlush))
    <3>1. next \in Todos \ {<<>>} /\ next \notin {Tail(Flush), Tail(FlushCloseFlush)}
        BY <2>2, TodosDiffer DEF Todos
    <3>2. /\ JobOK' /\ Closed' = Closed /\ answered' = answered
          /\ job'.todo = next /\ job'.pr = job.pr
        BY <1>1, <1>2, <2>2, <3>1, JobMoves
    <3> QED
        BY <1>1, <3>2 DEF Told
  <2> QED
    BY <1>3, <2>1, <2>2
<1>5. /\ disk' = [src |-> src, apr |-> apr, cut |-> {}]
      /\ disk'.src = src /\ disk'.apr = apr /\ disk'.cut = {}
  <2>1. disk.cut \ {"src"} = {}
    BY <1>2, <1>3 DEF Stores
  <2> QED
    BY <1>1, <1>2, <1>3, <2>1, WrittenFile DEF Stores
<1>6. Stores'
    BY <1>1, <1>2, <1>5 DEF Stores
<1>7. /\ Rested' /\ (job'.todo # <<>> => Head(job'.todo) = "close")
      /\ snap'.phase = "idle"
    BY <1>1, <1>3, <1>4, TodoSteps DEF Rested
<1>8. Lagging'
  <2>1. ApprovalsBehind(disk.apr, apr, job.pr)'
    BY <1>1, <1>5 DEF ApprovalsBehind
  <2>2. ~lost => Backed(apr, disk.src)'
    BY <1>1, <1>5, WorkingFacts DEF Backed
  <2>3. Behind(disk.src, src, job.pr)'
    BY <1>1, <1>2, <1>5, BehindSelf DEF Stores
  <2> QED
    BY <1>1, <1>5, <1>7, <2>1, <2>2, <2>3 DEF Lagging, Whole
<1>9. Truthful'
    BY <1>1, <1>2, <1>4, <1>5, <1>7 DEF Truthful
<1> QED
    BY <1>4, <1>6, <1>8, <1>9 DEF IInv

\* A failed flush leaves the files as they were, or one of them cut, and says so.
LEMMA FlushFailsKeeps ==
    ASSUME IInv, FlushFails
    PROVE  IInv'
<1> DEFINE next == IF Head(job.todo) = "apr" THEN Tail(Tail(job.todo)) ELSE Tail(job.todo)
<1>1. /\ up /\ job.todo # <<>> /\ Head(job.todo) \in {"apr", "src"}
      /\ Head(job.todo) = "apr" => snap.phase = "idle"
      /\ unsaved' = TRUE /\ Advance(next)
      /\ disk' \in {disk, CutShort({Head(job.todo)})}
      /\ UNCHANGED <<src, apr, up, snap, owed, torn, lost>>
    BY DEF FlushFails, LockFree
<1>2. Stores /\ JobOK /\ Lagging /\ Truthful
    BY DEF IInv
<1>3. /\ snap.phase = "idle"
      /\ \/ job.todo \in {Flush, Tail(Flush)} /\ next = <<>>
         \/ /\ job.todo \in {FlushCloseFlush, Tail(FlushCloseFlush)}
            /\ next = Tail(Tail(FlushCloseFlush))
    BY <1>1, <1>2, TodoHeads, TodoSteps
<1> HIDE DEF next
<1>4. /\ JobOK' /\ Closed' = Closed /\ (Told(src, apr) => Told(src, apr)')
      /\ job'.todo = next
  <2>1. CASE job.todo \in {Flush, Tail(Flush)} /\ next = <<>>
    BY <1>1, <1>2, <2>1, JobEnds
  <2>2. CASE /\ job.todo \in {FlushCloseFlush, Tail(FlushCloseFlush)}
             /\ next = Tail(Tail(FlushCloseFlush))
    <3>1. next \in Todos \ {<<>>} /\ next \notin {Tail(Flush), Tail(FlushCloseFlush)}
        BY <2>2, TodosDiffer DEF Todos
    <3>2. /\ JobOK' /\ Closed' = Closed /\ answered' = answered
          /\ job'.todo = next /\ job'.pr = job.pr
        BY <1>1, <1>2, <2>2, <3>1, JobMoves
    <3> QED
        BY <1>1, <3>2 DEF Told
  <2> QED
    BY <1>3, <2>1, <2>2
<1>5. job'.todo # <<>> => Head(job'.todo) = "close"
    BY <1>3, <1>4, TodoSteps
<1>6. Stores'
    BY <1>1, <1>2, CutStores DEF Stores
<1>7. Lagging'
    BY <1>1, <1>3, <1>5 DEF Lagging, Whole
<1>8. Truthful'
    BY <1>1, <1>2, <1>3, <1>4 DEF Truthful
<1> QED
    BY <1>4, <1>6, <1>7, <1>8 DEF IInv

\* The approval or its result comes after the first flush.
LEMMA CloseKeeps ==
    ASSUME IInv, Close
    PROVE  IInv'
<1>1. /\ up /\ job.todo # <<>> /\ Head(job.todo) = "close" /\ Advance(Tail(job.todo))
      /\ apr' = IF job.close.kind = "record"
                THEN Put(apr, NextApproval, job.close.approval)
                ELSE [apr EXCEPT ![job.close.approval].result = job.close.result]
      /\ UNCHANGED <<src, disk, up, snap, unsaved, owed, torn, lost>>
    BY DEF Close
<1>2. Stores /\ JobOK /\ Lagging /\ Truthful
    BY DEF IInv
<1>3. job.todo = Tail(Tail(FlushCloseFlush)) /\ Tail(job.todo) = Flush /\ job # NoJob
    BY <1>1, <1>2, TodoHeads, TodoSteps
<1>4. ClosePending /\ apr' = Closed
    BY <1>1, <1>3 DEF ClosePending, Closed
<1>5. /\ GoodStore(src) /\ GoodApprovals(Closed) /\ ApprovalsBehind(apr, Closed, job.pr)
      /\ \A k \in DOMAIN apr : k \in DOMAIN Closed /\ Closed[k].status = apr[k].status
      /\ ~lost => Consistent(src, Closed, owed, torn) /\ Told(src, apr) /\ Backed(Closed, src)
    BY <1>1, WorkingFacts
<1>6. job' = [job EXCEPT !.todo = Flush] /\ answered' = answered
    BY <1>1, <1>3, TodosDiffer DEF Advance
<1>7. job = [todo |-> job.todo, pr |-> job.pr, close |-> job.close, answer |-> job.answer]
    BY <1>2, <1>3 DEF JobOK
<1>8. /\ job' = [todo |-> job'.todo, pr |-> job'.pr, close |-> job'.close, answer |-> job'.answer]
      /\ job'.todo = Flush /\ job'.pr = job.pr /\ job'.close = job.close /\ job'.answer = job.answer
    BY <1>6, <1>7
<1>9. ~(ClosePending') /\ Closed' = apr' /\ Rested /\ Rested'
  <2>1. job.close.kind # "none"
    BY <1>2, <1>3, TodosDiffer DEF JobOK
  <2>2. ~(ClosePending')
    BY <1>8, TodosDiffer DEF ClosePending
  <2> QED
    BY <1>3, <1>8, <2>1, <2>2 DEF Closed, Rested
<1>10. JobOK'
  <2>1. /\ job'.todo \in Todos \ {<<>>} /\ job'.todo \notin {Tail(Flush), Tail(FlushCloseFlush)}
    BY SMTT(60), <1>8, TodosDiffer DEF Todos
  <2>2. /\ job'.pr \in 0..MaxPrs /\ job'.answer \in Answers
        /\ job'.answer.pos # None => job'.answer.pos \in DOMAIN src'.pos
        /\ job'.answer.decision # None => /\ job'.answer.decision \in DOMAIN Closed'
                                          /\ Closed'[job'.answer.decision].status # "pending"
    BY SMTT(60), <1>1, <1>2, <1>3, <1>4, <1>8, <1>9 DEF JobOK
  <2>3. \/ /\ job.close.kind = "record"
           /\ job.close.approval \in ApprovalRow
           /\ job.close.approval.status # "pending"
           /\ PrOfRfq(job.close.approval.rfq) = job.pr
        \/ /\ job.close.kind = "result"
           /\ job.close.result \in Nat
           /\ job.close.approval \in DOMAIN apr
           /\ apr[job.close.approval].status # "pending"
           /\ PrOfRfq(apr[job.close.approval].rfq) = job.pr
    BY <1>2, <1>3, TodosDiffer DEF JobOK
  <2>4. CASE /\ job.close.kind = "record"
             /\ job.close.approval \in ApprovalRow
             /\ job.close.approval.status # "pending"
             /\ PrOfRfq(job.close.approval.rfq) = job.pr
    <3>1. (PrOfRfq(job.close.approval.rfq) = job.pr)'
        BY <1>1, <1>8, <2>4 DEF PrOfRfq
    <3> QED
        BY <1>8, <2>1, <2>2, <2>4, <3>1 DEF JobOK
  <2>5. CASE /\ job.close.kind = "result"
             /\ job.close.result \in Nat
             /\ job.close.approval \in DOMAIN apr
             /\ apr[job.close.approval].status # "pending"
             /\ PrOfRfq(apr[job.close.approval].rfq) = job.pr
    <3> DEFINE a == job.close.approval
    <3>1. /\ a \in DOMAIN Closed /\ Closed[a].status # "pending"
          /\ Closed[a].rfq = apr[a].rfq
        BY <1>5, <2>5 DEF ApprovalsBehind
    <3>2. (PrOfRfq(apr[job.close.approval].rfq) = job.pr)'
        BY <1>1, <1>4, <1>8, <2>5, <3>1 DEF PrOfRfq
    <3> QED
        BY <1>4, <1>8, <1>9, <2>1, <2>2, <2>5, <3>1, <3>2 DEF JobOK
  <2> QED
    BY <2>3, <2>4, <2>5
<1>11. Stores'
    BY <1>1, <1>2, <1>4, <1>5 DEF Stores
<1>12. Lagging'
  <2>1. /\ snap.phase = "reading" => snap.from = src
        /\ Whole => disk.src = src /\ Behind(disk.src, src, job.pr) /\ disk.apr = apr
    BY SMTT(60), <1>1, <1>2, <1>9 DEF Lagging, Whole
  <2>2. Whole => ApprovalsBehind(disk.apr, apr, job.pr)'
    <3>1. Whole => ApprovalsBehind(disk.apr, Closed, job.pr)
        BY <1>5, <2>1
    <3> QED
        BY ZenonT(60), <1>1, <1>4, <1>8, <3>1 DEF ApprovalsBehind, PrOfRfq
  <2>3. ~lost => Backed(apr, src)'
    BY <1>1, <1>4, <1>5 DEF Backed
  <2>4. job'.todo # <<>> /\ Head(job'.todo) = "apr"
    BY <1>8, TodoSteps, TodosDiffer
  <2> QED
    BY <1>1, <1>8, <1>9, <2>1, <2>2, <2>3, <2>4 DEF Lagging, Whole
<1>13. Truthful'
  <2>1. \A s : Told(s, apr) => Told(s, Closed)
    BY <1>5 DEF Told
  <2>2. \A s, t : Told(s, t)' <=> Told(s, t)
    BY <1>6 DEF Told
  <2> QED
    BY <1>1, <1>2, <1>4, <1>5, <1>9, <2>1, <2>2 DEF Truthful
<1> QED
    BY <1>10, <1>11, <1>12, <1>13 DEF IInv

-----------------------------------------------------------------------------
(* The snapshot thread                                                       *)

\* What the thread changes leaves memory and the handler as they are.
LEMMA SnapBeside ==
    ASSUME IInv, UNCHANGED <<src, apr, job, answered>>,
           job.todo \in {Tail(Flush), Tail(FlushCloseFlush)} => snap'.phase = "idle"
    PROVE  JobOK' /\ Closed' = Closed /\ (Rested' <=> Rested)
<1>1. /\ Closed' = Closed /\ (Rested' <=> Rested) /\ (ClosePending' <=> ClosePending)
    BY DEF Closed, Rested, ClosePending, NextApproval
<1>2. /\ (PrOfRfq(job.close.approval.rfq) = job.pr)' <=> PrOfRfq(job.close.approval.rfq) = job.pr
      /\ (PrOfRfq(apr[job.close.approval].rfq) = job.pr)'
            <=> PrOfRfq(apr[job.close.approval].rfq) = job.pr
    BY DEF PrOfRfq
<1>3. JobOK'
    BY SMTT(60), <1>1, <1>2 DEF IInv, JobOK
<1> QED
    BY <1>1, <1>3

\* The thread begins to read, outside every flush.
LEMMA SnapReadKeeps ==
    ASSUME IInv, SnapRead
    PROVE  IInv'
<1>1. /\ up /\ ~Flushing /\ snap.phase = "idle"
      /\ snap' = [phase |-> "reading", from |-> src]
      /\ UNCHANGED <<src, apr, disk, up, job, unsaved, owed, answered, torn, lost>>
    BY DEF SnapRead, SnapMayStart
<1>2. Stores /\ JobOK /\ Lagging /\ Truthful
    BY DEF IInv
<1>3. snap'.phase = "reading" /\ snap'.from = src /\ snap' = [phase |-> "reading", from |-> snap'.from]
    BY <1>1
<1>4. job.todo \notin {Tail(Flush), Tail(FlushCloseFlush)}
    BY <1>1, TodoSteps, TodosDiffer DEF Flushing
<1>5. JobOK' /\ Closed' = Closed /\ (Rested' <=> Rested)
    BY <1>1, <1>4, SnapBeside
<1>6. /\ GoodStore(src) /\ Behind(src, src, job.pr)
      /\ ~lost => Backed(apr, src) /\ Told(src, apr)
    BY <1>1, WorkingFacts, BehindSelf
<1>7. Stores'
    BY <1>1, <1>2, <1>3, <1>6 DEF Stores
<1>8. Lagging'
  <2>1. ApprovalsBehind(disk.apr, apr, job.pr)' <=> ApprovalsBehind(disk.apr, apr, job.pr)
    BY <1>1 DEF ApprovalsBehind, PrOfRfq
  <2>2. /\ Backed(apr, disk.src)' <=> Backed(apr, disk.src)
        /\ Backed(apr, snap.from)' <=> Backed(apr, src)
    BY <1>1, <1>3 DEF Backed
  <2> QED
    BY <1>1, <1>2, <1>3, <1>5, <1>6, <2>1, <2>2 DEF Lagging, Whole
<1>9. Truthful'
  <2>1. /\ Told(src, apr)' <=> Told(src, apr)
        /\ Told(disk.src, disk.apr)' <=> Told(disk.src, disk.apr)
        /\ Told(snap.from, apr)' <=> Told(src, apr)
    BY <1>1, <1>3 DEF Told
  <2> QED
    BY <1>1, <1>2, <1>5, <1>6, <2>1 DEF Truthful
<1> QED
    BY <1>5, <1>7, <1>8, <1>9 DEF IInv

\* It writes what it read: tables from before and after a handler's step.
LEMMA SnapSourcingKeeps ==
    ASSUME IInv, SnapSourcing
    PROVE  IInv'
<1>1. PICK later \in SUBSET Tables : disk' = Written("src", MixedStore(snap.from, later))
    BY DEF SnapSourcing
<1> DEFINE m == MixedStore(snap.from, later)
<1>2. /\ up /\ snap.phase = "reading" /\ snap' = [phase |-> "sourced"]
      /\ UNCHANGED <<src, apr, up, job, unsaved, owed, answered, torn, lost>>
    BY DEF SnapSourcing
<1>3. Stores /\ JobOK /\ Lagging /\ Truthful
    BY DEF IInv
<1>4. /\ disk' = [src |-> m, apr |-> disk.apr, cut |-> disk.cut \ {"src"}]
      /\ disk'.src = m /\ disk'.apr = disk.apr /\ disk'.cut = disk.cut \ {"src"}
    BY <1>1, <1>3, WrittenFile
<1>5. job.todo # <<>> => /\ Head(job.todo) # "src"
                         /\ job.todo \notin {Tail(Flush), Tail(FlushCloseFlush)}
    BY <1>2, <1>3, TodoHeads
<1>6. job.todo \notin {Tail(Flush), Tail(FlushCloseFlush)} /\ snap'.phase = "sourced"
    BY <1>2, <1>5, TodosDiffer
<1>7. /\ JobOK' /\ Closed' = Closed /\ (Rested' <=> Rested)
    BY <1>2, <1>6, SnapBeside
<1>8. /\ GoodStore(snap.from) /\ GoodStore(src) /\ snap # NoSnap
      /\ \/ Rested /\ snap.from = src
         \/ ~Rested /\ Behind(snap.from, src, job.pr)
    BY <1>2, <1>3 DEF Stores, Lagging, Whole, NoSnap
<1>9. Behind(snap.from, src, job.pr)
    BY <1>8, BehindSelf
<1>10. /\ GoodStore(m) /\ Behind(m, src, job.pr) /\ DOMAIN snap.from.pos \subseteq DOMAIN m.pos
       /\ m.counter = src.counter
    BY <1>8, <1>9, MixedGood
<1>11. Rested => m = src
  <2>1. Typed(src)
    BY <1>8 DEF GoodStore
  <2>2. MixedStore(src, later) = src
    BY <2>1, MixedSame
  <2> QED
    BY <1>8, <2>2
<1>12. DOMAIN snap.from.quotes \subseteq DOMAIN m.quotes
  <2>1. m.quotes \in {snap.from.quotes, src.quotes}
    BY ZenonT(60), <1>8 DEF MixedStore, GoodStore, Typed
  <2> QED
    BY <2>1, <1>9 DEF Behind
<1>13. snap.from.counter.po <= m.counter.po
    BY ZenonT(60), <1>8, <1>9, <1>10 DEF Behind, GoodStore, Typed, Counters
<1>14. ~lost => Backed(apr, m)
    BY <1>2, <1>10, <1>12, <1>3, WorkingFacts DEF Backed, Lagging, Whole
<1> HIDE DEF m
<1>15. Stores'
    BY <1>2, <1>3, <1>4, <1>6, <1>10 DEF Stores
<1>16. Lagging'
  <2>1. ApprovalsBehind(disk.apr, apr, job.pr)' <=> ApprovalsBehind(disk.apr, apr, job.pr)
    BY <1>2, <1>4 DEF ApprovalsBehind, PrOfRfq
  <2>2. ~lost => Backed(apr, disk.src)'
    BY <1>2, <1>4, <1>14 DEF Backed
  <2>3. Whole /\ (job.todo = <<>> \/ Head(job.todo) = "close") => disk.apr = apr
    BY <1>2, <1>3 DEF Lagging, Whole
  <2>4. Whole /\ job.todo # <<>> => ApprovalsBehind(disk.apr, apr, job.pr)
    BY <1>2, <1>3 DEF Lagging, Whole
  <2> QED
    BY <1>2, <1>4, <1>5, <1>6, <1>7, <1>10, <1>11, <2>1, <2>2, <2>3, <2>4 DEF Lagging, Whole
<1>17. Truthful'
  <2>1. /\ Told(src, apr)' <=> Told(src, apr)
        /\ Told(disk.src, disk.apr)' <=> Told(m, disk.apr)
    BY <1>2, <1>4 DEF Told
  <2>2. Told(snap.from, apr) /\ Told(disk.src, disk.apr) => Told(m, disk.apr)
    BY <1>10 DEF Told
  <2>3. ~lost /\ ~unsaved => disk'.cut = {}
    BY <1>3, <1>4 DEF Truthful
  <2> QED
    BY <1>2, <1>3, <1>6, <1>7, <2>1, <2>2, <2>3 DEF Truthful
<1> QED
    BY <1>7, <1>15, <1>16, <1>17 DEF IInv

\* It writes the approvals as they are now.
LEMMA SnapApprovalsKeeps ==
    ASSUME IInv, SnapApprovals
    PROVE  IInv'
<1>1. /\ up /\ snap.phase = "sourced" /\ snap' = NoSnap
      /\ disk' = Written("apr", apr)
      /\ UNCHANGED <<src, apr, up, job, unsaved, owed, answered, torn, lost>>
    BY DEF SnapApprovals
<1>2. Stores /\ JobOK /\ Lagging /\ Truthful
    BY DEF IInv
<1>3. /\ disk' = [src |-> disk.src, apr |-> apr, cut |-> disk.cut \ {"apr"}]
      /\ disk'.src = disk.src /\ disk'.apr = apr /\ disk'.cut = disk.cut \ {"apr"}
    BY <1>1, <1>2, WrittenFile
<1>4. snap'.phase = "idle"
    BY <1>1 DEF NoSnap
<1>5. /\ JobOK' /\ Closed' = Closed /\ (Rested' <=> Rested)
    BY <1>1, <1>4, SnapBeside
<1>6. Stores'
    BY <1>1, <1>2, <1>3 DEF Stores
<1>7. Lagging'
  <2>1. ApprovalsBehind(disk.apr, apr, job.pr)'
    BY <1>1, <1>3 DEF ApprovalsBehind
  <2>2. Backed(apr, disk.src)' <=> Backed(apr, disk.src)
    BY <1>1, <1>3 DEF Backed
  <2> QED
    BY <1>1, <1>2, <1>3, <1>4, <1>5, <2>1, <2>2 DEF Lagging, Whole
<1>8. Truthful'
  <2>1. /\ Told(src, apr)' <=> Told(src, apr)
        /\ Told(disk.src, disk.apr)' <=> Told(disk.src, apr)
    BY <1>1, <1>3 DEF Told
  <2>2. Told(src, apr) /\ Told(disk.src, disk.apr) => Told(disk.src, apr)
    BY DEF Told
  <2>3. ~lost /\ ~unsaved => disk'.cut = {}
    BY <1>2, <1>3 DEF Truthful
  <2> QED
    BY <1>1, <1>2, <1>4, <1>5, <2>1, <2>2, <2>3 DEF Truthful
<1> QED
    BY <1>5, <1>6, <1>7, <1>8 DEF IInv

\* It gives up: a file may stay cut, and then something is unsaved.
LEMMA SnapFailsKeeps ==
    ASSUME IInv, SnapFails
    PROVE  IInv'
<1>1. /\ up /\ snap.phase # "idle" /\ snap' = NoSnap
      /\ UNCHANGED <<src, apr, up, job, owed, answered, torn, lost>>
    BY DEF SnapFails
<1>2. PICK files \in SUBSET {"apr", "src"} : disk' = disk \/ disk' = CutShort(files)
    BY DEF SnapFails
<1>3. unsaved' = (unsaved \/ disk' # disk)
    BY DEF SnapFails
<1>4. Stores /\ JobOK /\ Lagging /\ Truthful
    BY DEF IInv
<1>5. snap'.phase = "idle"
    BY <1>1 DEF NoSnap
<1>6. /\ JobOK' /\ Closed' = Closed /\ (Rested' <=> Rested)
    BY <1>1, <1>5, SnapBeside
<1>7. unsaved' \in BOOLEAN /\ (~unsaved' => ~unsaved /\ disk' = disk)
    BY <1>3
<1>8. Stores'
  <2>1. CASE disk' = disk
    BY <1>1, <1>4, <1>7, <2>1 DEF Stores
  <2>2. CASE disk' = CutShort(files)
    BY <1>1, <1>4, <1>7, <2>2, CutStores DEF Stores
  <2> QED
    BY <1>2, <2>1, <2>2
<1>9. ~(job.todo # <<>> /\ Head(job.todo) = "src")
    BY <1>1, <1>4, TodoHeads
<1>10. Lagging'
  <2>1. disk' = disk => (ApprovalsBehind(disk.apr, apr, job.pr)' <=> ApprovalsBehind(disk.apr, apr, job.pr))
    BY <1>1 DEF ApprovalsBehind, PrOfRfq
  <2>2. disk' = disk => (Backed(apr, disk.src)' <=> Backed(apr, disk.src))
    BY <1>1 DEF Backed
  <2> QED
    BY <1>1, <1>4, <1>5, <1>6, <1>7, <1>9, <2>1, <2>2 DEF Lagging, Whole
<1>11. Truthful'
  <2>1. /\ Told(src, apr)' <=> Told(src, apr)
        /\ disk' = disk => (Told(disk.src, disk.apr)' <=> Told(disk.src, disk.apr))
    BY <1>1 DEF Told
  <2> QED
    BY <1>1, <1>4, <1>5, <1>6, <1>7, <2>1 DEF Truthful
<1> QED
    BY <1>6, <1>8, <1>10, <1>11 DEF IInv

-----------------------------------------------------------------------------
(* Crash and restart                                                         *)

\* What the files hold is consistent, but for the requisition whose handler the
\* crash cut short.
LEMMA FilesConsistent ==
    ASSUME IInv, up, ~lost, ~unsaved \/ (disk.src = src /\ disk.apr = apr),
           NEW gone, gone = IF job.todo # <<>> THEN torn \cup {job.pr} ELSE torn
    PROVE  /\ Consistent(disk.src, disk.apr, owed \cap DOMAIN disk.apr, gone)
           /\ Told(disk.src, disk.apr)
<1> DEFINE s == disk.src
           u == disk.apr
<1>1. Stores /\ JobOK /\ Lagging /\ Truthful
    BY DEF IInv
<1>2. /\ GoodStore(src) /\ GoodApprovals(apr) /\ GoodApprovals(Closed)
      /\ ApprovalsBehind(apr, Closed, job.pr)
      /\ Consistent(src, Closed, owed, torn) /\ Told(src, apr) /\ Backed(apr, src)
    BY WorkingFacts
<1>3. GoodStore(s) /\ GoodApprovals(u)
    BY <1>1 DEF Stores
<1>4. Told(s, u)
    BY <1>1, <1>2 DEF Truthful
<1>5. CASE job.todo = <<>>
  <2>1. s = src /\ u = apr
    BY <1>1, <1>5 DEF Lagging, Whole, Rested
  <2>2. Closed = apr
    BY <1>5 DEF Closed
  <2>3. owed \cap DOMAIN apr = owed
    BY <1>2, <2>2 DEF Consistent, NamedQuotes
  <2> QED
    BY <1>2, <1>4, <1>5, <2>1, <2>2, <2>3
<1>6. CASE job.todo # <<>>
  <2>1. Behind(s, src, job.pr) /\ ApprovalsBehind(u, apr, job.pr) /\ Backed(apr, s)
    <3>1. CASE ~unsaved
        BY <1>1, <1>6, <3>1 DEF Lagging, Whole
    <3>2. CASE disk.src = src /\ disk.apr = apr
        <4>1. s = src /\ u = apr
            BY <3>2
        <4>2. ApprovalsBehind(apr, apr, job.pr)
            BY DEF ApprovalsBehind
        <4> QED
            BY <4>1, <4>2, <1>2, BehindSelf
    <3> QED
        BY <3>1, <3>2
  <2> HIDE DEF s, u
  <2>2. /\ DOMAIN u \subseteq DOMAIN Closed
        /\ \A n \in DOMAIN u : /\ u[n].kind = Closed[n].kind /\ u[n].rfq = Closed[n].rfq
                               /\ u[n].quote = Closed[n].quote
                               /\ u[n].result \in {None, Closed[n].result}
        /\ \A n \in DOMAIN Closed :
              PrOfRfq(Closed[n].rfq) # job.pr => n \in DOMAIN u /\ u[n] = Closed[n]
    BY <1>2, <2>1 DEF ApprovalsBehind
  <2>3. \A n \in owed : src.rfqs[Closed[n].rfq].pr # job.pr => n \in DOMAIN u /\ u[n] = Closed[n]
    <3>1. \A n \in owed : n \in DOMAIN Closed /\ Closed[n].rfq \in DOMAIN src.rfqs
        BY <1>2 DEF Consistent, NamedQuotes, QuotesOf, GoodStore, Referring
    <3> QED
        BY <2>2, <3>1 DEF PrOfRfq
  <2>4. \A n \in owed \cap DOMAIN u : u[n].quote \in DOMAIN s.quotes /\ u[n].result <= s.counter.po
    <3>1. s.counter.po \in Nat
        BY <1>3 DEF GoodStore, Typed, Counters
    <3>2. \A n \in DOMAIN u : /\ n \in DOMAIN apr /\ u[n].quote = apr[n].quote
                              /\ u[n].result \in {None, apr[n].result}
        BY <2>1 DEF ApprovalsBehind
    <3> QED
        BY <2>1, <3>1, <3>2 DEF Backed, None
  <2>5. GoodStore(s) /\ GoodApprovals(u) /\ gone = torn \cup {job.pr}
    BY <1>3, <1>6
  <2>6. Consistent(s, u, owed \cap DOMAIN u, torn \cup {job.pr})
    BY <1>2, <2>1, <2>2, <2>3, <2>4, <2>5, ConsistentBehind
  <2> QED
    BY <1>4, <2>5, <2>6 DEF s, u
<1> QED
    BY <1>5, <1>6

\* A crash loses rows of the interrupted handler's requisition only, if nothing
\* was unsaved and no file is cut.
LEMMA CrashKeeps ==
    ASSUME IInv, Crash
    PROVE  IInv'
<1>1. /\ up /\ up' = FALSE /\ job' = NoJob /\ snap' = NoSnap /\ unsaved' = FALSE
      /\ src' = EmptyStore /\ apr' = EmptyTable
    BY DEF Crash
<1>2. PICK files \in {{}, {"src"}, {"apr"}} : disk' = CutShort(files)
    BY Zenon DEF Crash
<1>3. lost' = (lost \/ disk'.cut # {} \/ (unsaved /\ (disk.src # src \/ disk.apr # apr)))
    BY DEF Crash
<1>4. \/ lost' /\ torn' = {}
      \/ /\ ~lost' /\ owed' = owed /\ answered' = answered
         /\ torn' = IF job.todo # <<>> THEN torn \cup {job.pr} ELSE torn
    BY DEF Crash
<1>5. Stores /\ JobOK /\ Lagging /\ Truthful
    BY DEF IInv
<1>6. torn' \subseteq 0..MaxPrs
  <2>1. job.todo # <<>> => job.pr \in 0..MaxPrs
    BY <1>5 DEF JobOK, NoJob
  <2> QED
    BY <1>4, <1>5, <2>1 DEF Stores
<1>7. /\ lost' \in BOOLEAN
      /\ ~lost' => /\ ~lost /\ disk'.cut = {}
                   /\ ~unsaved \/ (disk.src = src /\ disk.apr = apr)
    BY <1>3, <1>5 DEF Stores
<1>8. Stores'
  <2>1. /\ GoodStore(disk'.src) /\ GoodApprovals(disk'.apr)
        /\ disk' = [src |-> disk'.src, apr |-> disk'.apr, cut |-> disk'.cut]
        /\ disk'.cut \subseteq {"apr", "src"}
    BY <1>2, <1>5, CutStores
  <2> QED
    BY <1>1, <1>6, <1>7, <2>1, EmptyGood DEF Stores
<1>9. JobOK' /\ Lagging'
    BY <1>1 DEF JobOK, Lagging
<1>10. Truthful'
  <2>1. ~lost' => disk' = disk
    <3>1. disk'.cut = disk.cut \cup files /\ (files = {} => disk' = disk)
      BY <1>2, <1>5, CutStores
    <3> QED
      BY <1>7, <3>1
  <2>2. ~lost' => /\ Consistent(disk.src, disk.apr, owed \cap DOMAIN disk.apr, torn')
                  /\ Told(disk.src, disk.apr)
    BY <1>1, <1>4, <1>7, FilesConsistent
  <2>3. ~lost' => (Told(disk.src, disk.apr)' <=> Told(disk.src, disk.apr))
    BY <1>4, <2>1 DEF Told
  <2>4. snap'.phase # "reading"
    BY <1>1 DEF NoSnap
  <2> QED
    BY <1>1, <1>4, <1>7, <2>1, <2>2, <2>3, <2>4 DEF Truthful
<1> QED
    BY <1>8, <1>9, <1>10 DEF IInv

\* restore_all brings the files' content back, if none of them is cut.
LEMMA RestartKeeps ==
    ASSUME IInv, Restart
    PROVE  IInv'
<1>1. /\ ~up /\ up' = TRUE /\ src' = Restored.src /\ apr' = Restored.apr
      /\ owed' = owed \cap DOMAIN Restored.apr
      /\ UNCHANGED <<disk, job, snap, unsaved, answered, torn, lost>>
    BY DEF Restart
<1>2. Stores /\ JobOK /\ Lagging /\ Truthful
    BY DEF IInv
<1>3. job = NoJob /\ snap = NoSnap /\ unsaved = FALSE /\ job.todo = <<>> /\ snap.phase = "idle"
    BY <1>1, <1>2 DEF Stores, NoJob, NoSnap
<1>4. src' = disk.src /\ apr' = IF "src" \in disk.cut THEN EmptyTable ELSE disk.apr
  <2>1. PICK s, t, c : disk = [src |-> s, apr |-> t, cut |-> c]
    BY <1>2 DEF Stores
  <2> QED
    BY <1>1, <2>1 DEF Restored
<1>5. Stores'
    BY <1>1, <1>2, <1>3, <1>4, EmptyGood DEF Stores
<1>6. JobOK' /\ Closed' = apr'
    BY <1>1, <1>3 DEF JobOK, Closed
<1>7. ~lost => /\ disk.cut = {} /\ apr' = disk.apr /\ owed' = owed \cap DOMAIN disk.apr
               /\ Consistent(disk.src, disk.apr, owed', torn)
  <2>1. ~lost => disk.cut = {}
    BY <1>2, <1>3 DEF Truthful
  <2>2. ~lost => apr' = disk.apr
    BY <1>4, <2>1
  <2> QED
    BY <1>1, <1>2, <2>1, <2>2 DEF Truthful
<1>8. Lagging'
  <2>1. ~lost => Backed(apr, disk.src)'
    BY <1>1, <1>7 DEF Backed, Consistent, NamedQuotes, QuotesOf
  <2> QED
    BY <1>1, <1>3, <1>4, <1>7, <2>1 DEF Lagging, Whole
<1>9. Truthful'
  <2>1. ~lost => /\ Told(disk.src, disk.apr)' <=> Told(disk.src, disk.apr)
                 /\ Told(src, apr)' <=> Told(disk.src, disk.apr)
    BY <1>1, <1>4, <1>7 DEF Told
  <2> QED
    BY <1>1, <1>2, <1>3, <1>4, <1>6, <1>7, <2>1 DEF Truthful
<1> QED
    BY <1>5, <1>6, <1>8, <1>9 DEF IInv

\* A first start.
LEMMA InitHolds == Init => IInv
<1> SUFFICES ASSUME Init
             PROVE  IInv
    OBVIOUS
<1>1. /\ src = EmptyStore /\ apr = EmptyTable
      /\ disk = [src |-> EmptyStore, apr |-> EmptyTable, cut |-> {}]
      /\ up = TRUE /\ job = NoJob /\ snap = NoSnap /\ unsaved = FALSE /\ owed = {}
      /\ answered = {} /\ torn = {} /\ lost = FALSE
    BY DEF Init
<1>2. /\ job.todo = <<>> /\ snap.phase = "idle"
      /\ disk.src = src /\ disk.apr = apr /\ disk.cut = {}
    BY <1>1 DEF NoJob, NoSnap
<1>3. Stores
    BY <1>1, <1>2, EmptyGood DEF Stores
<1>4. JobOK /\ Closed = apr
    BY <1>1, <1>2 DEF JobOK, Closed
<1>5. Lagging
    BY <1>1, <1>2 DEF Lagging, Whole, Backed
<1>6. Truthful
  <2>1. Consistent(src, Closed, owed, torn)
    BY <1>1, EmptyGood
  <2> QED
    BY <1>1, <1>2, <2>1 DEF Truthful, Told
<1> QED
    BY <1>3, <1>4, <1>5, <1>6 DEF IInv

\* A step that changes nothing.
LEMMA StutterKeeps ==
    ASSUME IInv, UNCHANGED vars
    PROVE  IInv'
<1>1. UNCHANGED <<src, apr, disk, up, job, snap, unsaved, owed, answered, torn, lost>>
    BY DEF vars
<1>2. \A s, t : Told(s, t)' <=> Told(s, t)
    BY <1>1 DEF Told
<1>3. \A s, t : Backed(s, t)' <=> Backed(s, t)
    BY <1>1 DEF Backed
<1>4. Closed' = Closed /\ (Rested' <=> Rested) /\ (ClosePending' <=> ClosePending)
    BY <1>1 DEF Closed, Rested, ClosePending, NextApproval
<1>5. Stores'
    BY SMTT(60), <1>1 DEF IInv, Stores
<1>6. JobOK'
    BY ZenonT(60), <1>1, <1>4 DEF IInv, JobOK, PrOfRfq
<1>7. Lagging'
  <2>1. ApprovalsBehind(disk.apr, apr, job.pr)' <=> ApprovalsBehind(disk.apr, apr, job.pr)
    BY <1>1 DEF ApprovalsBehind, PrOfRfq
  <2> QED
    BY <1>1, <1>3, <1>4, <2>1 DEF IInv, Lagging, Whole
<1>8. Truthful'
    BY <1>1, <1>2, <1>4 DEF IInv, Truthful
<1> QED
    BY <1>5, <1>6, <1>7, <1>8 DEF IInv

\* The invariant holds in every reachable state, whatever interleaves, fails or
\* crashes.
THEOREM IInvHolds == Spec => []IInv
<1>1. IInv /\ [Next]_vars => IInv'
    BY HandlerKeeps, FlushApprovalsKeeps, FlushSourcingKeeps, FlushFailsKeeps, CloseKeeps,
       SnapReadKeeps, SnapSourcingKeeps, SnapApprovalsKeeps, SnapFailsKeeps, CrashKeeps, RestartKeeps,
       StutterKeeps DEF Next
<1> QED
    BY InitHolds, <1>1, PTL DEF Spec

-----------------------------------------------------------------------------
(* What the runs check                                                       *)

\* Rows have their types.
LEMMA TypesFollow == IInv => TypeOK
<1> SUFFICES ASSUME IInv
             PROVE  TypeOK
    OBVIOUS
<1>1. \A s : GoodStore(s) => StoreOK(s)
    BY DEF GoodStore, Typed, TableOf, StoreOK
<1>2. RowsIn(apr, ApprovalRow) /\ RowsIn(disk.apr, ApprovalRow)
    BY DEF IInv, Stores, GoodApprovals
<1>3. snap.phase \in {"idle", "reading", "sourced"}
    BY DEF IInv, Stores, NoSnap
<1> QED
    BY <1>1, <1>2, <1>3 DEF IInv, Stores, TypeOK

\* Between handlers nothing is left to record.
LEMMA SettledFacts ==
    ASSUME IInv, Settled
    PROVE  GoodStore(src) /\ GoodApprovals(apr) /\ Consistent(src, apr, owed, torn)
BY IdleFacts DEF Settled, Idle

\* Awards and decisions on a quote are equal in number.
LEMMA BalanceFollows == IInv => OneAwardPerDecision
<1> SUFFICES ASSUME IInv, Settled
             PROVE  \A q \in DOMAIN src.quotes :
                       WholePr(src.rfqs[src.quotes[q].rfq].pr) =>
                          /\ Cardinality(AwardsOf(q)) >= Cardinality(OwedFor(q))
                          /\ src.quotes[q].total >= Threshold =>
                                Cardinality(AwardsOf(q)) = Cardinality(OwedFor(q))
    BY DEF OneAwardPerDecision
<1>1. Balanced(src, apr, owed, torn)
    BY SettledFacts DEF Consistent
<1>2. \A q : AwardsOf(q) = AwardsIn(src, q) /\ OwedFor(q) = DecidedFor(apr, owed, q)
    BY DEF AwardsOf, AwardsIn, OwedFor, DecidedFor
<1> QED
    BY <1>1, <1>2 DEF Balanced, WholePr

\* A decision and its order point at the same quote.
LEMMA OrdersFollow == IInv => DecisionNamesItsOrder
<1> SUFFICES ASSUME IInv, Settled, NEW n \in owed, WholePr(PrOfRfq(apr[n].rfq))
             PROVE  /\ apr[n].status \in Favourable
                    /\ apr[n].result \in DOMAIN src.pos
                    /\ src.awards[src.pos[apr[n].result].award].quote = apr[n].quote
                    /\ \A m \in owed \ {n} : apr[m].kind \in AwardKinds =>
                          apr[m].result # apr[n].result
    BY ZenonT(60) DEF DecisionNamesItsOrder
<1>1. GoodStore(src) /\ NamedQuotes(src, apr, owed) /\ NamedOrders(src, apr, owed, torn)
    BY SettledFacts DEF Consistent
<1>2. apr[n].rfq \in DOMAIN src.rfqs
    BY <1>1 DEF NamedQuotes, QuotesOf, GoodStore, Referring
<1>3. src.rfqs[apr[n].rfq].pr \notin torn
    BY <1>2 DEF PrOfRfq, WholePr
<1>4. /\ apr[n].status \in Favourable /\ apr[n].result \in DOMAIN src.pos
      /\ src.awards[src.pos[apr[n].result].award].quote = apr[n].quote
    BY ZenonT(60), <1>1, <1>3 DEF NamedOrders
<1>5. apr[n].result # None
    BY SMTT(60), <1>1, <1>4 DEF GoodStore, Typed, TableOf, Counters, None
<1> QED
    BY <1>1, <1>4, <1>5 DEF NamedQuotes

\* An order, its award, its quote and its RFQ agree.
LEMMA TracesFollow == IInv => PoTraceable
<1> SUFFICES ASSUME IInv, Settled, NEW n \in DOMAIN src.pos, WholePr(src.pos[n].pr)
             PROVE  LET po == src.pos[n]
                        aw == src.awards[po.award]
                    IN  /\ aw.rfq = po.rfq /\ aw.pr = po.pr
                        /\ src.rfqs[po.rfq] = [pr |-> po.pr, status |-> "awarded"]
                        /\ src.quotes[aw.quote] =
                             [rfq |-> po.rfq, vendor |-> po.vendor, total |-> po.value]
                        /\ \A m \in DOMAIN src.pos \ {n} : src.pos[m].award # po.award
                        /\ src.prs[po.pr].po >= n
                        /\ src.pos[src.prs[po.pr].po].award = src.prs[po.pr].award
    BY ZenonT(60) DEF PoTraceable
<1> DEFINE po == src.pos[n]
           aw == src.awards[po.award]
<1>1. GoodStore(src) /\ TracedOrders(src, torn)
    BY SettledFacts DEF Consistent
<1>2. /\ po.award \in DOMAIN src.awards /\ aw.rfq = po.rfq /\ aw.pr = po.pr
      /\ src.rfqs[po.rfq].status = "awarded"
      /\ src.quotes[aw.quote].vendor = po.vendor /\ src.quotes[aw.quote].total = po.value
      /\ src.prs[po.pr].po >= n
      /\ src.pos[src.prs[po.pr].po].award = src.prs[po.pr].award
    BY ZenonT(60), <1>1 DEF TracedOrders, WholePr
<1>3. /\ po.rfq \in DOMAIN src.rfqs /\ src.rfqs[po.rfq].pr = po.pr
      /\ aw.quote \in DOMAIN src.quotes /\ src.quotes[aw.quote].rfq = aw.rfq
      /\ \A m \in DOMAIN src.pos \ {n} : src.pos[m].award # po.award
    BY ZenonT(60), <1>1, <1>2 DEF GoodStore, Referring
<1>4. src.rfqs[po.rfq] = [pr |-> po.pr, status |-> "awarded"]
  <2>1. src.rfqs[po.rfq] \in RFQ
    BY <1>1, <1>3 DEF GoodStore, Typed, TableOf, RowsIn
  <2> QED
    BY ZenonT(60), <2>1, <1>2, <1>3 DEF RFQ
<1>5. src.quotes[aw.quote] = [rfq |-> po.rfq, vendor |-> po.vendor, total |-> po.value]
  <2>1. src.quotes[aw.quote] \in Quote
    BY <1>1, <1>3 DEF GoodStore, Typed, TableOf, RowsIn
  <2> HIDE DEF po, aw
  <2> QED
    BY ZenonT(60), <2>1, <1>2, <1>3 DEF Quote
<1> QED
    BY ZenonT(60), <1>2, <1>3, <1>4, <1>5

\* In every reachable state the stores, in memory and on disk, hold rows of
\* their schemas (app/schemas.py).
THEOREM TypesHold == Spec => []TypeOK
BY IInvHolds, TypesFollow, PTL

\* Between handlers the two files hold what memory holds, unless the last flush
\* or a snapshot's write failed: no snapshot overwrites a later flush
\* (app/persistence.py).
THEOREM RestIsSaved == Spec => []SavedAtRest
<1>1. IInv => SavedAtRest
    BY DEF IInv, Stores, Truthful, Lagging, Whole, Rested, SavedAtRest, Settled
<1> QED
    BY IInvHolds, <1>1, PTL

\* An order or a decision a client was told of is there after every crash, unless
\* a crash came while something was unsaved, or left one of the two files half
\* written or found it so: whatever handlers, snapshots, failed flushes and other
\* crashes come in between.
THEOREM AnswersHold == Spec => []AnswersStand
<1>1. IInv => AnswersStand
    BY DEF IInv, Truthful, Told, AnswersStand
<1> QED
    BY IInvHolds, <1>1, PTL

\* The gate, the decision and the committer award a quote once per decision, over
\* any crash that cut no handler of its requisition short and lost nothing.
THEOREM AwardsMatchDecisions == Spec => []OneAwardPerDecision
BY IInvHolds, BalanceFollows, PTL

\* The order an approval names is the one its own award made.
THEOREM DecisionsNameOrders == Spec => []DecisionNamesItsOrder
BY IInvHolds, OrdersFollow, PTL

\* Every order traces back through its award to its quote and its requisition.
THEOREM OrdersTrace == Spec => []PoTraceable
BY IInvHolds, TracesFollow, PTL
=============================================================================
