------------------------------ MODULE GrnLedger ------------------------------
(***************************************************************************)
(* The quantities of GrnReceipt, for every number of GRNs, lines and POs:  *)
(* what a PO has received is what the stock ledger holds, receipts beyond  *)
(* its headroom are flagged, and deliveries are full when predicted.       *)
(***************************************************************************)
EXTENDS GrnProofs, Sums

-----------------------------------------------------------------------------
(* What a step does to the other fields of a PO                              *)

\* A receipt leaves the ordered quantity and the SAP quantity, and makes no PO
\* unknown.
LEMMA ReceiveFields ==
    ASSUME NEW po \in PoRecord, NEW r \in Receipts, NEW qty \in Nat
    PROVE  /\ Receive(po, r, qty).quantity = po.quantity
           /\ Receive(po, r, qty).sap = po.sap
           /\ Known(po) => Known(Receive(po, r, qty))
<1> DEFINE new == ApplyCtReceipt(po, qty)
<1>1. new \in PoRecord
  BY CtReceiptType
<1>2. new.quantity = po.quantity /\ new.sap = po.sap /\ (Known(po) => Known(new))
  BY DEF ApplyCtReceipt, PoRecord, Known
<1> HIDE DEF new
<1>3. /\ [new EXCEPT !.got[r] = @ + 1].quantity = new.quantity
      /\ [new EXCEPT !.got[r] = @ + 1].sap = new.sap
      /\ [new EXCEPT !.got[r] = @ + 1].status = new.status
  BY <1>1 DEF PoRecord
<1>4. Receive(po, r, qty) = [new EXCEPT !.got[r] = @ + 1]
  BY DEF Receive, new
<1> QED
  BY <1>2, <1>3, <1>4 DEF Known

\* A SAP event leaves the ordered quantity, lowers nothing and makes no PO unknown.
LEMMA SapFields ==
    ASSUME NEW po \in PoRecord, NEW kind \in SapKinds, NEW qty \in Nat
    PROVE  /\ ApplyToPo(po, kind, qty).quantity = po.quantity
           /\ ApplyToPo(po, kind, qty).sap >= po.sap
           /\ Known(po) => Known(ApplyToPo(po, kind, qty))
<1>1. po.sap \in Nat
  BY DEF PoRecord
<1>2. CASE kind = "gr_posted"
  <2> DEFINE st == IF po.sap + qty >= po.quantity THEN "delivered" ELSE po.status
  <2>1. ApplyToPo(po, kind, qty) = [po EXCEPT !.sap = @ + qty, !.status = st]
    BY <1>2 DEF ApplyToPo
  <2> HIDE DEF st
  <2>2. ApplyToPo(po, kind, qty).quantity = po.quantity
        /\ ApplyToPo(po, kind, qty).sap = po.sap + qty
        /\ ApplyToPo(po, kind, qty).status = st
    BY <2>1 DEF PoRecord
  <2>3. Known(po) => st # "lost"
    BY DEF st, Known
  <2> QED
    BY <1>1, <2>2, <2>3 DEF Known
<1>3. CASE kind # "gr_posted"
  <2>1. /\ ApplyToPo(po, kind, qty).quantity = po.quantity
        /\ ApplyToPo(po, kind, qty).sap = po.sap
        /\ ApplyToPo(po, kind, qty).status \in {"released", "delivered"}
    BY <1>3 DEF ApplyToPo, SapKinds, PoRecord
  <2> QED
    BY <1>1, <2>1 DEF Known
<1> QED
  BY <1>2, <1>3

\* The steps that change the stores of the process.
LEMMA MemStep ==
    ASSUME [Next]_vars, ~CrashAndRestore
    PROVE  \/ ApplyReceipt \/ EmitConfirmed \/ UNCHANGED mem
           \/ \E q \in POs : SapEvent(q)
<1>1. ASSUME \/ BeginSync \/ EndSync \/ AbortSync \/ FlushAudit \/ FlushSourcing \/ Stamp
             \/ FlushFails \/ StampLocked \/ Snapshot \/ FinishStartup \/ UNCHANGED vars
      PROVE  UNCHANGED mem
  BY <1>1 DEF BeginSync, EndSync, AbortSync, FlushAudit, FlushSourcing, Stamp, FlushFails,
     StampLocked, Snapshot, SnapshotBegin, SnapshotRead, SnapshotSourcing, SnapshotAudit,
     SnapshotFails, SnapshotCut, FinishStartup, procVars, vars
<1>2. ASSUME NEW g \in GrnIds,
             \/ ScheduleExtraction(g) \/ StartExtraction(g) \/ EndExtraction(g)
             \/ ExtractionRaises(g) \/ Confirm(g) \/ ReplayConfirm(g) \/ Reject(g)
             \/ SweepGrn(g)
      PROVE  UNCHANGED mem
  BY <1>2 DEF ScheduleExtraction, StartExtraction, EndExtraction, ExtractionRaises, Confirm,
     ReplayConfirm, Reject, SweepGrn, otherThanTask, procVars
<1> QED
  BY <1>1, <1>2 DEF Next, Effects

\* But for a crash, the process keeps what was ordered and what SAP reported, and
\* does nothing with a PO it does not know.
LEMMA FieldsStep ==
    ASSUME Core, [Next]_vars, ~CrashAndRestore, NEW p \in POs
    PROVE  /\ mem'.po[p].quantity = mem.po[p].quantity
           /\ mem'.po[p].sap >= mem.po[p].sap
           /\ Known(mem'.po[p]) <=> Known(mem.po[p])
           /\ ~Known(mem.po[p]) => mem'.po[p] = mem.po[p]
<1>0. mem \in Stores /\ mem.po \in PoTable /\ mem.po[p] \in PoRecord /\ mem.po[p].sap \in Nat
  BY DEF Core, TypeOK, Stores, PoTable, PoRecord
<1>1. CASE mem'.po[p] = mem.po[p]
  BY <1>0, <1>1
<1>2. CASE ApplyReceipt
  <2>1. job.grn \in GrnIds
    BY SMTT(60), <1>2, ApplyStep
  <2>2. PICK l \in job.todo :
          LET q == lines[job.grn][l].po
          IN  mem' = IF q \notin KnownPOs THEN mem
                     ELSE [mem EXCEPT !.po[q] =
                              Receive(@, <<job.grn, l>>, lines[job.grn][l].qty)]
    BY ZenonT(60), <1>2 DEF ApplyReceipt
  <2> DEFINE r == <<job.grn, l>>
             qty == lines[job.grn][l].qty
  <2>3. l \in Credits(lines[job.grn]) /\ l \in LineNos
    BY <1>2, <2>1, ApplyStep DEF Core, JobOwes, Credits, Present
  <2>4. r \in Receipts /\ qty \in Nat
    <3>1. r \in Receipts
      BY <2>1, <2>3 DEF Receipts
    <3>2. qty \in Nat
      BY <2>1, <2>3 DEF Credits, Present, Core, TypeOK, LineTable, Line
    <3> QED
      BY <3>1, <3>2
  <2>5. \/ mem'.po[p] = mem.po[p]
        \/ Known(mem.po[p]) /\ mem'.po[p] = Receive(mem.po[p], r, qty)
    BY <1>0, <2>2 DEF Stores, PoTable, KnownPOs
  <2> HIDE DEF r, qty
  <2> QED
    BY <1>0, <1>1, <2>4, <2>5, ReceiveFields
<1>3. ASSUME NEW q \in POs, SapEvent(q)
      PROVE  /\ mem'.po[p].quantity = mem.po[p].quantity /\ mem'.po[p].sap >= mem.po[p].sap
             /\ Known(mem'.po[p]) <=> Known(mem.po[p])
             /\ ~Known(mem.po[p]) => mem'.po[p] = mem.po[p]
  <2>1. PICK kind \in SapKinds, qty \in SapQtys, old \in SUBSET GrnIds :
          mem' = [mem EXCEPT !.po[q] = ApplyToPo(@, kind, qty), !.audit = @ \ old]
    BY <1>3 DEF SapEvent
  <2>2. qty \in Nat
    BY ReceiptConstants
  <2>3. \/ mem'.po[p] = mem.po[p]
        \/ Known(mem.po[p]) /\ mem'.po[p] = ApplyToPo(mem.po[p], kind, qty)
    BY <1>0, <1>3, <2>1 DEF Stores, PoTable, SapEvent, KnownPOs
  <2> QED
    BY <1>0, <1>1, <2>2, <2>3, SapFields
<1>4. CASE EmitConfirmed
  BY <1>0, <1>1, <1>4 DEF EmitConfirmed, Stores
<1>5. CASE UNCHANGED mem
  BY <1>1, <1>5
<1> QED
  BY <1>2, <1>3, <1>4, <1>5, MemStep

-----------------------------------------------------------------------------
(* What a PO has received is the sum of what it counts                       *)

\* The quantity in the stock ledger for each receipt.
Amounts == [r \in Receipts |-> ledger[r[1]][r[2]]]

\* The receipts po counts, and how much each brought with the times it counts.
Counts(po) == {r \in Receipts : po.got[r] > 0}
Brought(po, a) == [r \in Receipts |-> po.got[r] * a[r]]

\* po.ct is the sum of what was accumulated on it, the amounts being a.
Adds(po, a) ==
    /\ IsFiniteSet(Counts(po))
    /\ po.ct = Total(Brought(po, a), Counts(po))

\* It is so in the process, the state files and the snapshot's copy.
Summed ==
    \A p \in POs : /\ Adds(mem.po[p], Amounts)
                   /\ Adds(disk.po[p], Amounts)
                   /\ snap.po[p] # None => Adds(snap.po[p], Amounts)

\* The ledger has what the lines of a confirmed GRN say.
Posted == \A g \in GrnIds : Confirmed(g) =>
              \A l \in LineNos : ledger[g][l] = LedgerQty(lines[g][l])

LEMMA BroughtType ==
    ASSUME NEW po \in PoRecord, NEW a \in [Receipts -> Nat]
    PROVE  Brought(po, a) \in [Receipts -> Nat]
<1> SUFFICES ASSUME NEW r \in Receipts PROVE po.got[r] * a[r] \in Nat
  BY DEF Brought
<1>1. po.got[r] \in Nat /\ a[r] \in Nat
  BY DEF PoRecord
<1> QED
  BY <1>1

\* A receipt that is accumulated.
LEMMA AddsReceipt ==
    ASSUME NEW po \in PoRecord, NEW a \in [Receipts -> Nat], Adds(po, a),
           NEW r \in Receipts, NEW new, new.ct = po.ct + a[r],
           new.got = [po.got EXCEPT ![r] = @ + 1]
    PROVE  Adds(new, a)
<1> DEFINE w == Brought(po, a)
           v == Brought(new, a)
           S == Counts(po)
           T == Counts(new)
<1>1. po.got \in [Receipts -> Nat] /\ new.got \in [Receipts -> Nat]
  BY DEF PoRecord
<1>2. T = S \cup {r}
  BY <1>1 DEF Counts
<1>3. IsFiniteSet(S) /\ IsFiniteSet(T)
  <2>1. IsFiniteSet(S)
    BY DEF Adds
  <2> HIDE DEF S, T
  <2> QED
    BY <1>2, <2>1, FS_AddElement
<1>4. /\ \A q \in Receipts : w[q] \in Nat
      /\ \A q \in Receipts : q # r => v[q] = w[q]
  BY <1>1, BroughtType DEF Brought
<1>5. v[r] = w[r] + a[r] /\ a[r] \in Nat /\ w[r] \in Nat
  <2> DEFINE n == po.got[r]
             m == a[r]
  <2>1. n \in Nat /\ m \in Nat /\ new.got[r] = n + 1 /\ w[r] = n * m /\ v[r] = new.got[r] * m
    BY <1>1 DEF Brought
  <2> HIDE DEF n
  <2>2. (n + 1) * m = n * m + m
    BY <2>1
  <2> QED
    BY <1>4, <2>1, <2>2
<1>6. S \subseteq Receipts /\ T \subseteq Receipts /\ r \in T
  BY <1>2 DEF Counts
<1>7. Total(w, S) = Total(w, T)
  <2>1. \A q \in T \ S : w[q] = 0
    BY <1>1, <1>2 DEF Counts, Brought
  <2>2. S \in SUBSET T /\ \A q \in T : w[q] \in Nat
    BY <1>2, <1>4, <1>6
  <2> HIDE DEF S, T, w
  <2> QED
    BY <1>3, <2>1, <2>2, TotalPart
<1>8. \A q \in Receipts : v[q] \in Nat
  BY <1>4, <1>5
<1> DEFINE R == T \ {r}
<1>9. Total(v, R) = Total(w, R)
  <2>1. \A q \in R : v[q] = w[q]
    BY <1>4, <1>6
  <2> HIDE DEF R, v, w
  <2> QED
    BY <2>1, TotalSame
<1>10. IsFiniteSet(R) /\ \A q \in R : w[q] \in Nat
  <2>1. IsFiniteSet(R)
    BY <1>3, FS_RemoveElement
  <2> QED
    BY <1>4, <1>6, <2>1
<1>11. Total(w, R) \in Nat
  <2> HIDE DEF R, w
  <2> QED
    BY <1>10, TotalType
<1> HIDE DEF w, v, S, T
<1>12. \A q \in T : w[q] \in Nat /\ v[q] \in Nat
  BY <1>4, <1>6, <1>8
<1>13. Total(w, T) = w[r] + Total(w, R) /\ Total(v, T) = v[r] + Total(v, R)
  BY <1>3, <1>6, <1>12, TotalRemove
<1>14. po.ct = Total(w, S)
  BY DEF Adds, w, S
<1> HIDE DEF R
<1>15. new.ct = Total(v, T)
  BY <1>5, <1>7, <1>9, <1>11, <1>13, <1>14
<1> QED
  BY <1>3, <1>15 DEF Adds, T, v

\* Amounts that change where po does not count do not matter.
LEMMA AddsKept ==
    ASSUME NEW po, NEW a, Adds(po, a), NEW b, \A r \in Counts(po) : b[r] = a[r],
           NEW new, new.ct = po.ct, new.got = po.got
    PROVE  Adds(new, b)
<1>1. Counts(new) = Counts(po)
  BY DEF Counts
<1> DEFINE w == Brought(po, a)
           v == Brought(new, b)
<1>2. \A r \in Counts(po) : w[r] = v[r]
  BY DEF Brought, Counts
<1> HIDE DEF w, v
<1>3. Total(w, Counts(po)) = Total(v, Counts(po))
  BY <1>2, TotalSame
<1> QED
  BY <1>1, <1>3 DEF Adds, w, v

\* The quantities of the line the handler is at.
LEMMA ApplyCt ==
    ASSUME Core, Posted, ApplyReceipt, NEW p \in POs
    PROVE  \/ mem'.po[p] = mem.po[p]
           \/ \E r \in Receipts :
                 /\ mem'.po[p].ct = mem.po[p].ct + Amounts[r]
                 /\ mem'.po[p].got = [mem.po[p].got EXCEPT ![r] = @ + 1]
<1>1. job.grn \in GrnIds /\ job \in ConfirmJob
  BY SMTT(60), ApplyStep
<1>2. PICK l \in job.todo :
        LET q == lines[job.grn][l].po
        IN  mem' = IF q \notin KnownPOs THEN mem
                   ELSE [mem EXCEPT !.po[q] =
                            Receive(@, <<job.grn, l>>, lines[job.grn][l].qty)]
  BY ZenonT(60) DEF ApplyReceipt
<1>3. l \in Credits(lines[job.grn]) /\ l \in LineNos /\ Confirmed(job.grn) /\ job # None
  BY <1>1, ApplyStep DEF Core, JobOwes, Credits, Present
<1> DEFINE r == <<job.grn, l>>
           qty == lines[job.grn][l].qty
<1>4. qty \in Nat /\ r \in Receipts /\ Amounts[r] = qty
  <2>1. r \in Receipts /\ r[1] = job.grn /\ r[2] = l
    BY <1>1, <1>3 DEF Receipts
  <2>2. lines[job.grn][l] # None /\ qty \in Nat
    BY <1>1, <1>3 DEF Credits, Present, Core, TypeOK, LineTable, Line
  <2>3. ledger[job.grn][l] = qty
    BY <1>1, <1>3, <2>2 DEF Posted, LedgerQty
  <2> HIDE DEF r, qty
  <2> QED
    BY <2>1, <2>2, <2>3 DEF Amounts, qty
<1>5. mem \in Stores /\ mem.po \in PoTable /\ mem.po[p] \in PoRecord
  BY DEF Core, TypeOK, Stores, PoTable
<1>6. CASE mem'.po[p] = mem.po[p]
  BY <1>6
<1>7. CASE mem'.po[p] = Receive(mem.po[p], r, qty)
  <2> HIDE DEF r, qty
  <2>1. Receive(mem.po[p], r, qty).got = [mem.po[p].got EXCEPT ![r] = @ + 1]
    BY <1>4, <1>5, ReceiveGot
  <2> DEFINE new == ApplyCtReceipt(mem.po[p], qty)
  <2>2. new \in PoRecord /\ new.ct = mem.po[p].ct + qty
    BY <1>4, <1>5, CtReceiptType DEF ApplyCtReceipt, PoRecord
  <2> HIDE DEF new
  <2>3. [new EXCEPT !.got[r] = @ + 1].ct = new.ct
    BY <2>2 DEF PoRecord
  <2>4. Receive(mem.po[p], r, qty) = [new EXCEPT !.got[r] = @ + 1]
    BY DEF Receive, new
  <2>5. mem'.po[p].ct = mem.po[p].ct + Amounts[r]
    BY <1>4, <1>7, <2>2, <2>3, <2>4
  <2>6. mem'.po[p].got = [mem.po[p].got EXCEPT ![r] = @ + 1]
    BY <1>7, <2>1
  <2> QED
    BY <1>4, <2>5, <2>6
<1>8. mem'.po[p] = mem.po[p] \/ mem'.po[p] = Receive(mem.po[p], r, qty)
  BY <1>2, <1>5 DEF Stores, PoTable, KnownPOs
<1> QED
  BY <1>6, <1>7, <1>8

\* Every other step but a crash leaves the quantities.
LEMMA CtStep ==
    ASSUME Core, [Next]_vars, ~CrashAndRestore, ~ApplyReceipt, NEW p \in POs
    PROVE  mem'.po[p].ct = mem.po[p].ct /\ mem'.po[p].got = mem.po[p].got
<1>0. mem \in Stores /\ mem.po \in PoTable /\ mem.po[p] \in PoRecord
  BY DEF Core, TypeOK, Stores, PoTable
<1>1. mem'.po[p].got = mem.po[p].got
  BY GotStep DEF Recounted
<1>2. CASE UNCHANGED mem
  BY <1>2
<1>3. CASE EmitConfirmed
  BY <1>0, <1>3 DEF EmitConfirmed, Stores
<1>4. ASSUME NEW q \in POs, SapEvent(q)
      PROVE  mem'.po[p].ct = mem.po[p].ct
  <2>1. PICK kind \in SapKinds, qty \in SapQtys, old \in SUBSET GrnIds :
          mem' = [mem EXCEPT !.po[q] = ApplyToPo(@, kind, qty), !.audit = @ \ old]
    BY <1>4 DEF SapEvent
  <2>2. mem.po[q] \in PoRecord
    BY DEF Core, TypeOK, Stores, PoTable
  <2>3. ApplyToPo(mem.po[q], kind, qty).ct = mem.po[q].ct
    BY <2>2 DEF ApplyToPo, SapKinds, PoRecord
  <2> QED
    BY <1>0, <2>1, <2>3 DEF Stores, PoTable
<1> QED
  BY <1>1, <1>2, <1>3, <1>4, MemStep

\* A GRN becomes confirmed by its confirm.
LEMMA NewlyConfirmed ==
    ASSUME Mirrored, [Next]_vars, NEW g \in GrnIds, ~Confirmed(g), Confirmed(g)'
    PROVE  Confirm(g)
<1> USE DEF Mirrored, Counted
<1>0. grn \in [GrnIds -> GrnRow]
  BY DEF Core, TypeOK
<1>1. ~FileStep
  BY DEF FileStep, FlushAudit, FlushSourcing, SnapshotBegin, SnapshotRead, SnapshotSourcing,
     SnapshotAudit, SnapshotFails, SnapshotCut, FlushFails, CrashAndRestore, storeVars,
     Confirmed
<1>2. ~EndSync
  <2> SUFFICES ASSUME EndSync PROVE FALSE
    OBVIOUS
  <2>1. upload.grn \in GrnIds
    BY CommittedRow DEF Upload
  <2>2. PICK st \in {"captured"} \cup Banded, ext \in ExtractionStatuses :
          grn' = [grn EXCEPT ![upload.grn] = [st |-> st, ext |-> ext, dev |-> upload.dev,
                                              seq |-> upload.seq, photo |-> upload.photo,
                                              no |-> 0, stamped |-> FALSE]]
    BY CommittedRow
  <2> QED
    BY <1>0, <2>1, <2>2 DEF Confirmed, Banded
<1>3. ASSUME NEW h \in GrnIds, Confirm(h) PROVE g = h
  BY <1>0, <1>3 DEF Confirm, ConfirmTransaction, Confirmed
<1>4. ASSUME NEW h \in GrnIds, Reject(h) PROVE FALSE
  <2>1. ClosedRow(grn[h], "cancelled", grn[h].no).st = "cancelled"
    BY <1>0 DEF ClosedRow, GrnRow
  <2> QED
    BY <1>0, <1>4, <2>1 DEF Reject, RejectTransaction, Confirmed
<1>5. (\A h \in GrnIds : ~Confirm(h) /\ ~Reject(h)) => UNCHANGED BookPage
  BY <1>1, <1>2, BookStutters DEF Book!bookVars
<1>6. BookPage[g] # "posted" /\ BookPage'[g] = "posted"
  BY DEF BookPage, Confirmed
<1> QED
  BY <1>3, <1>4, <1>5, <1>6

\* The ledger entries of a confirmed GRN stay.
LEMMA LedgerStays ==
    ASSUME Core, [Next]_vars, NEW g \in GrnIds, Confirmed(g)
    PROVE  ledger'[g] = ledger[g]
<1>1. ASSUME NEW h \in GrnIds, Confirm(h) PROVE ledger'[g] = ledger[g]
  <2>1. g # h
    BY <1>1 DEF Confirm, ConfirmTransaction, Awaiting, Banded, Confirmed
  <2>2. ledger \in [GrnIds -> [LineNos -> Nat]]
    BY DEF Core, TypeOK
  <2> QED
    BY <1>1, <2>1, <2>2 DEF Confirm, ConfirmTransaction
<1> QED
  BY <1>1, LedgerStep

LEMMA PostedStep == Mirrored /\ Posted /\ [Next]_vars => Posted'
<1> SUFFICES ASSUME Mirrored, Posted, [Next]_vars, NEW g \in GrnIds, Confirmed(g)',
                    NEW l \in LineNos
             PROVE  ledger'[g][l] = LedgerQty(lines[g][l])'
  BY DEF Posted
<1> USE DEF Mirrored, Counted
<1>1. CASE Confirmed(g)
  <2>1. lines'[g] = lines[g] /\ ledger'[g] = ledger[g]
    BY <1>1, LedgerStays, StepKeeps DEF Kept
  <2> QED
    BY <1>1, <2>1 DEF Posted, LedgerQty
<1>2. CASE ~Confirmed(g)
  <2>1. Confirm(g)
    BY <1>2, NewlyConfirmed
  <2>2. ledger \in [GrnIds -> [LineNos -> Nat]] /\ lines' \in [GrnIds -> LineTable]
    BY TypeStep DEF Core, TypeOK
  <2>3. ledger'[g][l] = ledger[g][l] + LedgerQty(lines'[g][l])
    BY <2>1, <2>2 DEF Confirm, ConfirmTransaction
  <2>4. ledger[g][l] = 0
    BY <1>2 DEF Unposted
  <2>5. LedgerQty(lines'[g][l]) \in Nat
    BY <2>2 DEF LedgerQty, LineTable, Line
  <2>6. ledger'[g][l] = LedgerQty(lines'[g][l])
    BY <2>3, <2>4, <2>5
  <2> QED
    BY <2>6 DEF LedgerQty
<1> QED
  BY <1>1, <1>2

\* Whatever copy counts a receipt, its amount stays.
LEMMA AmountsKept ==
    ASSUME Core, [Next]_vars, NEW r \in Receipts, Confirmed(r[1])
    PROVE  Amounts'[r] = Amounts[r]
<1>1. r[1] \in GrnIds /\ r[2] \in LineNos
  BY DEF Receipts
<1>2. ledger'[r[1]] = ledger[r[1]]
  BY <1>1, LedgerStays
<1> QED
  BY <1>2 DEF Amounts

\* A PO of which nothing is known adds up to nothing.
LEMMA AddsNothing ==
    ASSUME NEW p \in POs, NEW a
    PROVE  Adds(LostTable[p], a)
<1>1. Counts(LostTable[p]) = {} /\ LostTable[p].ct = 0
  BY DEF Counts, LostTable
<1>2. Total(Brought(LostTable[p], a), {}) = 0
  BY TotalEmpty
<1> QED
  BY <1>1, <1>2, FS_EmptySet DEF Adds

LEMMA SummedStep == Mirrored /\ Posted /\ Summed /\ [Next]_vars => Summed'
<1> SUFFICES ASSUME Mirrored, Posted, Summed, [Next]_vars, NEW p \in POs
             PROVE  /\ Adds(mem'.po[p], Amounts')
                    /\ Adds(disk'.po[p], Amounts')
                    /\ snap'.po[p] # None => Adds(snap'.po[p], Amounts')
  BY DEF Summed, Adds
<1> USE DEF Mirrored, Counted
<1>0. /\ mem.po[p] \in PoRecord /\ disk.po[p] \in PoRecord
      /\ snap.po[p] # None => snap.po[p] \in PoRecord
  BY DEF Core, TypeOK, Stores, Disk, PoTable, Snap
<1>1. Amounts \in [Receipts -> Nat]
  <2>1. ledger \in [GrnIds -> [LineNos -> Nat]]
    BY DEF Core, TypeOK
  <2> QED
    BY <2>1 DEF Amounts, Receipts
<1>2. /\ \A r \in Counts(mem.po[p]) : Amounts'[r] = Amounts[r]
      /\ \A r \in Counts(disk.po[p]) : Amounts'[r] = Amounts[r]
      /\ snap.po[p] # None => \A r \in Counts(snap.po[p]) : Amounts'[r] = Amounts[r]
  <2> SUFFICES ASSUME NEW r \in Receipts,
                      \/ mem.po[p].got[r] > 0 \/ disk.po[p].got[r] > 0
                      \/ snap.po[p] # None /\ snap.po[p].got[r] > 0
               PROVE  Amounts'[r] = Amounts[r]
    BY DEF Counts
  <2>1. PICK g \in GrnIds, l \in LineNos : r = <<g, l>>
    BY DEF Receipts
  <2>2. Confirmed(g)
    BY <2>1 DEF CountedOnce, Once
  <2>3. r[1] = g
    BY <2>1
  <2> QED
    BY <2>2, <2>3, AmountsKept
<1>3. /\ Adds(mem.po[p], Amounts') /\ Adds(disk.po[p], Amounts')
      /\ snap.po[p] # None => Adds(snap.po[p], Amounts')
  <2>1. /\ Adds(mem.po[p], Amounts) /\ Adds(disk.po[p], Amounts)
        /\ snap.po[p] # None => Adds(snap.po[p], Amounts)
    BY DEF Summed
  <2>2. PICK a, b : a = Amounts /\ b = Amounts'
    OBVIOUS
  <2> QED
    BY <1>2, <2>1, <2>2, AddsKept
<1>4. Adds(disk'.po[p], Amounts') /\ (snap'.po[p] # None => Adds(snap'.po[p], Amounts'))
  <2>1. /\ \/ disk'.po[p] = disk.po[p] \/ disk'.po[p] = mem.po[p]
           \/ snap.po[p] # None /\ disk'.po[p] = snap.po[p]
           \/ disk'.po[p] = LostTable[p]
        /\ snap'.po[p] \in {None, snap.po[p], mem.po[p]}
    BY CopyStep
  <2>2. PICK a : a = Amounts'
    OBVIOUS
  <2>3. Adds(LostTable[p], a)
    BY AddsNothing
  <2> QED
    BY <1>3, <2>1, <2>2, <2>3
<1>5. Adds(mem'.po[p], Amounts')
  <2>1. CASE CrashAndRestore
    BY <1>4, <2>1, CopyStep
  <2>2. CASE ApplyReceipt
    <3>1. Amounts' = Amounts
      BY <2>2 DEF ApplyReceipt, storeVars, Amounts
    <3>2. CASE mem'.po[p] = mem.po[p]
      BY <1>3, <3>2
    <3>3. ASSUME NEW r \in Receipts, mem'.po[p].ct = mem.po[p].ct + Amounts[r],
                 mem'.po[p].got = [mem.po[p].got EXCEPT ![r] = @ + 1]
          PROVE  Adds(mem'.po[p], Amounts)
      <4>1. Adds(mem.po[p], Amounts)
        BY DEF Summed
      <4>2. PICK po, new, a : po = mem.po[p] /\ new = mem'.po[p] /\ a = Amounts
        OBVIOUS
      <4>3. /\ po \in PoRecord /\ a \in [Receipts -> Nat] /\ Adds(po, a)
            /\ new.ct = po.ct + a[r] /\ new.got = [po.got EXCEPT ![r] = @ + 1]
        BY <1>0, <1>1, <3>3, <4>1, <4>2
      <4>4. Adds(new, a)
        BY <4>3, AddsReceipt
      <4> QED
        BY <4>2, <4>4
    <3> QED
      BY <2>2, <3>1, <3>2, <3>3, ApplyCt
  <2>3. CASE ~CrashAndRestore /\ ~ApplyReceipt
    <3>1. mem'.po[p].ct = mem.po[p].ct /\ mem'.po[p].got = mem.po[p].got
      BY <2>3, CtStep
    <3>2. PICK po, new, a : po = mem.po[p] /\ new = mem'.po[p] /\ a = Amounts'
      OBVIOUS
    <3>3. Adds(po, a) /\ new.ct = po.ct /\ new.got = po.got
      BY <1>3, <3>1, <3>2
    <3>4. Adds(new, a)
      BY <3>3, AddsKept
    <3> QED
      BY <3>2, <3>4
  <2> QED
    BY <2>1, <2>2, <2>3
<1> QED
  BY <1>4, <1>5

-----------------------------------------------------------------------------
(* While the process serves, every confirmed receipt has landed              *)

Landed(g) == \A p \in POs : LandedIn(mem.po[p], p, g)

\* The receipts of a confirmed GRN are in the process once its handler is done
\* with it; a crash loses them only after a failed flush and the stamp.
Kempt(g) == Confirmed(g) /\ (g \notin lapsed \/ ~grn[g].stamped)

AllLanded ==
    mode = "up" =>
        \A g \in GrnIds : Kempt(g) /\ (job = None \/ job.grn # g) => Landed(g)

LEMMA LandedKept ==
    ASSUME Core, [Next]_vars, ~CrashAndRestore, NEW g \in GrnIds, Confirmed(g), Landed(g)
    PROVE  Landed(g)'
<1> SUFFICES ASSUME NEW p \in POs, NEW l \in LineNos, CreditsTo(g, l, p)',
                    Known(mem'.po[p])
             PROVE  mem'.po[p].got[<<g, l>>] >= 1
  BY DEF Landed, LandedIn
<1>0. Known(mem.po[p])
  BY MemGrows DEF Grows
<1>1. mem.po[p].got[<<g, l>>] >= 1
  BY <1>0, CreditsFixed DEF Landed, LandedIn
<1>2. <<g, l>> \in Receipts
  BY DEF Receipts
<1>3. mem'.po[p].got[<<g, l>>] >= mem.po[p].got[<<g, l>>]
  BY <1>2, MemGrows DEF Grows
<1>4. mem.po[p].got[<<g, l>>] \in Nat /\ mem'.po[p].got[<<g, l>>] \in Nat
  <2>1. mem \in Stores /\ mem' \in Stores
    BY TypeStep DEF Core, TypeOK
  <2> QED
    BY <1>2, <2>1 DEF Stores, PoTable, PoRecord
<1> QED
  BY <1>1, <1>3, <1>4

\* A handler leaves its GRN at the stamp only.
LEMMA JobEnds ==
    ASSUME Core, [Next]_vars, ~CrashAndRestore, NEW g \in GrnIds, job # None, job.grn = g,
           job' = None \/ job'.grn # g
    PROVE  job.at = "stamp"
<1>0. job \in ConfirmJob \cup SapJob \cup {None} /\ g # None
  BY StoreConstants DEF Core, TypeOK
<1>1. job' # job
  OBVIOUS
<1>2. CASE ApplyReceipt
  <2>1. PICK l \in job.todo : job' = [job EXCEPT !.todo = @ \ {l}]
    BY <1>2, ApplyStep
  <2>2. job \in ConfirmJob
    BY <1>2, ApplyStep
  <2>3. job' # None /\ job'.grn = g
    BY <2>1, <2>2, NoneIsNoJob DEF ConfirmJob
  <2> QED
    BY <2>3
<1>3. CASE EmitConfirmed \/ FlushAudit \/ FlushSourcing \/ FlushFails
  <2>1. job \in ConfirmJob
    BY <1>0, StoreConstants DEF SapJob
  <2>2. \E at \in {"audit", "sourcing", "stamp"} : job' = [job EXCEPT !.at = at]
    BY <1>0, <1>3 DEF EmitConfirmed, FlushAudit, FlushSourcing, FlushFails, AfterFlush
  <2>3. job' \in ConfirmJob /\ job'.grn = g
    BY <2>1, <2>2 DEF ConfirmJob
  <2> QED
    BY <2>3, NoneIsNoJob
<1>4. CASE Stamp \/ StampLocked
  BY <1>4 DEF Stamp, StampLocked
<1>5. ASSUME \/ BeginSync \/ EndSync \/ AbortSync \/ Snapshot \/ FinishStartup \/ UNCHANGED vars
      PROVE  UNCHANGED job
  BY <1>5 DEF BeginSync, EndSync, AbortSync, Snapshot, SnapshotBegin, SnapshotRead,
     SnapshotSourcing, SnapshotAudit, SnapshotFails, SnapshotCut, FinishStartup, procVars, vars
<1>6. ASSUME NEW h \in GrnIds,
             \/ ScheduleExtraction(h) \/ StartExtraction(h) \/ EndExtraction(h)
             \/ ExtractionRaises(h) \/ ReplayConfirm(h) \/ Reject(h)
      PROVE  UNCHANGED job
  BY <1>6 DEF ScheduleExtraction, StartExtraction, EndExtraction, ExtractionRaises,
     ReplayConfirm, Reject, otherThanTask, procVars
<1>7. ASSUME NEW h \in GrnIds, Confirm(h) \/ SweepGrn(h) PROVE FALSE
  BY <1>7 DEF Confirm, SweepGrn, LoopFree
<1>8. ASSUME NEW p \in POs, SapEvent(p) PROVE FALSE
  BY <1>8 DEF SapEvent, LoopFree
<1> QED
  BY <1>1, <1>2, <1>3, <1>4, <1>5, <1>6, <1>7, <1>8 DEF Next, Effects

LEMMA LapsedGrows == [Next]_vars => lapsed \subseteq lapsed'
  BY DEF Next, vars, boundVars, historyVars, procVars, otherThanTask, otherThanJob, BeginSync,
     EndSync, AbortSync, ScheduleExtraction, StartExtraction, EndExtraction, ExtractionRaises,
     Confirm, ReplayConfirm, Reject, SweepGrn, Effects, ApplyReceipt, EmitConfirmed, FlushAudit,
     FlushSourcing, Stamp, FlushFails, StampLocked, SapEvent, Snapshot, SnapshotBegin,
     SnapshotRead, SnapshotSourcing, SnapshotAudit, SnapshotFails, SnapshotCut, CrashAndRestore,
     FinishStartup

\* Serving starts with the end of the sweep.
LEMMA ModeStep ==
    ASSUME [Next]_vars, mode' = "up", mode # "up"
    PROVE  FinishStartup
  BY DEF Next, vars, boundVars, historyVars, procVars, otherThanTask, otherThanJob, BeginSync,
     EndSync, AbortSync, ScheduleExtraction, StartExtraction, EndExtraction, ExtractionRaises,
     Confirm, ReplayConfirm, Reject, SweepGrn, Effects, ApplyReceipt, EmitConfirmed, FlushAudit,
     FlushSourcing, Stamp, FlushFails, StampLocked, SapEvent, Snapshot, SnapshotBegin,
     SnapshotRead, SnapshotSourcing, SnapshotAudit, SnapshotFails, SnapshotCut, CrashAndRestore,
     FinishStartup

LEMMA AllLandedStep ==
    Mirrored /\ Durably /\ GrnNosDistinct /\ AllLanded /\ [Next]_vars => AllLanded'
<1> SUFFICES ASSUME Mirrored, Durably, GrnNosDistinct, AllLanded, [Next]_vars,
                    mode' = "up", NEW g \in GrnIds, Kempt(g)', job' = None \/ job'.grn # g
             PROVE  Landed(g)'
  BY DEF AllLanded
<1> USE DEF Mirrored, Counted
<1>1. ~CrashAndRestore
  BY DEF CrashAndRestore
<1>2. Confirmed(g) => Kempt(g)
  BY LapsedGrows, StepKeeps DEF Kept, Kempt
<1>3. CASE mode # "up"
  <2>1. FinishStartup
    BY <1>3, ModeStep
  <2>2. UNCHANGED <<grn, lines, mem>> /\ ~NeedsSweep(g)
    BY <2>1 DEF FinishStartup, storeVars
  <2>3. Confirmed(g)
    BY <2>2 DEF Kempt, Confirmed
  <2>4. grn[g].stamped
    BY <2>2, <2>3 DEF NeedsSweep, Unstamped, GrnNosDistinct
  <2>5. Landed(g)
    BY <1>2, <2>3, <2>4 DEF Kempt, Durably, StampedInStores, InStores, Landed
  <2> QED
    BY <1>1, <2>3, <2>5, LandedKept
<1>4. CASE mode = "up" /\ ~Confirmed(g)
  <2>1. Confirm(g)
    BY <1>4, NewlyConfirmed DEF Kempt
  <2>2. job' # None /\ job'.grn = g
    <3>1. job' = EffectsOf(g, lines'[g], TRUE)
      BY <2>1 DEF Confirm
    <3>2. Credits(lines'[g]) \subseteq LineNos
      BY DEF Credits, Present
    <3>3. job' \in ConfirmJob
      BY <3>1, <3>2 DEF EffectsOf, ConfirmJob
    <3> QED
      BY <3>1, <3>3, NoneIsNoJob DEF EffectsOf
  <2> QED
    BY <2>2
<1>5. CASE mode = "up" /\ Confirmed(g) /\ (job = None \/ job.grn # g)
  BY <1>1, <1>2, <1>5, LandedKept DEF AllLanded
<1>6. CASE mode = "up" /\ Confirmed(g) /\ job # None /\ job.grn = g
  <2>1. job.at = "stamp"
    BY <1>1, <1>6, JobEnds
  <2>2. Progress(g)
    BY <1>6 DEF Durably, JobProgress
  <2>3. Landed(g)
    BY <2>1, <2>2 DEF Progress, Landed, LandedIn
  <2> QED
    BY <1>1, <1>6, <2>3, LandedKept
<1> QED
  BY <1>3, <1>4, <1>5, <1>6

-----------------------------------------------------------------------------
(* The sum over the stock ledger                                             *)

\* The sum over the posted receipts, as the property writes it.
LEMMA LedgerSum ==
    ASSUME NEW S \in SUBSET Receipts
    PROVE  MapThenSumSet(LAMBDA r : ledger[r[1]][r[2]], S) = Total(Amounts, S)
<1> DEFINE Table(g) ==
        g = [s \in SUBSET S |->
               IF s = {} THEN 0
               ELSE ledger[(CHOOSE x \in s : TRUE)[1]][(CHOOSE x \in s : TRUE)[2]]
                        + g[s \ {CHOOSE x \in s : TRUE}]]
<1>1. MapThenSumSet(LAMBDA r : ledger[r[1]][r[2]], S) = (CHOOSE g : Table(g))[S]
  BY DEF MapThenSumSet, MapThenFoldSet
<1>2. ASSUME NEW s \in SUBSET S, s # {}
      PROVE  ledger[(CHOOSE x \in s : TRUE)[1]][(CHOOSE x \in s : TRUE)[2]]
                = Amounts[CHOOSE x \in s : TRUE]
  <2>1. (CHOOSE x \in s : TRUE) \in s
    BY <1>2
  <2>2. (CHOOSE x \in s : TRUE) \in Receipts
    BY <2>1
  <2> QED
    BY <2>2 DEF Amounts
<1>3. \A g : Table(g) <=> SumTable(Amounts, g, S)
  BY SMTT(60), <1>2 DEF SumTable, SumAt
<1>4. (CHOOSE g : Table(g)) = (CHOOSE g : SumTable(Amounts, g, S))
  <2> HIDE DEF Table
  <2> QED
    BY <1>3
<1> QED
  BY <1>1, <1>4, TotalDef

Ledgered == Mirrored /\ Durably /\ GrnNosDistinct /\ Posted /\ Summed /\ AllLanded

\* The receipts the process counts on p, or will count when their GRN is swept.
Alive(p) == {r \in PostedTo(p) : ~grn[r[1]].stamped \/ mem.po[p].got[r] > 0}

LEMMA AmountsType == Core => Amounts \in [Receipts -> Nat]
<1> SUFFICES ASSUME Core PROVE Amounts \in [Receipts -> Nat]
  OBVIOUS
<1>1. ledger \in [GrnIds -> [LineNos -> Nat]]
  BY DEF Core, TypeOK
<1> QED
  BY <1>1 DEF Amounts, Receipts

\* What a PO has received is the ledger's sum over the receipts it counts.
LEMMA CountedOnceEach ==
    ASSUME Ledgered, torn = {}, NEW p \in POs
    PROVE  /\ Counts(mem.po[p]) \subseteq Alive(p)
           /\ IsFiniteSet(Counts(mem.po[p]))
           /\ mem.po[p].ct = Total(Amounts, Counts(mem.po[p]))
<1> USE DEF Ledgered, Mirrored, Counted
<1>1. ASSUME NEW r \in Receipts, mem.po[p].got[r] > 0
      PROVE  r \in Alive(p) /\ mem.po[p].got[r] = 1
  <2>1. PICK g \in GrnIds, l \in LineNos : r = <<g, l>>
    BY DEF Receipts
  <2>2. Confirmed(g) /\ CreditsTo(g, l, p) /\ mem.po[p].got[r] = 1
    BY <1>1, <2>1 DEF CountedOnce, Once
  <2> QED
    BY <1>1, <2>1, <2>2 DEF PostedTo, Alive
<1>2. Adds(mem.po[p], Amounts)
  BY DEF Summed
<1>3. \A r \in Counts(mem.po[p]) : Brought(mem.po[p], Amounts)[r] = Amounts[r]
  <2> SUFFICES ASSUME NEW r \in Receipts, mem.po[p].got[r] > 0
               PROVE  Brought(mem.po[p], Amounts)[r] = Amounts[r]
    BY DEF Counts
  <2>1. mem.po[p].got[r] = 1
    BY <1>1
  <2>2. Amounts[r] \in Nat
    BY AmountsType
  <2> QED
    BY <2>1, <2>2 DEF Brought
<1>4. Total(Brought(mem.po[p], Amounts), Counts(mem.po[p])) = Total(Amounts, Counts(mem.po[p]))
  BY <1>3, TotalSame
<1> QED
  BY <1>1, <1>2, <1>4 DEF Adds, Counts

\* Between two handlers it counts all it ever will.
LEMMA AliveIsCounted ==
    ASSUME Ledgered, LoopFree, torn = {}, NEW p \in KnownPOs
    PROVE  Counts(mem.po[p]) = Alive(p)
<1> USE DEF Ledgered, Mirrored, Counted, KnownPOs
<1>0. mem.po[p].got \in [Receipts -> Nat]
  BY DEF Core, TypeOK, Stores, PoTable, PoRecord
<1>1. ASSUME NEW r \in Alive(p) PROVE r \in Receipts /\ mem.po[p].got[r] > 0
  <2>1. PICK g \in GrnIds, l \in LineNos : r = <<g, l>>
    BY DEF Alive, PostedTo, Receipts
  <2>2. Confirmed(g) /\ CreditsTo(g, l, p) /\ r \in Receipts
    BY <2>1 DEF Alive, PostedTo
  <2>3. CASE ~grn[g].stamped
    <3>1. Landed(g)
      BY <2>2, <2>3 DEF AllLanded, Kempt, LoopFree
    <3>2. mem.po[p].got[<<g, l>>] >= 1
      BY <2>2, <3>1 DEF Landed, LandedIn
    <3> QED
      BY <1>0, <2>1, <2>2, <3>2
  <2>4. CASE grn[g].stamped
    BY <2>1, <2>2, <2>4 DEF Alive
  <2> QED
    BY <2>3, <2>4
<1> QED
  BY <1>1, CountedOnceEach DEF Counts

\* When no flush was lost either, it counts all that is posted.
LEMMA CtIsPosted ==
    ASSUME Ledgered, LoopFree, Clean, NEW p \in KnownPOs
    PROVE  IsFiniteSet(PostedTo(p)) /\ mem.po[p].ct = Total(Amounts, PostedTo(p))
<1> USE DEF Ledgered, Mirrored, Counted, KnownPOs
<1>1. torn = {}
  BY DEF Clean
<1>2. ASSUME NEW r \in PostedTo(p) PROVE r \in Counts(mem.po[p])
  <2>1. PICK g \in GrnIds, l \in LineNos : r = <<g, l>>
    BY DEF PostedTo, Receipts
  <2>2. Confirmed(g) /\ CreditsTo(g, l, p) /\ r \in Receipts
    BY <2>1 DEF PostedTo
  <2>3. Landed(g)
    BY <2>2 DEF AllLanded, Kempt, LoopFree, Clean
  <2>4. mem.po[p].got[r] >= 1 /\ mem.po[p].got[r] \in Nat
    BY <2>1, <2>2, <2>3 DEF Landed, LandedIn, Core, TypeOK, Stores, PoTable, PoRecord
  <2> QED
    BY <2>2, <2>4 DEF Counts
<1>3. Counts(mem.po[p]) = PostedTo(p)
  BY <1>1, <1>2, CountedOnceEach DEF Alive
<1> QED
  BY <1>1, <1>3, CountedOnceEach

LEMMA LedgeredHolds == Spec => []Ledgered
<1>1. Init => Posted /\ Summed /\ AllLanded
  <2> SUFFICES ASSUME Init PROVE Posted /\ Summed /\ AllLanded
    OBVIOUS
  <2>1. \A g \in GrnIds : ~Confirmed(g)
    BY DEF Init, StoreInit, NoRow, Confirmed
  <2>2. ASSUME NEW p \in POs PROVE Adds(FreshTable[p], Amounts)
    <3>1. Counts(FreshTable[p]) = {} /\ FreshTable[p].ct = 0
      BY DEF Counts, FreshTable
    <3>2. Total(Brought(FreshTable[p], Amounts), {}) = 0
      BY TotalEmpty
    <3> QED
      BY <3>1, <3>2, FS_EmptySet DEF Adds
  <2>3. mem.po = FreshTable /\ disk.po = FreshTable /\ \A p \in POs : snap.po[p] = None
    BY DEF Init, NoSnap
  <2> QED
    BY <2>1, <2>2, <2>3 DEF Posted, Summed, AllLanded, Kempt
<1>2. Mirrored /\ Durably /\ GrnNosDistinct /\ Posted /\ Summed /\ AllLanded /\ [Next]_vars
          => Posted' /\ Summed' /\ AllLanded'
  BY PostedStep, SummedStep, AllLandedStep
<1> QED
  BY <1>1, <1>2, MirroredHolds, DurablyHolds, GrnNosUnique, PTL DEF Spec, Ledgered

(***************************************************************************)
(* While the process serves and no crash or failed flush has split a GRN's *)
(* effects, the site quantity of every PO it knows is the sum of the stock *)
(* ledger over the confirmed lines posted to it: two stores, written by    *)
(* separate transactions, agree.                                           *)
(***************************************************************************)
THEOREM LedgerMatches == Spec => []PoMatchesLedger
<1>1. Ledgered => PoMatchesLedger
  <2> SUFFICES ASSUME Ledgered, LoopFree, Clean, NEW p \in KnownPOs
               PROVE  mem.po[p].ct
                        = MapThenSumSet(LAMBDA r : ledger[r[1]][r[2]], PostedTo(p))
    BY DEF PoMatchesLedger
  <2>1. PostedTo(p) \in SUBSET Receipts
    BY DEF PostedTo
  <2> QED
    BY <2>1, CtIsPosted, LedgerSum
<1> QED
  BY <1>1, LedgeredHolds, PTL

-----------------------------------------------------------------------------
(* A PO beyond its headroom has a flagged receipt                            *)

\* The handler's GRN has no stamp yet.
JobUnstamped == job # None /\ job.grn \in GrnIds => ~grn[job.grn].stamped

\* The ordered quantity stays in every copy that knows the PO; of one that does
\* not, nothing is left.
Ordered(po, p) ==
    IF Known(po) THEN po.quantity = InitialPO[p].quantity
    ELSE po.quantity = 0 /\ po.ct = 0

\* No copy knows a PO that the process has lost.
OrderedStays ==
    \A p \in POs :
        /\ Ordered(mem.po[p], p)
        /\ Ordered(disk.po[p], p) /\ (Known(disk.po[p]) => p \in KnownPOs)
        /\ snap.po[p] # None =>
              Ordered(snap.po[p], p) /\ (Known(snap.po[p]) => p \in KnownPOs)

\* A receipt on p says it was over, or shares p with a line of its own GRN.
Flagged(p) ==
    \E r \in PostedTo(p) :
        \/ lines[r[1]][r[2]].over
        \/ \E k \in LineNos \ {r[2]} : <<r[1], k>> \in PostedTo(p)

\* Where none is, those receipts are within the headroom.
WithinHeadroom ==
    torn = {} =>
        \A p \in KnownPOs :
            \/ Flagged(p)
            \/ /\ IsFiniteSet(Alive(p))
               /\ 20 * Total(Amounts, Alive(p)) <= 21 * InitialPO[p].quantity

\* A GRN that is not confirmed has no stamp.
LEMMA JobUnstampedStep == Durably /\ JobUnstamped /\ [Next]_vars => JobUnstamped'
<1> SUFFICES ASSUME Durably, JobUnstamped, [Next]_vars, job' # None, job'.grn \in GrnIds
             PROVE  ~grn'[job'.grn].stamped
  BY DEF JobUnstamped
<1> DEFINE g == job'.grn
<1> USE DEF Durably
<1>0. grn \in [GrnIds -> GrnRow]
  BY DEF Core, TypeOK
<1>1. ~grn[g].stamped
  <2>1. CASE job # None /\ job.grn = g
    BY <2>1 DEF JobUnstamped
  <2>2. CASE Confirm(g)
    <3>1. ~Confirmed(g)
      BY <2>2 DEF Confirm, ConfirmTransaction, Awaiting, Banded, Confirmed
    <3> QED
      BY <3>1 DEF StampedInStores
  <2>3. CASE SweepGrn(g)
    BY <2>3 DEF SweepGrn, NeedsSweep, Unstamped
  <2> QED
    BY <2>1, <2>2, <2>3, JobStep
<1>2. CASE BeginSync \/ UNCHANGED <<grn, lastSeq, photos>>
  BY <1>1, <1>2 DEF BeginSync, SyncInsert
<1>3. CASE EndSync
  <2>1. PICK st, ext :
          grn' = [grn EXCEPT ![upload.grn] =
                    [st |-> st, ext |-> ext, dev |-> upload.dev, seq |-> upload.seq,
                     photo |-> upload.photo, no |-> 0, stamped |-> FALSE]]
    BY <1>3, CommittedRow
  <2>2. grn'[g] = grn[g] \/ ~grn'[g].stamped
    BY <1>0, <2>1
  <2> QED
    BY <1>1, <2>2
<1>4. ASSUME NEW h \in GrnIds, Worked(h) PROVE ~grn'[g].stamped
  <2>1. PICK st, ext : grn' = [grn EXCEPT ![h] = [grn[h] EXCEPT !.st = st, !.ext = ext]]
    BY <1>0, <1>4 DEF Worked
  <2>2. [grn[h] EXCEPT !.st = st, !.ext = ext].stamped = grn[h].stamped
    BY <1>0 DEF GrnRow
  <2> QED
    BY <1>0, <1>1, <2>1, <2>2
<1>5. ASSUME NEW h \in GrnIds, ClosedNow(h) PROVE ~grn'[g].stamped
  <2>1. PICK st, no : grn' = [grn EXCEPT ![h] = ClosedRow(grn[h], st, no)]
    BY <1>0, <1>5 DEF ClosedNow
  <2>2. ClosedRow(grn[h], st, no).stamped = grn[h].stamped
    BY <1>0 DEF GrnRow, ClosedRow
  <2> QED
    BY <1>0, <1>1, <2>1, <2>2
<1>6. ASSUME NEW h \in GrnIds, Stamped(h) PROVE FALSE
  BY <1>6 DEF Stamped, Stamp
<1> QED
  BY <1>2, <1>3, <1>4, <1>5, <1>6, HeaderStep

\* A PO the process knows after a step, it knew before.
LEMMA KnownShrinks ==
    ASSUME Core, OrderedStays, [Next]_vars, NEW p \in POs, Known(mem'.po[p])
    PROVE  p \in KnownPOs
<1>1. CASE ~CrashAndRestore
  BY <1>1, MemGrows DEF Grows, KnownPOs
<1>2. CASE CrashAndRestore
  <2>1. mem'.po = disk'.po /\ ~Known(LostTable[p])
    BY <1>2, CopyStep DEF LostTable, Known
  <2>2. \/ mem'.po[p] = disk.po[p] \/ mem'.po[p] = mem.po[p]
        \/ snap.po[p] # None /\ mem'.po[p] = snap.po[p]
    BY <2>1, CopyStep
  <2> QED
    BY <2>2 DEF OrderedStays, KnownPOs
<1> QED
  BY <1>1, <1>2

\* No receipt and no SAP event touches the ordered quantity.
LEMMA OrderedStep == Core /\ OrderedStays /\ [Next]_vars => OrderedStays'
<1> SUFFICES ASSUME Core, OrderedStays, [Next]_vars, NEW p \in POs
             PROVE  /\ Ordered(mem'.po[p], p)
                    /\ /\ Ordered(disk'.po[p], p)
                       /\ Known(disk'.po[p]) => Known(mem'.po[p])
                    /\ snap'.po[p] # None => /\ Ordered(snap'.po[p], p)
                                             /\ Known(snap'.po[p]) => Known(mem'.po[p])
  BY DEF OrderedStays, Ordered, KnownPOs
<1>0. Ordered(LostTable[p], p) /\ ~Known(LostTable[p])
  BY DEF LostTable, Known, Ordered
<1>1. Ordered(mem.po[p], p) /\ Ordered(disk.po[p], p)
      /\ (snap.po[p] # None => Ordered(snap.po[p], p))
  BY DEF OrderedStays
<1>2. /\ Known(disk.po[p]) => Known(mem.po[p])
      /\ snap.po[p] # None => (Known(snap.po[p]) => Known(mem.po[p]))
  BY DEF OrderedStays, KnownPOs
<1>3. /\ \/ disk'.po[p] = disk.po[p] \/ disk'.po[p] = mem.po[p]
         \/ snap.po[p] # None /\ disk'.po[p] = snap.po[p]
         \/ disk'.po[p] = LostTable[p]
      /\ snap'.po[p] \in {None, snap.po[p], mem.po[p]}
  BY CopyStep
<1>4. Ordered(disk'.po[p], p) /\ (snap'.po[p] # None => Ordered(snap'.po[p], p))
  BY <1>0, <1>1, <1>3
<1>5. CASE CrashAndRestore
  <2>1. mem'.po[p] = disk'.po[p] /\ snap'.po[p] = None
    BY <1>5, CopyStep DEF CrashAndRestore, NoSnap
  <2> QED
    BY <1>4, <2>1
<1>6. CASE ~CrashAndRestore
  <2>1. /\ Ordered(mem'.po[p], p)
        /\ Known(mem.po[p]) => Known(mem'.po[p])
    <3>1. CASE ~Known(mem.po[p])
      BY <1>1, <1>6, <3>1, FieldsStep
    <3>2. CASE Known(mem.po[p])
      <4>1. mem'.po[p].quantity = mem.po[p].quantity /\ Known(mem'.po[p])
        BY <1>6, <3>2, FieldsStep
      <4> QED
        BY <1>1, <3>2, <4>1 DEF Ordered
    <3> QED
      BY <3>1, <3>2
  <2> QED
    BY <1>0, <1>2, <1>3, <1>4, <2>1
<1> QED
  BY <1>5, <1>6

\* A receipt is counted first by the handler of its GRN.
LEMMA FirstCount ==
    ASSUME Core, ApplyReceipt, NEW p \in POs, NEW g \in GrnIds, NEW l \in LineNos,
           mem'.po[p].got[<<g, l>>] # mem.po[p].got[<<g, l>>]
    PROVE  job.grn = g
<1> DEFINE r == <<g, l>>
<1>0. mem.po[p].got \in [Receipts -> Nat] /\ r \in Receipts
  BY DEF Core, TypeOK, Stores, PoTable, PoRecord, Receipts
<1>1. PICK k : \/ mem'.po[p].got = mem.po[p].got
               \/ mem'.po[p].got = [mem.po[p].got EXCEPT ![<<job.grn, k>>] = @ + 1]
  BY ApplyStep
<1> DEFINE q == <<job.grn, k>>
<1>2. q = r
  <2> HIDE DEF q, r
  <2> QED
    BY <1>0, <1>1 DEF r, q
<1> QED
  BY <1>2

\* Nothing but a confirm adds to what p counts or will count.
LEMMA AliveShrinks ==
    ASSUME Mirrored, Durably, JobUnstamped, [Next]_vars, NEW p \in POs,
           \A g \in GrnIds : ~Confirm(g)
    PROVE  /\ Alive(p)' \subseteq Alive(p)
           /\ \A r \in Alive(p) : Amounts'[r] = Amounts[r]
<1> USE DEF Mirrored, Counted
<1>1. \A r \in Alive(p) : Amounts'[r] = Amounts[r]
  BY AmountsKept DEF Alive, PostedTo
<1>2. ASSUME NEW g \in GrnIds, NEW l \in LineNos, <<g, l>> \in Alive(p)'
      PROVE  <<g, l>> \in Alive(p)
  <2>1. Confirmed(g)' /\ CreditsTo(g, l, p)'
    BY <1>2 DEF Alive, PostedTo
  <2>2. Confirmed(g)
    BY <2>1, NewlyConfirmed
  <2>3. <<g, l>> \in PostedTo(p)
    BY <2>1, <2>2, CreditsFixed DEF PostedTo, Receipts
  <2>4. CASE ~grn'[g].stamped
    BY <2>2, <2>3, <2>4, StepKeeps DEF Kept, Alive
  <2>5. CASE mem'.po[p].got[<<g, l>>] > 0
    <3>0. /\ <<g, l>> \in Receipts
          /\ mem.po[p].got \in [Receipts -> Nat] /\ disk.po[p].got \in [Receipts -> Nat]
      BY DEF Core, TypeOK, Stores, Disk, PoTable, PoRecord, Receipts
    <3>1. CASE mem.po[p].got[<<g, l>>] > 0
      BY <2>3, <3>1 DEF Alive
    <3>2. CASE CrashAndRestore /\ ~(mem.po[p].got[<<g, l>>] > 0)
      <4>1. disk.po[p].got[<<g, l>>] > 0
        <5>1. mem'.po = disk'.po /\ LostTable[p].got[<<g, l>>] = 0
          BY <3>0, <3>2, CopyStep DEF LostTable
        <5>2. snap.po[p] # None =>
                ~(snap.po[p].got[<<g, l>>] > 0)
          <6>1. snap.po[p] # None => snap.po[p].got \in [Receipts -> Nat]
            BY DEF Core, TypeOK, Snap, PoRecord
          <6> QED
            BY <3>0, <3>2, <6>1 DEF DiskBelow
        <5> QED
          BY <2>5, <3>2, <5>1, <5>2, CopyStep
      <4>2. disk.po[p].got[<<g, l>>] <= mem.po[p].got[<<g, l>>]
        BY <3>0 DEF DiskBelow
      <4>3. mem.po[p].got[<<g, l>>] > 0
        BY <3>0, <4>1, <4>2
      <4> QED
        BY <3>1, <4>3
    <3>3. CASE ApplyReceipt /\ ~(mem.po[p].got[<<g, l>>] > 0)
      <4>1. job.grn = g
        BY <2>5, <3>3, FirstCount
      <4>2. ~grn[g].stamped
        BY <3>3, <4>1, ApplyStep DEF JobUnstamped
      <4> QED
        BY <2>3, <4>2 DEF Alive
    <3>4. CASE ~CrashAndRestore /\ ~ApplyReceipt
      <4>1. mem.po[p].got[<<g, l>>] > 0
        BY <2>5, <3>4, GotStep DEF Recounted
      <4> QED
        BY <3>1, <4>1
    <3> QED
      BY <3>1, <3>2, <3>3, <3>4
  <2> QED
    BY <1>2, <2>4, <2>5 DEF Alive
<1>3. Alive(p)' \subseteq Receipts
  BY DEF Alive, PostedTo
<1> QED
  BY <1>1, <1>2, <1>3 DEF Receipts

\* A flag stays, and the receipts of a confirmed GRN stay posted.
LEMMA PostedStays ==
    ASSUME Core, [Next]_vars, NEW p \in POs, NEW r \in PostedTo(p)
    PROVE  r \in PostedTo(p)' /\ lines'[r[1]] = lines[r[1]]
<1>1. PICK g \in GrnIds, l \in LineNos : r = <<g, l>>
  BY DEF PostedTo, Receipts
<1>2. Confirmed(g) /\ CreditsTo(g, l, p) /\ r \in Receipts
  BY <1>1 DEF PostedTo
<1>3. Confirmed(g)' /\ lines'[g] = lines[g] /\ CreditsTo(g, l, p)'
  BY <1>2, StepKeeps, CreditsFixed DEF Kept
<1> QED
  BY <1>1, <1>2, <1>3 DEF PostedTo

LEMMA FlagStays ==
    ASSUME Core, [Next]_vars, NEW p \in POs, Flagged(p)
    PROVE  Flagged(p)'
<1>1. PICK r \in PostedTo(p) :
        \/ lines[r[1]][r[2]].over
        \/ \E k \in LineNos \ {r[2]} : <<r[1], k>> \in PostedTo(p)
  BY DEF Flagged
<1>2. r \in PostedTo(p)' /\ lines'[r[1]] = lines[r[1]]
  BY PostedStays
<1>3. \A k : <<r[1], k>> \in PostedTo(p) => <<r[1], k>> \in PostedTo(p)'
  BY PostedStays
<1> QED
  BY <1>1, <1>2, <1>3 DEF Flagged

\* What a part of the receipts brought is no more than the whole, before and after.
LEMMA PartOfTotal ==
    ASSUME NEW a, NEW b, NEW S, IsFiniteSet(S), \A r \in S : a[r] \in Nat /\ b[r] = a[r],
           NEW T \in SUBSET S
    PROVE  IsFiniteSet(T) /\ Total(b, T) \in Nat /\ Total(b, T) <= Total(a, S)
<1>1. IsFiniteSet(T)
  BY FS_Subset
<1>2. Total(a, T) <= Total(a, S)
  BY TotalPart
<1>3. Total(b, T) = Total(a, T)
  BY TotalSame
<1>4. Total(b, T) \in Nat
  BY <1>1, TotalType
<1> QED
  BY <1>1, <1>2, <1>3, <1>4

\* The amounts of a confirm's receipts, and where they are posted.
LEMMA ConfirmPosts ==
    ASSUME Ledgered, [Next]_vars, NEW g \in GrnIds, Confirm(g), NEW p \in POs
    PROVE  /\ PostedTo(p)' = PostedTo(p) \cup {<<g, l>> : l \in CreditLines(lines'[g], p)}
           /\ \A l : <<g, l>> \notin PostedTo(p)
           /\ \A r \in PostedTo(p) : Amounts'[r] = Amounts[r]
           /\ \A l \in CreditLines(lines'[g], p) : /\ l \in LineNos
                                                   /\ Amounts'[<<g, l>>] = lines'[g][l].qty
<1> USE DEF Ledgered, Mirrored, Counted
<1>1. ~Confirmed(g)
  BY DEF Confirm, ConfirmTransaction, Awaiting, Banded, Confirmed
<1>2. Confirmed(g)'
  <2>1. grn \in [GrnIds -> GrnRow]
    BY DEF Core, TypeOK
  <2>2. PICK n : grn' = [grn EXCEPT ![g] = ClosedRow(@, "confirmed", n)]
    BY DEF Confirm, ConfirmTransaction
  <2>3. ClosedRow(grn[g], "confirmed", n).st = "confirmed"
    BY <2>1 DEF ClosedRow, GrnRow
  <2> QED
    BY <2>1, <2>2, <2>3 DEF Confirmed
<1>3. \A l : <<g, l>> \notin PostedTo(p)
  BY <1>1 DEF PostedTo
<1>4. \A r \in PostedTo(p) : Amounts'[r] = Amounts[r]
  BY AmountsKept DEF PostedTo
<1>5. \A l \in CreditLines(lines'[g], p) : l \in LineNos /\ CreditsTo(g, l, p)'
  BY DEF CreditLines, Credits, Present, CreditsTo
<1>6. ASSUME NEW l \in CreditLines(lines'[g], p) PROVE Amounts'[<<g, l>>] = lines'[g][l].qty
  <2>1. ledger'[g][l] = LedgerQty(lines[g][l])'
    BY <1>2, <1>5, PostedStep DEF Posted
  <2>2. lines'[g][l] # None
    BY DEF CreditLines, Credits, Present
  <2>3. <<g, l>> \in Receipts
    BY <1>5 DEF Receipts
  <2>4. Amounts'[<<g, l>>] = ledger'[g][l]
    BY <2>3 DEF Amounts
  <2> QED
    BY <2>1, <2>2, <2>4 DEF LedgerQty
<1>7. ASSUME NEW h \in GrnIds, NEW l \in LineNos, <<h, l>> \in PostedTo(p)'
      PROVE  <<h, l>> \in PostedTo(p) \cup {<<g, k>> : k \in CreditLines(lines'[g], p)}
  <2>1. Confirmed(h)' /\ CreditsTo(h, l, p)'
    BY <1>7 DEF PostedTo
  <2>2. CASE h = g
    BY <2>1, <2>2 DEF CreditsTo, CreditLines
  <2>3. CASE Confirmed(h)
    BY <2>1, <2>3, CreditsFixed DEF PostedTo, Receipts
  <2>4. h = g \/ Confirmed(h)
    <3>1. \A n : grn' = [grn EXCEPT ![g] = n] => h = g \/ grn'[h] = grn[h]
      BY DEF Core, TypeOK
    <3> QED
      BY <2>1, <3>1 DEF Confirm, ConfirmTransaction, Confirmed
  <2> QED
    BY <2>2, <2>3, <2>4
<1>8. PostedTo(p)' \subseteq PostedTo(p) \cup {<<g, l>> : l \in CreditLines(lines'[g], p)}
  BY <1>7 DEF PostedTo, Receipts
<1>9. ASSUME NEW l \in CreditLines(lines'[g], p) PROVE <<g, l>> \in PostedTo(p)'
  BY <1>2, <1>5 DEF PostedTo, Receipts
<1> QED
  BY <1>3, <1>4, <1>5, <1>6, <1>8, <1>9, PostedStays

\* One line of a GRN on p that is not over leaves p within its headroom.
LEMMA OneMoreFits ==
    ASSUME Ledgered, OrderedStays, [Next]_vars, LoopFree, torn = {},
           NEW g \in GrnIds, Confirm(g), NEW p \in KnownPOs,
           NEW l, CreditLines(lines'[g], p) = {l}, ~lines'[g][l].over
    PROVE  /\ IsFiniteSet(Alive(p)')
           /\ 20 * Total(Amounts', Alive(p)') <= 21 * InitialPO[p].quantity
<1> USE DEF Ledgered, Mirrored, Counted, KnownPOs
<1> DEFINE r == <<g, l>>
           S == Alive(p)
           T == Alive(p)'
           qty == lines'[g][l].qty
<1>1. /\ PostedTo(p)' = PostedTo(p) \cup {r}
      /\ r \notin PostedTo(p)
      /\ \A x \in PostedTo(p) : Amounts'[x] = Amounts[x]
      /\ Amounts'[r] = qty
  BY ConfirmPosts
<1>2. /\ lines' \in [GrnIds -> LineTable] /\ Amounts' \in [Receipts -> Nat]
      /\ Amounts \in [Receipts -> Nat]
  BY TypeStep, UploadFreshStep, JobOwesStep, AmountsType DEF Core, TypeOK, Amounts, Receipts
<1>3. l \in LineNos /\ lines'[g][l] # None /\ lines'[g][l].po = p /\ qty \in Nat
  <2>1. l \in CreditLines(lines'[g], p)
    OBVIOUS
  <2>2. l \in LineNos /\ lines'[g][l] # None /\ lines'[g][l].po = p
    BY <2>1 DEF CreditLines, Credits, Present
  <2> QED
    BY <1>2, <2>2 DEF LineTable, Line
<1>4. 20 * qty <= 21 * mem.po[p].quantity - 20 * ReceivedQty(mem.po[p])
  <2>1. PICK req \in Requests(g) : lines'[g] = ConfirmedLines(g, req, mem.po)
    BY DEF Confirm, ConfirmTransaction, Core, TypeOK
  <2> DEFINE new == [po |-> ConfirmedPo(req, l), qty |-> ConfirmedQty(g, req, l),
                     over |-> /\ ConfirmedPo(req, l) \in POs /\ Known(mem.po[ConfirmedPo(req, l)])
                              /\ OverReceipt(mem.po[ConfirmedPo(req, l)],
                                             ConfirmedQty(g, req, l))]
  <2>0. lines'[g][l] = new
    BY <1>3, <2>1 DEF ConfirmedLines
  <2>2. lines'[g][l].over = (/\ lines'[g][l].po \in POs /\ Known(mem.po[lines'[g][l].po])
                             /\ OverReceipt(mem.po[lines'[g][l].po], lines'[g][l].qty))
    BY <2>0
  <2>3. ~OverReceipt(mem.po[p], qty)
    <3>1. p \in POs /\ Known(mem.po[p])
      OBVIOUS
    <3> QED
      BY <1>3, <2>2, <3>1
  <2>4. mem.po[p].quantity \in Nat /\ ReceivedQty(mem.po[p]) \in Nat
    BY LargerNat DEF ReceivedQty, Core, TypeOK, Stores, PoTable, PoRecord
  <2> QED
    BY <1>3, <2>3, <2>4 DEF OverReceipt, RemainingTwentieths
<1>5. IsFiniteSet(S) /\ mem.po[p].ct = Total(Amounts, S)
  BY AliveIsCounted, CountedOnceEach
<1>6. mem' = mem /\ ~grn'[g].stamped /\ \A h \in GrnIds \ {g} : grn'[h] = grn[h]
  <2>1. grn \in [GrnIds -> GrnRow]
    BY DEF Core, TypeOK
  <2>2. PICK n : grn' = [grn EXCEPT ![g] = ClosedRow(@, "confirmed", n)]
    BY DEF Confirm, ConfirmTransaction
  <2>3. ClosedRow(grn[g], "confirmed", n).stamped = grn[g].stamped
    BY <2>1 DEF ClosedRow, GrnRow
  <2>4. ~Confirmed(g)
    BY DEF Confirm, ConfirmTransaction, Awaiting, Banded, Confirmed
  <2>5. ~grn[g].stamped
    BY <2>4 DEF Durably, StampedInStores
  <2> QED
    BY <2>1, <2>2, <2>3, <2>5 DEF Confirm
<1>7. T = S \cup {r} /\ r \notin S
  <2>1. r \in T
    BY <1>1, <1>6 DEF Alive
  <2>2. ASSUME NEW x \in PostedTo(p) PROVE x \in T <=> x \in S
    <3>1. PICK h \in GrnIds, k \in LineNos : x = <<h, k>>
      BY DEF PostedTo, Receipts
    <3>2. h # g
      BY <1>1, <3>1, ConfirmPosts
    <3>3. grn'[x[1]] = grn[x[1]]
      BY <1>6, <3>1, <3>2
    <3> QED
      BY <1>1, <1>6, <3>3 DEF Alive
  <2>3. S \subseteq PostedTo(p) /\ T \subseteq PostedTo(p) \cup {r}
    BY <1>1 DEF Alive
  <2> HIDE DEF S, T, r
  <2> QED
    BY <1>1, <2>1, <2>2, <2>3
<1>8. S \subseteq PostedTo(p) /\ T \subseteq Receipts /\ S \subseteq Receipts
  BY DEF Alive, PostedTo
<1>9. \A x \in S : Amounts'[x] = Amounts[x]
  BY <1>1, <1>8
<1>10. \A x \in T : Amounts'[x] \in Nat
  BY <1>2, <1>8
<1>11. Amounts'[r] = qty /\ Amounts' = Amounts'
  BY <1>1
<1> HIDE DEF S, T, r, qty
<1>12. IsFiniteSet(T)
  BY <1>5, <1>7, FS_AddElement
<1>13. r \in T /\ T \ {r} = S
  BY <1>7
<1>14. PICK b : b = Amounts'
  OBVIOUS
<1>15. Total(b, T) = b[r] + Total(b, S)
  BY <1>10, <1>12, <1>13, <1>14, TotalRemove
<1>16. Total(b, S) = Total(Amounts, S)
  BY <1>9, <1>14, TotalSame
<1>17. Total(Amounts', T) = qty + mem.po[p].ct
  BY <1>5, <1>11, <1>14, <1>15, <1>16
<1>18. /\ mem.po[p].quantity = InitialPO[p].quantity
       /\ mem.po[p].ct \in Nat /\ mem.po[p].sap \in Nat /\ mem.po[p].quantity \in Nat
  BY DEF OrderedStays, Ordered, Core, TypeOK, Stores, PoTable, PoRecord
<1>19. ReceivedQty(mem.po[p]) >= mem.po[p].ct /\ ReceivedQty(mem.po[p]) \in Nat
  BY <1>18 DEF ReceivedQty, Larger
<1>20. 20 * Total(Amounts', T) <= 21 * InitialPO[p].quantity
  BY <1>3, <1>4, <1>17, <1>18, <1>19
<1> QED
  BY <1>12, <1>20 DEF T

LEMMA HeadroomStep ==
    Ledgered /\ JobUnstamped /\ OrderedStays /\ WithinHeadroom /\ [Next]_vars => WithinHeadroom'
<1> SUFFICES ASSUME Ledgered, JobUnstamped, OrderedStays, WithinHeadroom, [Next]_vars,
                    torn' = {}, NEW p \in KnownPOs'
             PROVE  \/ Flagged(p)'
                    \/ /\ IsFiniteSet(Alive(p)')
                       /\ 20 * Total(Amounts', Alive(p)') <= 21 * InitialPO[p].quantity
  BY DEF WithinHeadroom
<1> USE DEF Ledgered, Mirrored, Counted
<1>1. torn = {} /\ p \in KnownPOs /\ p \in POs
  BY TornGrows, KnownShrinks DEF KnownPOs
<1>2. CASE Flagged(p)
  BY <1>1, <1>2, FlagStays
<1>3. ASSUME ~Flagged(p), Alive(p)' \subseteq Alive(p),
             \A r \in Alive(p) : Amounts'[r] = Amounts[r]
      PROVE  /\ IsFiniteSet(Alive(p)')
             /\ 20 * Total(Amounts', Alive(p)') <= 21 * InitialPO[p].quantity
  <2>1. IsFiniteSet(Alive(p)) /\ 20 * Total(Amounts, Alive(p)) <= 21 * InitialPO[p].quantity
    BY <1>1, <1>3 DEF WithinHeadroom
  <2>2. \A r \in Alive(p) : Amounts[r] \in Nat
    BY AmountsType DEF Alive, PostedTo
  <2>3. PICK a, b, S, T : a = Amounts /\ b = Amounts' /\ S = Alive(p) /\ T = Alive(p)'
    OBVIOUS
  <2>4. IsFiniteSet(T) /\ Total(b, T) \in Nat /\ Total(b, T) <= Total(a, S)
    BY <1>3, <2>1, <2>2, <2>3, PartOfTotal
  <2>5. Total(a, S) \in Nat
    BY <2>1, <2>2, <2>3, TotalType
  <2>6. InitialPO[p].quantity \in Nat
    BY <1>1, ReceiptConstants
  <2>7. 20 * Total(b, T) <= 21 * InitialPO[p].quantity
    BY <2>1, <2>3, <2>4, <2>5, <2>6
  <2> QED
    BY <2>3, <2>4, <2>7
<1>4. CASE ~Flagged(p) /\ \A g \in GrnIds : ~Confirm(g)
  BY <1>1, <1>3, <1>4, AliveShrinks
<1>5. ASSUME ~Flagged(p), NEW g \in GrnIds, Confirm(g)
      PROVE  \/ Flagged(p)'
             \/ /\ IsFiniteSet(Alive(p)')
                /\ 20 * Total(Amounts', Alive(p)') <= 21 * InitialPO[p].quantity
  <2> DEFINE N == CreditLines(lines'[g], p)
  <2>1. /\ PostedTo(p)' = PostedTo(p) \cup {<<g, l>> : l \in N}
        /\ \A r \in PostedTo(p) : Amounts'[r] = Amounts[r]
        /\ \A l \in N : l \in LineNos
    BY <1>1, <1>5, ConfirmPosts
  <2>2. CASE N = {}
    <3>1. PostedTo(p)' = PostedTo(p)
      BY <2>1, <2>2
    <3>2. mem' = mem
      BY <1>5 DEF Confirm
    <3>3. \A r \in PostedTo(p) : grn[r[1]].stamped => grn'[r[1]].stamped
      <4> SUFFICES ASSUME NEW r \in PostedTo(p) PROVE grn[r[1]].stamped => grn'[r[1]].stamped
        OBVIOUS
      <4>1. r[1] \in GrnIds /\ Confirmed(r[1])
        BY DEF PostedTo, Receipts
      <4> QED
        BY <4>1, StepKeeps DEF Kept
    <3>4. Alive(p)' \subseteq Alive(p) /\ \A r \in Alive(p) : Amounts'[r] = Amounts[r]
      BY <2>1, <3>1, <3>2, <3>3 DEF Alive
    <3> QED
      BY <1>3, <1>5, <3>4
  <2>3. ASSUME NEW l \in N, NEW k \in N, l # k PROVE Flagged(p)'
    <3>1. <<g, l>> \in PostedTo(p)' /\ <<g, k>> \in PostedTo(p)' /\ k \in LineNos
      BY <2>1
    <3> HIDE DEF N
    <3> QED
      BY <2>3, <3>1 DEF Flagged
  <2>4. ASSUME NEW l, N = {l}, lines'[g][l].over PROVE Flagged(p)'
    <3>1. <<g, l>> \in PostedTo(p)'
      BY <2>1, <2>4
    <3> QED
      BY <2>4, <3>1 DEF Flagged
  <2>5. ASSUME NEW l, N = {l}, ~lines'[g][l].over
        PROVE  /\ IsFiniteSet(Alive(p)')
               /\ 20 * Total(Amounts', Alive(p)') <= 21 * InitialPO[p].quantity
    BY <1>1, <1>5, <2>5, OneMoreFits DEF Confirm
  <2>6. \/ N = {} \/ (\E l : N = {l}) \/ (\E m, k \in N : m # k)
    <3> HIDE DEF N
    <3> QED
      OBVIOUS
  <2> HIDE DEF N
  <2> QED
    BY <2>2, <2>3, <2>4, <2>5, <2>6
<1> QED
  BY <1>2, <1>4, <1>5

\* Counted receipts are among them, so the quantity received is within as well.
LEMMA HeadroomHolds == Ledgered /\ OrderedStays /\ WithinHeadroom => OverReceiptIsFlagged
<1> SUFFICES ASSUME Ledgered, OrderedStays, WithinHeadroom, NEW p \in POs, torn = {},
                    20 * mem.po[p].ct > 21 * mem.po[p].quantity
             PROVE  Flagged(p)
  BY DEF OverReceiptIsFlagged, Flagged
<1>1. SUFFICES ASSUME ~Flagged(p) PROVE FALSE
  OBVIOUS
<1>0. Known(mem.po[p]) /\ p \in KnownPOs
  BY DEF OrderedStays, Ordered, KnownPOs
<1>2. IsFiniteSet(Alive(p)) /\ 20 * Total(Amounts, Alive(p)) <= 21 * InitialPO[p].quantity
  BY <1>0, <1>1 DEF WithinHeadroom
<1>3. \A r \in Alive(p) : Amounts[r] \in Nat
  BY AmountsType DEF Alive, PostedTo, Ledgered, Mirrored, Counted
<1>4. /\ Total(Amounts, Counts(mem.po[p])) <= Total(Amounts, Alive(p))
      /\ Total(Amounts, Alive(p)) \in Nat
  BY <1>2, <1>3, CountedOnceEach, TotalPart, TotalType
<1>5. mem.po[p].ct = Total(Amounts, Counts(mem.po[p]))
  BY CountedOnceEach
<1>6. mem.po[p].quantity = InitialPO[p].quantity /\ mem.po[p].ct \in Nat
      /\ InitialPO[p].quantity \in Nat
  BY <1>0 DEF OrderedStays, Ordered, Ledgered, Mirrored, Counted, Core, TypeOK, Stores, PoTable,
     PoRecord
<1> QED
  BY <1>2, <1>4, <1>5, <1>6

(***************************************************************************)
(* Site receipts beyond the 5% headroom of a PO are never silent, unless   *)
(* one GRN split them over several lines: through replays, SAP events,     *)
(* stale snapshots, failed flushes and the sweep of every restart.         *)
(***************************************************************************)
THEOREM OverReceiptsShow == Spec => []OverReceiptIsFlagged
<1>1. Init => JobUnstamped /\ OrderedStays /\ WithinHeadroom
  <2> SUFFICES ASSUME Init PROVE JobUnstamped /\ OrderedStays /\ WithinHeadroom
    OBVIOUS
  <2>1. JobUnstamped
    BY DEF Init, JobUnstamped
  <2>2. OrderedStays
    BY ReceiptConstants DEF Init, NoSnap, FreshTable, OrderedStays, Ordered, Known, KnownPOs,
       PoStatuses
  <2>3. ASSUME NEW p \in POs
        PROVE  IsFiniteSet(Alive(p)) /\ 20 * Total(Amounts, Alive(p)) <= 21 * InitialPO[p].quantity
    <3>1. Alive(p) = {}
      BY DEF Init, StoreInit, NoRow, Confirmed, PostedTo, Alive, Receipts
    <3>2. Total(Amounts, {}) = 0 /\ IsFiniteSet({})
      BY TotalEmpty, FS_EmptySet
    <3>3. InitialPO[p].quantity \in Nat
      BY ReceiptConstants
    <3> QED
      BY <3>1, <3>2, <3>3
  <2> QED
    BY <2>1, <2>2, <2>3 DEF WithinHeadroom, KnownPOs
<1>2. Ledgered /\ JobUnstamped /\ OrderedStays /\ WithinHeadroom /\ [Next]_vars
          => JobUnstamped' /\ OrderedStays' /\ WithinHeadroom'
  BY JobUnstampedStep, OrderedStep, HeadroomStep DEF Ledgered, Mirrored, Counted
<1>3. Ledgered /\ OrderedStays /\ WithinHeadroom => OverReceiptIsFlagged
  BY HeadroomHolds
<1> QED
  BY <1>1, <1>2, <1>3, LedgeredHolds, PTL DEF Spec

-----------------------------------------------------------------------------
(* Deliveries are complete when they are predicted to be                     *)

\* Between two handlers, if no flush was lost, the files have what the process
\* has, unless a snapshot has left them cut.
AtRest == job = None \/ job.at = "stamp"

Saved ==
    lapsed = {} /\ AtRest =>
        \A p \in POs : /\ disk.po[p] = mem.po[p] \/ ~Known(disk.po[p])
                       /\ snap.po[p] \in {None, mem.po[p]}

\* The ledger's sum over what is posted to p.
Taken(p) == Total(Amounts, PostedTo(p))

\* The ledger, or the SAP quantity of po, has the ordered quantity.
Filled(po, p) == Known(po) => Larger(Taken(p), po.sap) >= InitialPO[p].quantity

\* A delivery is full only with the quantity in the ledger or in every copy of
\* the PO, and when the ledger has it.
PredictionsHold ==
    Clean =>
        \A p \in POs :
            /\ IsFiniteSet(PostedTo(p))
            /\ deliveries[p] = "full" =>
                  /\ Filled(mem.po[p], p) /\ Filled(disk.po[p], p)
                  /\ snap.po[p] # None => Filled(snap.po[p], p)
            /\ Known(mem.po[p]) /\ Taken(p) >= InitialPO[p].quantity /\ Taken(p) > 0
                  => deliveries[p] = "full"

\* How a handler comes to rest, and what a step at rest leaves.
LEMMA RestStep ==
    ASSUME Core, [Next]_vars, ~CrashAndRestore, ~FlushSourcing, ~FlushFails, AtRest'
    PROVE  AtRest /\ mem' = mem
<1>0. job \in ConfirmJob \cup SapJob \cup {None}
  BY DEF Core, TypeOK
<1>1. ASSUME NEW at, NEW new \in ConfirmJob \cup SapJob, job' = new,
             new.at \in {"apply", "audit", "sourcing"}
      PROVE  FALSE
  BY <1>1, NoneIsNoJob DEF AtRest
<1>2. CASE ApplyReceipt
  <2>1. PICK l \in job.todo : job' = [job EXCEPT !.todo = @ \ {l}]
    BY <1>2, ApplyStep
  <2>2. job \in ConfirmJob /\ job.at = "apply"
    BY <1>2, ApplyStep
  <2>3. job' \in ConfirmJob /\ job'.at = "apply"
    BY <2>1, <2>2 DEF ConfirmJob
  <2> QED
    BY <1>1, <2>3
<1>3. CASE EmitConfirmed \/ FlushAudit
  <2>1. \E at \in {"audit", "sourcing"} : job' = [job EXCEPT !.at = at]
    BY <1>3 DEF EmitConfirmed, FlushAudit
  <2>2. job \in ConfirmJob \cup SapJob
    BY <1>0, <1>3 DEF EmitConfirmed, FlushAudit
  <2>3. job' \in ConfirmJob \cup SapJob /\ job'.at \in {"audit", "sourcing"}
    BY <2>1, <2>2 DEF ConfirmJob, SapJob
  <2> QED
    BY <1>1, <2>3
<1>4. ASSUME NEW q \in POs, SapEvent(q) PROVE FALSE
  <2>1. job' = [grn |-> None, todo |-> {}, at |-> "audit", live |-> FALSE]
    BY <1>4 DEF SapEvent
  <2>2. job' \in SapJob /\ job'.at = "audit"
    BY <2>1 DEF SapJob
  <2> QED
    BY <1>1, <2>2
<1>5. mem' = mem
  BY <1>2, <1>3, <1>4, MemStep
<1>6. ASSUME NEW g \in GrnIds, Confirm(g) \/ SweepGrn(g) PROVE job = None
  BY <1>6 DEF Confirm, SweepGrn, LoopFree
<1>7. CASE Stamp \/ StampLocked
  BY <1>7 DEF Stamp, StampLocked, AtRest
<1>8. ASSUME \/ BeginSync \/ EndSync \/ AbortSync \/ Snapshot \/ FinishStartup \/ UNCHANGED vars
      PROVE  UNCHANGED job
  BY <1>8 DEF BeginSync, EndSync, AbortSync, Snapshot, SnapshotBegin, SnapshotRead,
     SnapshotSourcing, SnapshotAudit, SnapshotFails, SnapshotCut, FinishStartup, procVars, vars
<1>9. ASSUME NEW h \in GrnIds,
             \/ ScheduleExtraction(h) \/ StartExtraction(h) \/ EndExtraction(h)
             \/ ExtractionRaises(h) \/ ReplayConfirm(h) \/ Reject(h)
      PROVE  UNCHANGED job
  BY <1>9 DEF ScheduleExtraction, StartExtraction, EndExtraction, ExtractionRaises,
     ReplayConfirm, Reject, otherThanTask, procVars
<1> QED
  BY <1>2, <1>3, <1>4, <1>5, <1>6, <1>7, <1>8, <1>9 DEF Next, Effects, AtRest

LEMMA SavedStep == Core /\ SnapReads /\ LockOne /\ Saved /\ [Next]_vars => Saved'
<1> SUFFICES ASSUME Core, SnapReads, LockOne, Saved, [Next]_vars, lapsed' = {}, AtRest',
                    NEW p \in POs
             PROVE  /\ disk'.po[p] = mem'.po[p] \/ ~Known(disk'.po[p])
                    /\ snap'.po[p] \in {None, mem'.po[p]}
  BY DEF Saved
<1>0. disk \in Disk /\ mem \in Stores /\ snap \in Snap /\ ~Known(LostTable[p])
  BY DEF Core, TypeOK, LostTable, Known
<1>1. CASE CrashAndRestore
  BY <1>1, CopyStep DEF CrashAndRestore, NoSnap
<1>2. CASE FlushSourcing
  BY <1>0, <1>2 DEF FlushSourcing, SourcingWritten, otherThanJob, LockOne, SnapReads, Disk
<1>3. CASE FlushFails
  BY <1>3 DEF FlushFails
<1>4. CASE ~CrashAndRestore /\ ~FlushSourcing /\ ~FlushFails
  <2>1. AtRest /\ mem' = mem
    BY <1>4, RestStep
  <2>2. disk.po[p] = mem.po[p] \/ ~Known(disk.po[p])
    BY <2>1, LapsedGrows DEF Saved
  <2>3. snap.po[p] \in {None, mem.po[p]}
    BY <2>1, LapsedGrows DEF Saved
  <2> QED
    BY <1>0, <2>1, <2>2, <2>3, CopyStep
<1> QED
  BY <1>1, <1>2, <1>3, <1>4

\* The quantity a GRN adds to a PO, as the code's total and as a sum.
LEMMA AddedSum ==
    ASSUME NEW ls \in LineTable, NEW p
    PROVE  AddedQty(ls, p) = Total([l \in LineNos |-> ls[l].qty], CreditLines(ls, p))
<1> DEFINE S == CreditLines(ls, p)
           w == [l \in LineNos |-> ls[l].qty]
           Table(g) ==
             g = [s \in SUBSET S |->
                    IF s = {} THEN 0
                    ELSE ls[CHOOSE x \in s : TRUE].qty + g[s \ {CHOOSE x \in s : TRUE}]]
<1>1. AddedQty(ls, p) = (CHOOSE g : Table(g))[S]
  BY DEF AddedQty, MapThenSumSet, MapThenFoldSet
<1>2. S \subseteq LineNos
  BY DEF CreditLines, Credits, Present
<1>3. ASSUME NEW s \in SUBSET S, s # {}
      PROVE  ls[CHOOSE x \in s : TRUE].qty = w[CHOOSE x \in s : TRUE]
  <2>1. (CHOOSE x \in s : TRUE) \in s
    BY <1>3
  <2>2. (CHOOSE x \in s : TRUE) \in LineNos
    BY <1>2, <2>1
  <2> QED
    BY <2>2
<1>4. \A g : Table(g) <=> SumTable(w, g, S)
  <2> HIDE DEF S, w
  <2> QED
    BY <1>3 DEF SumTable, SumAt
<1>5. (CHOOSE g : Table(g)) = (CHOOSE g : SumTable(w, g, S))
  <2> HIDE DEF Table, w, S
  <2> QED
    BY <1>4
<1> HIDE DEF Table, w, S
<1> QED
  BY <1>1, <1>5, TotalDef DEF w, S

\* A confirm adds to what is posted what its prediction adds to what was received.
LEMMA TakenGrows ==
    ASSUME Ledgered, [Next]_vars, NEW g \in GrnIds, Confirm(g), NEW p \in POs,
           IsFiniteSet(PostedTo(p))
    PROVE  /\ IsFiniteSet(PostedTo(p)')
           /\ Taken(p)' = Taken(p) + AddedQty(lines'[g], p)
           /\ AddedQty(lines'[g], p) \in Nat
           /\ CreditLines(lines'[g], p) = {} => AddedQty(lines'[g], p) = 0
<1> USE DEF Ledgered, Mirrored, Counted
<1> DEFINE T == CreditLines(lines'[g], p)
           S == PostedTo(p)
           v == [l \in LineNos |-> lines'[g][l].qty]
           f == [l \in LineNos |-> <<g, l>>]
<1>1. /\ PostedTo(p)' = S \cup {<<g, l>> : l \in T}
      /\ \A l : <<g, l>> \notin S
      /\ \A r \in S : Amounts'[r] = Amounts[r]
      /\ \A l \in T : l \in LineNos /\ Amounts'[<<g, l>>] = lines'[g][l].qty
  BY ConfirmPosts
<1>2. /\ lines' \in [GrnIds -> LineTable] /\ Amounts' \in [Receipts -> Nat]
  BY TypeStep, UploadFreshStep, JobOwesStep, AmountsType DEF Core, TypeOK, Amounts, Receipts
<1>3. AddedQty(lines'[g], p) = Total(v, T)
  BY <1>2, AddedSum
<1>4. IsFiniteSet(T)
  <2>1. T \subseteq LineNos
    BY <1>1
  <2> HIDE DEF T
  <2> QED
    BY <2>1, FiniteLines, FS_Subset
<1>5. IsFiniteSet(S)
  OBVIOUS
<1>6. \A l \in T : v[l] \in Nat /\ v[l] = Amounts'[f[l]] /\ f[l] = <<g, l>>
  <2> SUFFICES ASSUME NEW l \in T
               PROVE  v[l] \in Nat /\ v[l] = Amounts'[f[l]] /\ f[l] = <<g, l>>
    OBVIOUS
  <2>1. l \in LineNos /\ lines'[g][l] # None
    BY <1>1 DEF CreditLines, Credits, Present
  <2>2. lines'[g][l].qty \in Nat
    BY <1>2, <2>1 DEF LineTable, Line
  <2>3. v[l] = lines'[g][l].qty /\ f[l] = <<g, l>>
    BY <2>1
  <2> QED
    BY <1>1, <2>2, <2>3
<1>7. \A r \in S : Amounts'[r] \in Nat
  BY <1>2 DEF PostedTo
<1>8. ASSUME NEW l \in T, NEW k \in T, f[l] = f[k] PROVE l = k
  <2>1. <<g, l>> = <<g, k>>
    BY <1>6, <1>8
  <2> QED
    BY <2>1
<1>9. {<<g, l>> : l \in T} = {f[l] : l \in T}
  BY <1>6
<1> HIDE DEF S, T, f, v
<1>10. PICK b, R : b = Amounts' /\ R = PostedTo(p)'
  OBVIOUS
<1>11. IsFiniteSet(R) /\ Total(b, R) = Total(b, S) + Total(v, T)
  <2>1. /\ \A l \in T : f[l] \notin S /\ b[f[l]] = v[l] /\ v[l] \in Nat
        /\ \A r \in S : b[r] \in Nat
    BY <1>1, <1>6, <1>7, <1>10
  <2>2. \A y, z \in T : f[y] = f[z] => y = z
    BY <1>8
  <2>3. \A x : x \in R <=> x \in S \/ \E y \in T : x = f[y]
    BY <1>1, <1>9, <1>10
  <2>4. Joins(R, b, S, v, T, f)
    BY <1>4, <1>5, <2>1, <2>2, <2>3 DEF Joins
  <2> QED
    BY <2>4, TotalJoin
<1>12. Total(b, S) = Total(Amounts, S)
  BY <1>1, <1>10, TotalSame
<1>13. Total(v, T) \in Nat
  BY <1>4, <1>6, TotalType
<1>14. T = {} => Total(v, T) = 0
  BY TotalEmpty
<1> QED
  BY <1>3, <1>10, <1>11, <1>12, <1>13, <1>14 DEF Taken, S, T

\* Any other step leaves what is posted.
LEMMA TakenStays ==
    ASSUME Mirrored, [Next]_vars, NEW p \in POs, \A g \in GrnIds : ~Confirm(g)
    PROVE  PostedTo(p)' = PostedTo(p) /\ Taken(p)' = Taken(p)
<1> USE DEF Mirrored, Counted
<1>1. ASSUME NEW g \in GrnIds, NEW l \in LineNos, <<g, l>> \in PostedTo(p)'
      PROVE  <<g, l>> \in PostedTo(p)
  <2>1. Confirmed(g)' /\ CreditsTo(g, l, p)'
    BY <1>1 DEF PostedTo
  <2>2. Confirmed(g)
    BY <2>1, NewlyConfirmed
  <2> QED
    BY <2>1, <2>2, CreditsFixed DEF PostedTo, Receipts
<1>2. PostedTo(p)' = PostedTo(p)
  BY <1>1, PostedStays DEF PostedTo, Receipts
<1>3. \A r \in PostedTo(p) : Amounts'[r] = Amounts[r]
  BY AmountsKept DEF PostedTo
<1>4. PICK a, b, S : a = Amounts /\ b = Amounts' /\ S = PostedTo(p)
  OBVIOUS
<1>5. Total(b, S) = Total(a, S)
  BY SMTT(60), <1>3, <1>4, TotalSame
<1> QED
  BY <1>2, <1>4, <1>5 DEF Taken

LEMMA DeliveriesStep ==
    ASSUME [Next]_vars, \A g \in GrnIds : ~Confirm(g)
    PROVE  deliveries' = deliveries
  BY ZenonT(60) DEF Next, vars, storeVars, otherThanTask, otherThanJob, BeginSync, EndSync, AbortSync,
     SyncInsert, SyncCommit, SyncRollback, ScheduleExtraction, StartExtraction, EndExtraction,
     ExtractionRaises, MarkRunning, BandTransaction, FailTransaction, ReplayConfirm, Reject,
     RejectTransaction, SweepGrn, Effects, ApplyReceipt, EmitConfirmed, FlushAudit,
     FlushSourcing, Stamp, StampTransaction, FlushFails, StampLocked, SapEvent, Snapshot,
     SnapshotBegin, SnapshotRead, SnapshotSourcing, SnapshotAudit, SnapshotFails, SnapshotCut,
     CrashAndRestore, FinishStartup

\* More in the ledger, or more from SAP, fills no less.
LEMMA FilledGrows ==
    ASSUME NEW t \in Nat, NEW u \in Nat, t <= u, NEW s \in Nat, NEW v \in Nat, s <= v,
           NEW q \in Nat, Larger(t, s) >= q
    PROVE  Larger(u, v) >= q
  BY DEF Larger

LEMMA PredictionsStep ==
    Ledgered /\ OrderedStays /\ Saved /\ PredictionsHold /\ [Next]_vars => PredictionsHold'
<1> SUFFICES ASSUME Ledgered, OrderedStays, Saved, PredictionsHold, [Next]_vars, Clean',
                    NEW p \in POs
             PROVE  /\ IsFiniteSet(PostedTo(p)')
                    /\ deliveries'[p] = "full" =>
                          /\ Filled(mem.po[p], p)' /\ Filled(disk.po[p], p)'
                          /\ snap'.po[p] # None => Filled(snap.po[p], p)'
                    /\ Known(mem'.po[p]) /\ Taken(p)' >= InitialPO[p].quantity /\ Taken(p)' > 0
                          => deliveries'[p] = "full"
  BY DEF PredictionsHold
<1> USE DEF Ledgered, Mirrored, Counted
<1>1. Clean
  BY TornGrows, LapsedGrows DEF Clean
<1> DEFINE q == InitialPO[p].quantity
<1>2. /\ IsFiniteSet(PostedTo(p))
      /\ deliveries[p] = "full" =>
            /\ Filled(mem.po[p], p) /\ Filled(disk.po[p], p)
            /\ snap.po[p] # None => Filled(snap.po[p], p)
      /\ Known(mem.po[p]) /\ Taken(p) >= q /\ Taken(p) > 0 => deliveries[p] = "full"
  BY <1>1 DEF PredictionsHold
<1>3. /\ q \in Nat /\ mem.po[p].sap \in Nat /\ disk.po[p].sap \in Nat
      /\ mem'.po[p].sap \in Nat /\ mem.po[p].ct \in Nat
      /\ snap.po[p] # None => snap.po[p].sap \in Nat
  <2>1. mem \in Stores /\ mem' \in Stores /\ disk \in Disk /\ snap \in Snap
    BY TypeStep DEF Core, TypeOK
  <2> QED
    BY <2>1, ReceiptConstants DEF Stores, Disk, PoTable, PoRecord, Snap
<1>4. Taken(p) \in Nat
  <2>1. \A r \in PostedTo(p) : Amounts[r] \in Nat
    BY AmountsType DEF PostedTo
  <2> QED
    BY <1>2, <2>1, TotalType DEF Taken
<1>5. ASSUME deliveries[p] = "full", Taken(p)' \in Nat, Taken(p) <= Taken(p)'
      PROVE  /\ Filled(mem.po[p], p)' /\ Filled(disk.po[p], p)'
             /\ snap'.po[p] # None => Filled(snap.po[p], p)'
  <2> DEFINE Enough(po) == Known(po) => Larger(Taken(p)', po.sap) >= q
  <2>1. Enough(mem.po[p])
    BY <1>2, <1>3, <1>4, <1>5, FilledGrows DEF Filled
  <2>2. Enough(disk.po[p])
    BY <1>2, <1>3, <1>4, <1>5, FilledGrows DEF Filled
  <2>3. snap.po[p] # None => Enough(snap.po[p])
    BY <1>2, <1>3, <1>4, <1>5, FilledGrows DEF Filled
  <2>4. Enough(LostTable[p])
    BY DEF LostTable, Known
  <2> HIDE DEF Enough
  <2>5. /\ Enough(disk'.po[p])
        /\ snap'.po[p] # None => Enough(snap'.po[p])
    BY <2>1, <2>2, <2>3, <2>4, CopyStep
  <2>6. CASE CrashAndRestore
    BY <2>5, <2>6, CopyStep DEF Filled, Enough
  <2>7. CASE ~CrashAndRestore
    <3>1. mem'.po[p].sap >= mem.po[p].sap /\ (Known(mem'.po[p]) => Known(mem.po[p]))
      BY <2>7, FieldsStep
    <3>2. Known(mem'.po[p]) => Larger(Taken(p), mem.po[p].sap) >= q
      BY <1>2, <1>5, <3>1 DEF Filled
    <3>3. Enough(mem'.po[p])
      BY <1>3, <1>4, <1>5, <3>1, <3>2, FilledGrows DEF Enough
    <3> QED
      BY <2>5, <3>3 DEF Filled, Enough
  <2> QED
    BY <2>6, <2>7
<1>6. CASE \A g \in GrnIds : ~Confirm(g)
  <2>1. PostedTo(p)' = PostedTo(p) /\ Taken(p)' = Taken(p) /\ deliveries' = deliveries
    BY <1>6, TakenStays, DeliveriesStep
  <2>2. Known(mem'.po[p]) => Known(mem.po[p])
    BY KnownShrinks DEF KnownPOs
  <2>3. Taken(p) <= Taken(p)'
    BY <1>4, <2>1
  <2> QED
    BY <1>2, <1>4, <1>5, <2>1, <2>2, <2>3
<1>7. ASSUME NEW g \in GrnIds, Confirm(g)
      PROVE  /\ IsFiniteSet(PostedTo(p)')
             /\ deliveries'[p] = "full" =>
                   /\ Filled(mem.po[p], p)' /\ Filled(disk.po[p], p)'
                   /\ snap'.po[p] # None => Filled(snap.po[p], p)'
             /\ Known(mem'.po[p]) /\ Taken(p)' >= q /\ Taken(p)' > 0
                   => deliveries'[p] = "full"
  <2>0. LoopFree /\ mem' = mem /\ disk' = disk /\ snap' = snap
    BY <1>7 DEF Confirm
  <2> DEFINE n == AddedQty(lines'[g], p)
             N == CreditLines(lines'[g], p)
             po == mem.po[p]
  <2>1. /\ IsFiniteSet(PostedTo(p)') /\ Taken(p)' = Taken(p) + n
        /\ n \in Nat /\ (N = {} => n = 0)
    BY <1>2, <1>7, TakenGrows
  <2>2. deliveries'[p] = DeliveryRow(p, lines'[g], mem.po)
    BY <1>7 DEF Confirm, ConfirmTransaction
  <2>3. WillBeDelivered(po, n) <=> Larger(Larger(po.ct, po.sap), po.ct + n) >= po.quantity
    BY DEF WillBeDelivered, PredictedTotal, ReceivedQty
  <2>4. Taken(p)' \in Nat /\ Taken(p) <= Taken(p)'
    <3> HIDE DEF n
    <3> QED
      BY <1>4, <2>1
  <2>5. CASE N = {} \/ deliveries[p] = "full" \/ ~Known(po)
    <3>1. deliveries'[p] = deliveries[p]
      BY <2>2, <2>5 DEF DeliveryRow
    <3>2. Known(po) /\ Taken(p)' >= q /\ Taken(p)' > 0 => deliveries[p] = "full"
      <4> HIDE DEF n, N, q, po
      <4>1. CASE N = {}
        BY <1>2, <1>4, <2>1, <4>1 DEF po
      <4> QED
        BY <2>5, <4>1
    <3> HIDE DEF n, N, q
    <3> QED
      BY <1>5, <2>0, <2>1, <2>4, <3>1, <3>2
  <2>6. CASE ~(N = {} \/ deliveries[p] = "full" \/ ~Known(po))
    <3>0. po.quantity = q /\ Taken(p) = po.ct
      BY <1>1, <2>0, <2>6, CtIsPosted DEF OrderedStays, Ordered, Taken, KnownPOs
    <3>1. deliveries'[p] = IF WillBeDelivered(po, n) THEN "full" ELSE "open"
      BY <2>2, <2>6 DEF DeliveryRow
    <3> DEFINE sap == po.sap
    <3>2. sap \in Nat
      BY <1>3
    <3>3. deliveries'[p] = "full" <=> Larger(Larger(Taken(p), sap), Taken(p) + n) >= q
      BY <2>3, <3>0, <3>1
    <3>4. /\ disk.po[p] = po \/ ~Known(disk.po[p])
          /\ snap.po[p] \in {None, po}
      BY <1>1, <2>0 DEF Saved, AtRest, LoopFree, Clean
    <3>5. Larger(Taken(p)', sap) >= q =>
            /\ Filled(mem.po[p], p)' /\ Filled(disk.po[p], p)'
            /\ snap'.po[p] # None => Filled(snap.po[p], p)'
      BY <2>0, <3>4 DEF Filled
    <3> HIDE DEF q, sap, n, po, N
    <3>6. Larger(Larger(Taken(p), sap), Taken(p) + n) >= q => Larger(Taken(p) + n, sap) >= q
      BY <1>3, <1>4, <2>1, <3>2 DEF Larger
    <3>7. Taken(p) + n >= q => Larger(Larger(Taken(p), sap), Taken(p) + n) >= q
      BY <1>3, <1>4, <2>1, <3>2 DEF Larger
    <3> QED
      BY <2>1, <3>3, <3>5, <3>6, <3>7
  <2> HIDE DEF N, po
  <2> QED
    BY <2>5, <2>6
<1> HIDE DEF q
<1> QED
  BY <1>6, <1>7 DEF q

\* What the predictions say when the receipts have landed.
LEMMA PredictionsLanded == Ledgered /\ OrderedStays /\ PredictionsHold => DeliveryPrediction
<1> SUFFICES ASSUME Ledgered, OrderedStays, PredictionsHold, LoopFree, Clean,
                    NEW p \in KnownPOs
             PROVE  /\ deliveries[p] = "full" => ReceivedQty(mem.po[p]) >= mem.po[p].quantity
                    /\ mem.po[p].ct >= mem.po[p].quantity /\ mem.po[p].ct > 0
                          => deliveries[p] = "full"
  BY DEF DeliveryPrediction
<1>1. p \in POs /\ Known(mem.po[p])
  BY DEF KnownPOs
<1>2. mem.po[p].ct = Taken(p) /\ mem.po[p].quantity = InitialPO[p].quantity
  BY <1>1, CtIsPosted DEF Taken, OrderedStays, Ordered
<1> QED
  BY <1>1, <1>2 DEF PredictionsHold, Filled, ReceivedQty

(***************************************************************************)
(* vendor_deliveries is written in the confirm's transaction, before the   *)
(* receipts reach the PO.  Once they have landed cleanly, a full delivery  *)
(* has its quantity and a PO filled by site receipts is full, for every    *)
(* number of lines and receipts and every interleaving with SAP.           *)
(***************************************************************************)
THEOREM DeliveriesComeTrue == Spec => []DeliveryPrediction
<1>1. Init => OrderedStays /\ Saved /\ PredictionsHold
  <2> SUFFICES ASSUME Init PROVE OrderedStays /\ Saved /\ PredictionsHold
    OBVIOUS
  <2>1. mem.po = FreshTable /\ disk.po = FreshTable /\ \A p \in POs : snap.po[p] = None
    BY DEF Init, NoSnap
  <2>2. OrderedStays /\ Saved
    BY <2>1, ReceiptConstants DEF FreshTable, OrderedStays, Ordered, Saved, Known, KnownPOs,
       PoStatuses
  <2>3. ASSUME NEW p \in POs
        PROVE  IsFiniteSet(PostedTo(p)) /\ Taken(p) = 0 /\ deliveries[p] # "full"
    <3>1. PostedTo(p) = {}
      BY DEF Init, StoreInit, NoRow, Confirmed, PostedTo, Receipts
    <3>2. Total(Amounts, {}) = 0 /\ IsFiniteSet({})
      BY TotalEmpty, FS_EmptySet
    <3> QED
      BY <3>1, <3>2 DEF Taken, Init, StoreInit
  <2> QED
    BY <2>2, <2>3 DEF PredictionsHold
<1>2. Ledgered /\ OrderedStays /\ Saved /\ PredictionsHold /\ [Next]_vars
          => OrderedStays' /\ Saved' /\ PredictionsHold'
  BY OrderedStep, SavedStep, PredictionsStep DEF Ledgered, Mirrored, Counted
<1>3. Ledgered /\ OrderedStays /\ PredictionsHold => DeliveryPrediction
  BY PredictionsLanded
<1> QED
  BY <1>1, <1>2, <1>3, LedgeredHolds, PTL DEF Spec
=============================================================================
