------------------------------ MODULE GrnProofs ------------------------------
(***************************************************************************)
(* Proofs about GrnReceipt for every set of receipts, lines, POs, devices  *)
(* and quantities and every value of the bounds.                           *)
(***************************************************************************)
EXTENDS GrnReceipt, TLAPS

-----------------------------------------------------------------------------
(* Types of the operators the actions are built from                         *)

LEMMA LargerNat ==
    ASSUME NEW a \in Nat, NEW b \in Nat
    PROVE  Larger(a, b) \in Nat
    BY DEF Larger

\* A site receipt leaves a purchase order.
LEMMA CtReceiptType ==
    ASSUME NEW po \in PoRecord, NEW qty \in Nat
    PROVE  ApplyCtReceipt(po, qty) \in PoRecord
<1> DEFINE ct == po.ct + qty
           st == IF Larger(ct, po.sap) >= po.quantity THEN "delivered" ELSE po.status
<1>1. ct \in Nat
    BY DEF PoRecord
<1>2. st \in PoStatuses \cup {"lost"}
    BY DEF PoRecord, PoStatuses
<1> QED
    BY <1>1, <1>2 DEF PoRecord, ApplyCtReceipt

\* It does with its count, too.
LEMMA ReceiveType ==
    ASSUME NEW po \in PoRecord, NEW r \in Receipts, NEW qty \in Nat
    PROVE  Receive(po, r, qty) \in PoRecord
<1> DEFINE new == ApplyCtReceipt(po, qty)
<1>1. new \in PoRecord
    BY CtReceiptType
<1>2. Receive(po, r, qty) = [new EXCEPT !.got[r] = @ + 1]
    BY DEF Receive
<1> HIDE DEF new
<1>3. new.got \in [Receipts -> Nat]
    BY <1>1 DEF PoRecord
<1>4. [new.got EXCEPT ![r] = @ + 1] \in [Receipts -> Nat]
    BY <1>3
<1> QED
    BY <1>1, <1>2, <1>4 DEF PoRecord

\* So does a SAP event.
LEMMA SapEventType ==
    ASSUME NEW po \in PoRecord, NEW kind \in SapKinds, NEW qty \in Nat
    PROVE  ApplyToPo(po, kind, qty) \in PoRecord
<1> DEFINE sap == po.sap + qty
           st == IF sap >= po.quantity THEN "delivered" ELSE po.status
<1>1. sap \in Nat
    BY DEF PoRecord
<1>2. /\ st \in PoStatuses \cup {"lost"}
      /\ "released" \in PoStatuses /\ "delivered" \in PoStatuses
    BY DEF PoRecord, PoStatuses
<1>3. CASE kind = "gr_posted"
    BY <1>1, <1>2, <1>3 DEF PoRecord, ApplyToPo
<1>4. CASE kind = "po_released"
    BY <1>2, <1>4 DEF PoRecord, ApplyToPo
<1>5. CASE kind = "po_closed"
    BY <1>2, <1>5 DEF PoRecord, ApplyToPo
<1> QED
    BY <1>3, <1>4, <1>5 DEF SapKinds

\* A table of which nothing is known is a table; a file cut short stays a file.
LEMMA LostType == LostTable \in PoTable
    BY DEF LostTable, PoTable, PoRecord

LEMMA FilesType ==
    ASSUME TypeOK
    PROVE  /\ AuditWritten \in Disk
           /\ \A table \in PoTable : SourcingWritten(table) \in Disk
           /\ \A files \in SUBSET StateFiles : CutShort(files) \in Disk
<1>1. disk \in Disk /\ mem.audit \in SUBSET GrnIds
    BY DEF TypeOK, Stores
<1>2. AuditWritten \in Disk
    BY <1>1 DEF AuditWritten, Disk
<1>3. ASSUME NEW table \in PoTable PROVE SourcingWritten(table) \in Disk
    BY <1>1, <1>3 DEF SourcingWritten, Disk
<1>4. ASSUME NEW files \in SUBSET StateFiles PROVE CutShort(files) \in Disk
  <2>1. /\ (IF "sourcing" \in files THEN LostTable ELSE disk.po) \in PoTable
        /\ (IF "audit" \in files THEN {} ELSE disk.audit) \in SUBSET GrnIds
        /\ disk.cut \cup files \in SUBSET StateFiles
      BY <1>1, LostType DEF Disk
  <2> QED
      BY <2>1 DEF CutShort, Disk
<1> QED
    BY <1>2, <1>3, <1>4

\* Captured lines are lines.
LEMMA CapturedType == CapturedTables \subseteq LineTable
    BY StoreConstants DEF CapturedTables, LineTable, Line, PoRefs

\* Banding changes the PO of a line, nothing else, and yields a banded status.
LEMMA BandingsType ==
    ASSUME NEW ls \in LineTable, NEW pos, NEW b \in Bandings(ls, pos)
    PROVE  b.lines \in LineTable /\ b.st \in Banded
<1>1. PICK c \in BestMatches(ls, pos) :
         \E s \in BandStatuses(ls, Automatic(ls, c), pos) :
            b = [lines |-> BandedLines(ls, c), st |-> s]
    BY DEF Bandings
<1>2. b.st \in Banded
    BY <1>1 DEF BandStatuses, Banded
<1>3. ASSUME NEW l \in Present(ls)
      PROVE  [ls[l] EXCEPT !.po = c[l]] \in Line
    BY DEF Present, LineTable, Line, PoRefs, BestMatches
<1> QED
    BY <1>1, <1>2, <1>3 DEF LineTable, BandedLines

\* Closing keeps a header a header.
LEMMA ClosedRowType ==
    ASSUME NEW row \in GrnRow, NEW st \in Closed, NEW no \in Nat
    PROVE  ClosedRow(row, st, no) \in GrnRow
<1>1. ClosedExtraction(row.ext) \in ExtractionStatuses
    BY DEF ClosedExtraction, ExtractionStatuses, GrnRow
<1>2. st \in Statuses
    BY DEF Statuses
<1> QED
    BY <1>1, <1>2 DEF ClosedRow, GrnRow

\* A confirm leaves lines where there were lines.
LEMMA ConfirmedLinesType ==
    ASSUME TypeOK, NEW g \in GrnIds, NEW req \in Requests(g), NEW pos
    PROVE  ConfirmedLines(g, req, pos) \in LineTable
<1>1. lines[g] \in LineTable
    BY DEF TypeOK
<1> SUFFICES ASSUME NEW l \in LineNos, lines[g][l] # None
             PROVE  ConfirmedLines(g, req, pos)[l] \in Line
    BY <1>1 DEF ConfirmedLines, LineTable
<1>2. lines[g][l] \in Line
    BY <1>1 DEF LineTable
<1>3. req[l] \in RequestLine \cup {None}
    BY DEF Requests
<1>4. ConfirmedPo(req, l) \in PoRefs
    BY <1>3 DEF ConfirmedPo, RequestLine, PoRefs
<1>5. ConfirmedQty(g, req, l) \in Nat
    BY <1>2, <1>3, StoreConstants DEF ConfirmedQty, RequestLine, Line
<1> QED
    BY <1>4, <1>5 DEF ConfirmedLines, Line

-----------------------------------------------------------------------------
(* The inductive invariant.  Types alone are not inductive: that a receipt   *)
(* brings a PO a number rests on its line being there, hence on the lines of *)
(* a confirmed GRN never changing, hence on no upload being in flight for a  *)
(* GRN that is stored already.                                               *)

\* The upload in flight is new, its photo is written, its number is free.
UploadFresh ==
    upload # None =>
        /\ ~Stored(upload.grn)
        /\ photos[upload.grn] = upload.photo
        /\ SequenceFree(upload.dev, upload.seq)

\* The effects in progress are those of a confirmed GRN's credited lines.
JobOwes ==
    job # None /\ job.grn \in GrnIds =>
        /\ Confirmed(job.grn)
        /\ job.todo \subseteq Credits(lines[job.grn])

Core == TypeOK /\ UploadFresh /\ JobOwes

\* A header keeps its type under a change of its two status fields.
LEMMA HeaderType ==
    ASSUME TypeOK, NEW g \in GrnIds, NEW st \in Statuses, NEW ext \in ExtractionStatuses
    PROVE  [grn EXCEPT ![g].st = st, ![g].ext = ext] \in [GrnIds -> GrnRow]
<1>1. grn \in [GrnIds -> GrnRow]
    BY DEF TypeOK
<1>2. [grn[g] EXCEPT !.st = st, !.ext = ext] \in GrnRow
    BY <1>1 DEF GrnRow
<1> QED
    BY <1>1, <1>2

-----------------------------------------------------------------------------
(* Type correctness                                                          *)

LEMMA TypeInit == Init => TypeOK
<1> SUFFICES ASSUME Init PROVE TypeOK
    OBVIOUS
<1> USE DEF Init, StoreInit
<1>1. FreshTable \in PoTable
    BY ReceiptConstants DEF FreshTable, PoTable, PoRecord
<1>2. mem \in Stores /\ disk \in Disk
    BY <1>1 DEF Stores, Disk
<1>3. grn \in [GrnIds -> GrnRow]
    BY DEF NoRow, GrnRow, Statuses, ExtractionStatuses
<1>4. snap \in Snap
    BY DEF NoSnap, Snap
<1>5. lines \in [GrnIds -> LineTable]
    BY DEF LineTable
<1> QED
    BY <1>2, <1>3, <1>4, <1>5 DEF TypeOK

LEMMA TypeSync ==
    ASSUME TypeOK, BeginSync \/ EndSync \/ AbortSync
    PROVE  TypeOK'
<1>1. CASE BeginSync
  <2>1. PICK d \in Devices, g \in GrnIds, n \in SequenceNos, photo \in Photos,
             ls \in CapturedTables, route \in Routes :
             SyncInsert(d, g, n, photo, ls, route)
      BY <1>1 DEF BeginSync
  <2>2. upload' \in Upload /\ photos' \in [GrnIds -> Photos \cup {None}]
      BY <2>1, CapturedType DEF SyncInsert, Upload, TypeOK
  <2> QED
      BY <1>1, <2>1, <2>2 DEF BeginSync, SyncInsert, TypeOK, procVars, boundVars, historyVars
<1>2. CASE EndSync
  <2>1. upload \in Upload
      BY <1>2 DEF EndSync, SyncCommit, TypeOK
  <2>2. PICK out \in SyncOutcomes(upload, mem.po) :
          /\ grn' = [grn EXCEPT ![upload.grn] =
                        [st |-> out.st, ext |-> out.ext, dev |-> upload.dev,
                         seq |-> upload.seq, photo |-> upload.photo,
                         no |-> 0, stamped |-> FALSE]]
          /\ lines' = [lines EXCEPT ![upload.grn] = out.lines]
      BY <1>2 DEF EndSync, SyncCommit
  <2>3. /\ out.st \in Statuses
        /\ out.ext \in ExtractionStatuses
        /\ out.lines \in LineTable
      BY <2>1, BandingsType, StoreConstants
      DEF SyncOutcomes, Upload, Statuses, Banded, ExtractionStatuses, AllRoutes
  <2>4. grn' \in [GrnIds -> GrnRow] /\ lines' \in [GrnIds -> LineTable]
      BY <2>1, <2>2, <2>3, StoreConstants DEF TypeOK, GrnRow, Upload
  <2>5. lastSeq' \in [Devices -> Nat]
      BY <1>2, <2>1, LargerNat, StoreConstants DEF EndSync, SyncCommit, Watermark, Upload, TypeOK
  <2>6. task' \in [GrnIds -> {"none", "synced", "queued", "vision", "raised"}]
      BY <1>2 DEF EndSync, TypeOK
  <2> QED
      BY <1>2, <2>4, <2>5, <2>6 DEF EndSync, SyncCommit, TypeOK, boundVars, historyVars
<1>3. CASE AbortSync
    BY <1>3 DEF AbortSync, SyncRollback, TypeOK, procVars, boundVars, historyVars
<1> QED
    BY <1>1, <1>2, <1>3

LEMMA TypeExtraction ==
    ASSUME TypeOK, NEW g \in GrnIds,
           ScheduleExtraction(g) \/ StartExtraction(g) \/ EndExtraction(g) \/ ExtractionRaises(g)
    PROVE  TypeOK'
<1>1. task' \in [GrnIds -> {"none", "synced", "queued", "vision", "raised"}]
    BY DEF TypeOK, ScheduleExtraction, StartExtraction, EndExtraction, ExtractionRaises, TaskEnds
<1>2. ASSUME MarkRunning(g) \/ FailTransaction(g)
      PROVE  grn' \in [GrnIds -> GrnRow] /\ lines' \in [GrnIds -> LineTable]
  <2>1. grn[g].st \in Statuses /\ "triage" \in Statuses
      BY DEF TypeOK, GrnRow, Statuses, Banded
  <2>2. "running" \in ExtractionStatuses /\ "failed" \in ExtractionStatuses
      BY DEF ExtractionStatuses
  <2>3. grn \in [GrnIds -> GrnRow]
      BY DEF TypeOK
  <2>4. CASE MarkRunning(g)
    <3>1. [grn[g] EXCEPT !.ext = "running"] \in GrnRow
        BY <2>2, <2>3 DEF GrnRow
    <3> QED
        BY <2>3, <2>4, <3>1 DEF MarkRunning, TypeOK
  <2>5. CASE FailTransaction(g)
      BY <2>1, <2>2, <2>5, HeaderType DEF FailTransaction, TypeOK
  <2> QED
      BY <1>2, <2>4, <2>5
<1>3. ASSUME NEW ext \in ExtractionStatuses, NEW ls \in LineTable,
             BandTransaction(g, ext, ls, mem.po)
      PROVE  grn' \in [GrnIds -> GrnRow] /\ lines' \in [GrnIds -> LineTable]
  <2> DEFINE base == IF Present(lines[g]) = {} THEN ls ELSE lines[g]
  <2>1. PICK b \in Bandings(base, mem.po) :
          /\ grn' = [grn EXCEPT ![g].st = b.st, ![g].ext = ext]
          /\ lines' = [lines EXCEPT ![g] = b.lines]
      BY <1>3 DEF BandTransaction
  <2>2. base \in LineTable
      BY DEF TypeOK
  <2>3. b.lines \in LineTable /\ b.st \in Statuses
      BY <2>2, BandingsType DEF Statuses
  <2>4. lines' \in [GrnIds -> LineTable]
      BY <2>1, <2>3 DEF TypeOK
  <2> QED
      BY <2>1, <2>3, <2>4, HeaderType
<1>4. CASE ScheduleExtraction(g)
    BY <1>1, <1>4 DEF TypeOK, ScheduleExtraction, storeVars, boundVars, historyVars
<1>5. CASE ExtractionRaises(g)
    BY <1>1, <1>5 DEF TypeOK, ExtractionRaises, otherThanTask, storeVars, boundVars, historyVars
<1>6. CASE StartExtraction(g)
  <2>1. lines[g] \in LineTable /\ "skipped" \in ExtractionStatuses
      BY DEF TypeOK, ExtractionStatuses
  <2>2. grn' \in [GrnIds -> GrnRow] /\ lines' \in [GrnIds -> LineTable]
      BY <1>2, <1>3, <1>6, <2>1 DEF StartExtraction, TypeOK, storeVars
  <2> QED
      BY <1>1, <1>6, <2>2 DEF TypeOK, StartExtraction, BandTransaction, MarkRunning,
             otherThanTask, storeVars, boundVars, historyVars
<1>7. CASE EndExtraction(g)
  <2>1. "done" \in ExtractionStatuses
      BY DEF ExtractionStatuses
  <2>2. grn' \in [GrnIds -> GrnRow] /\ lines' \in [GrnIds -> LineTable]
      BY <1>2, <1>3, <1>7, <2>1, CapturedType DEF EndExtraction, TypeOK, storeVars
  <2> QED
      BY <1>1, <1>7, <2>2 DEF TypeOK, EndExtraction, BandTransaction, FailTransaction,
             otherThanTask, storeVars, boundVars, historyVars
<1> QED
    BY <1>4, <1>5, <1>6, <1>7

LEMMA TypeClose ==
    ASSUME TypeOK, NEW g \in GrnIds, Confirm(g) \/ ReplayConfirm(g) \/ Reject(g)
    PROVE  TypeOK'
<1>1. CASE Confirm(g)
  <2>1. PICK req \in Requests(g) : ConfirmTransaction(g, req, mem.po)
      BY <1>1 DEF Confirm
  <2>2. lines' \in [GrnIds -> LineTable]
      BY <2>1, ConfirmedLinesType DEF ConfirmTransaction, TypeOK
  <2>3. \A l \in LineNos : LedgerQty(lines'[g][l]) \in Nat
      BY <2>2 DEF LedgerQty, LineTable, Line
  <2>4. ledger' \in [GrnIds -> [LineNos -> Nat]]
      BY <2>1, <2>3 DEF ConfirmTransaction, TypeOK
  <2>5. deliveries' \in [POs -> {"none", "open", "full"}]
      BY <2>1 DEF ConfirmTransaction, DeliveryRow, TypeOK
  <2>6. grn' \in [GrnIds -> GrnRow]
    <3>1. PICK n \in NextGrnNos : grn' = [grn EXCEPT ![g] = ClosedRow(@, "confirmed", n)]
        BY <2>1 DEF ConfirmTransaction
    <3>2. n \in Nat
        BY DEF NextGrnNos, TypeOK, GrnRow
    <3> QED
        BY <3>1, <3>2, ClosedRowType DEF TypeOK, Closed
  <2>7. job' \in ConfirmJob
      BY <1>1 DEF Confirm, EffectsOf, Credits, Present, ConfirmJob
  <2> QED
      BY <1>1, <2>1, <2>2, <2>4, <2>5, <2>6, <2>7
      DEF Confirm, ConfirmTransaction, TypeOK, boundVars, historyVars
<1>2. CASE ReplayConfirm(g)
    BY <1>2 DEF ReplayConfirm, TypeOK, storeVars, procVars, boundVars
<1>3. CASE Reject(g)
  <2>1. grn[g] \in GrnRow /\ grn[g].no \in Nat
      BY DEF TypeOK, GrnRow
  <2>2. grn' \in [GrnIds -> GrnRow]
      BY <1>3, <2>1, ClosedRowType DEF Reject, RejectTransaction, TypeOK, Closed
  <2> QED
      BY <1>3, <2>2 DEF Reject, RejectTransaction, TypeOK, procVars, boundVars, historyVars
<1> QED
    BY <1>1, <1>2, <1>3

LEMMA TypeEffects ==
    ASSUME TypeOK, JobOwes, Effects \/ FlushFails \/ StampLocked
    PROVE  TypeOK'
<1> USE DEF otherThanJob, boundVars, historyVars, storeVars
<1>1. CASE ApplyReceipt
  <2>1. PICK l \in job.todo :
          LET p == lines[job.grn][l].po
          IN  /\ job' = [job EXCEPT !.todo = @ \ {l}]
              /\ mem' = IF p \notin KnownPOs THEN mem
                        ELSE [mem EXCEPT !.po[p] =
                                 Receive(@, <<job.grn, l>>, lines[job.grn][l].qty)]
      BY ZenonT(60), <1>1 DEF ApplyReceipt
  <2>2. job \in ConfirmJob /\ job.grn \in GrnIds /\ l \in LineNos
      BY <1>1 DEF ApplyReceipt, TypeOK, SapJob, ConfirmJob
  <2>3. job' \in ConfirmJob
      BY <2>1, <2>2 DEF ConfirmJob
  <2>4. lines[job.grn][l].qty \in Nat
    <3>1. l \in Present(lines[job.grn]) /\ lines[job.grn] \in LineTable
        BY ZenonT(60), <1>1, <2>2 DEF ApplyReceipt, JobOwes, Credits, TypeOK
    <3> QED
        BY <3>1 DEF Present, LineTable, Line
  <2>5. ASSUME lines[job.grn][l].po \in POs
        PROVE  mem' \in Stores
    <3>1. Receive(mem.po[lines[job.grn][l].po], <<job.grn, l>>, lines[job.grn][l].qty) \in PoRecord
        BY <2>2, <2>4, <2>5, ReceiveType DEF TypeOK, Stores, PoTable, Receipts
    <3> QED
        BY SMTT(60), <2>1, <2>5, <3>1 DEF TypeOK, Stores, PoTable
  <2>6. mem' \in Stores
      BY <2>1, <2>5 DEF TypeOK, KnownPOs
  <2> QED
      BY SMTT(60), <1>1, <2>3, <2>6 DEF ApplyReceipt, TypeOK
<1>2. CASE EmitConfirmed
  <2>1. job \in ConfirmJob /\ job' \in ConfirmJob /\ job.grn \in GrnIds
      BY <1>2 DEF EmitConfirmed, TypeOK, ConfirmJob, SapJob
  <2>2. PICK old \in SUBSET (GrnIds \ {job.grn}) :
          PushedOut(old) /\ mem' = [mem EXCEPT !.audit = (@ \ old) \cup {job.grn}]
      BY <1>2 DEF EmitConfirmed
  <2>3. mem' \in Stores
      BY <2>1, <2>2 DEF TypeOK, Stores
  <2>4. faded' \subseteq GrnIds
      BY <2>2 DEF PushedOut, TypeOK
  <2> QED
      BY <1>2, <2>1, <2>3, <2>4 DEF EmitConfirmed, TypeOK
<1>3. CASE FlushAudit
  <2>1. job' \in ConfirmJob \cup SapJob
      BY <1>3 DEF FlushAudit, TypeOK, ConfirmJob, SapJob
  <2> QED
      BY <1>3, <2>1, FilesType DEF FlushAudit, TypeOK
<1>4. job # None => AfterFlush \in ConfirmJob \cup SapJob \cup {None}
    BY DEF AfterFlush, TypeOK, ConfirmJob, SapJob
<1>5. CASE FlushSourcing
  <2>1. disk' \in Disk
      BY <1>5, FilesType DEF FlushSourcing, TypeOK, Stores
  <2> QED
      BY <1>4, <1>5, <2>1 DEF FlushSourcing, TypeOK
<1>6. CASE FlushFails
  <2>1. job.grn \in GrnIds \cup {None}
      BY <1>6 DEF FlushFails, TypeOK, ConfirmJob, SapJob
  <2>2. disk' \in Disk
      BY <1>6, FilesType DEF FlushFails, TypeOK, StateFiles
  <2> QED
      BY <1>4, <1>6, <2>1, <2>2 DEF FlushFails, TypeOK
<1>7. CASE Stamp
  <2>1. job.grn \in GrnIds
      BY <1>7 DEF Stamp, TypeOK, SapJob, ConfirmJob
  <2>2. [grn[job.grn] EXCEPT !.stamped = TRUE] \in GrnRow
    <3>1. grn[job.grn] \in GrnRow
        BY <2>1 DEF TypeOK
    <3> QED
        BY <3>1 DEF GrnRow
  <2> QED
      BY <1>7, <2>1, <2>2 DEF Stamp, StampTransaction, TypeOK
<1>8. CASE StampLocked
    BY <1>8 DEF StampLocked, TypeOK
<1> QED
    BY <1>1, <1>2, <1>3, <1>5, <1>6, <1>7, <1>8 DEF Effects

LEMMA TypeSnapshot ==
    ASSUME TypeOK, Snapshot \/ (\E p \in POs : SapEvent(p))
    PROVE  TypeOK'
<1> USE DEF boundVars, historyVars, storeVars
<1>1. NoSnap \in Snap /\ \A at \in {"sourcing", "audit"} : [NoSnap EXCEPT !.at = at] \in Snap
    BY DEF NoSnap, Snap
<1>2. CASE SnapshotBegin
    BY <1>1, <1>2 DEF SnapshotBegin, TypeOK
<1>3. ASSUME NEW p \in POs, SnapshotRead(p)
      PROVE  TypeOK'
  <2>1. mem.po[p] \in PoRecord
      BY DEF TypeOK, Stores, PoTable
  <2>2. snap' \in Snap
      BY <1>3, <2>1 DEF SnapshotRead, TypeOK, Snap
  <2> QED
      BY <1>3, <2>2 DEF SnapshotRead, TypeOK
<1>4. CASE SnapshotSourcing
  <2>1. snap.po \in PoTable
      BY <1>4 DEF SnapshotSourcing, TypeOK, Snap, PoTable
  <2> QED
      BY <1>1, <1>4, <2>1, FilesType DEF SnapshotSourcing, TypeOK
<1>5. CASE SnapshotAudit
    BY <1>1, <1>5, FilesType DEF SnapshotAudit, TypeOK
<1>6. CASE SnapshotFails
    BY <1>1, <1>6 DEF SnapshotFails, SnapshotCut, TypeOK
<1>7. ASSUME NEW p \in POs, SapEvent(p)
      PROVE  TypeOK'
  <2>1. PICK kind \in SapKinds, qty \in SapQtys, old \in SUBSET GrnIds :
          /\ PushedOut(old)
          /\ mem' = [mem EXCEPT !.po[p] = ApplyToPo(@, kind, qty), !.audit = @ \ old]
      BY <1>7 DEF SapEvent
  <2>2. ApplyToPo(mem.po[p], kind, qty) \in PoRecord
      BY SapEventType, ReceiptConstants DEF TypeOK, Stores, PoTable
  <2>3. mem' \in Stores
    <3>1. mem \in Stores
        BY DEF TypeOK
    <3>2. [mem.po EXCEPT ![p] = ApplyToPo(@, kind, qty)] \in PoTable
        BY <2>2, <3>1 DEF Stores, PoTable
    <3>3. mem.audit \ old \in SUBSET GrnIds
        BY <3>1 DEF Stores
    <3>4. /\ mem'.po = [mem.po EXCEPT ![p] = ApplyToPo(@, kind, qty)]
          /\ mem'.audit = mem.audit \ old
          /\ mem' = [po |-> mem'.po, audit |-> mem'.audit]
        BY <2>1, <3>1 DEF Stores
    <3> QED
        BY <3>2, <3>3, <3>4 DEF Stores
  <2>4. job' \in SapJob
      BY <1>7 DEF SapEvent, SapJob
  <2>5. faded' \subseteq GrnIds
      BY <2>1 DEF PushedOut, TypeOK
  <2>6. /\ UNCHANGED <<storeVars, mode, disk, snap, task, crashes, failures, acked, torn, lapsed>>
        /\ sapCount' = sapCount + 1
      BY <1>7 DEF SapEvent
  <2> QED
      BY <2>3, <2>4, <2>5, <2>6 DEF TypeOK
<1>8. CASE SnapshotCut
  <2>1. snap.at \in StateFiles
      BY <1>8 DEF SnapshotCut, TypeOK, Snap, StateFiles
  <2> QED
      BY <1>1, <1>8, <2>1, FilesType DEF SnapshotCut, TypeOK
<1> QED
    BY <1>2, <1>3, <1>4, <1>5, <1>6, <1>7, <1>8 DEF Snapshot

LEMMA TypeRestart ==
    ASSUME TypeOK, CrashAndRestore \/ FinishStartup \/ (\E g \in GrnIds : SweepGrn(g))
    PROVE  TypeOK'
<1> USE DEF boundVars, historyVars, storeVars
<1>1. CASE CrashAndRestore
  <2>1. disk' \in Disk
      BY <1>1, FilesType DEF CrashAndRestore, StateFiles
  <2>2. mem' \in Stores
      BY <1>1, <2>1 DEF CrashAndRestore, Restored, Disk, Stores
  <2>3. NoSnap \in Snap
      BY DEF NoSnap, Snap
  <2>4. faded' \subseteq GrnIds
      BY <1>1 DEF CrashAndRestore, TypeOK
  <2> QED
      BY <1>1, <2>1, <2>2, <2>3, <2>4 DEF CrashAndRestore, TypeOK
<1>2. CASE FinishStartup
    BY <1>2 DEF FinishStartup, TypeOK
<1>3. ASSUME NEW g \in GrnIds, SweepGrn(g)
      PROVE  TypeOK'
    BY <1>3 DEF SweepGrn, TypeOK, EffectsOf, Credits, Present, ConfirmJob
<1> QED
    BY <1>1, <1>2, <1>3

LEMMA TypeStep == Core /\ [Next]_vars => TypeOK'
<1> SUFFICES ASSUME TypeOK, UploadFresh, JobOwes, [Next]_vars PROVE TypeOK'
    BY DEF Core
<1>1. CASE UNCHANGED vars
    BY <1>1 DEF TypeOK, vars, storeVars, procVars, boundVars, historyVars
<1>2. CASE Next
    BY <1>2, TypeSync, TypeExtraction, TypeClose, TypeEffects, TypeSnapshot, TypeRestart DEF Next
<1> QED
    BY <1>1, <1>2

-----------------------------------------------------------------------------
(* What a step leaves alone                                                  *)

\* The header of a stored GRN keeps the identity it was synced with; the lines
\* of a confirmed one are fixed, its number too, and it keeps its stamp.
Kept(g) ==
    /\ Stored(g) => /\ Stored(g)'
                    /\ grn'[g].dev = grn[g].dev /\ grn'[g].seq = grn[g].seq
                    /\ grn'[g].photo = grn[g].photo
    /\ Confirmed(g) => /\ Confirmed(g)'
                       /\ lines'[g] = lines[g]
                       /\ grn'[g].no = grn[g].no
                       /\ grn[g].stamped => grn'[g].stamped

LEMMA StepKeeps ==
    ASSUME Core, [Next]_vars, NEW g \in GrnIds
    PROVE  Kept(g)
<1> USE DEF Core, Kept, Stored, Confirmed
<1>0. grn \in [GrnIds -> GrnRow] /\ lines \in [GrnIds -> LineTable]
    BY DEF TypeOK
<1>1. ASSUME UNCHANGED <<grn, lines>> PROVE Kept(g)
    BY <1>1
<1>2. CASE EndSync
  <2>1. ~Stored(upload.grn)
      BY <1>2 DEF EndSync, SyncCommit, UploadFresh
  <2> QED
      BY <1>0, <1>2, <2>1 DEF EndSync, SyncCommit
<1>3. ASSUME NEW h \in GrnIds, StartExtraction(h) \/ EndExtraction(h)
      PROVE  Kept(g)
  <2>1. ASSUME NEW b, NEW ext, grn' = [grn EXCEPT ![h].st = b.st, ![h].ext = ext],
               b.st \in Banded, lines' = [lines EXCEPT ![h] = b.lines], Active(h)
        PROVE  Kept(g)
      BY <1>0, <2>1 DEF Active, Banded, GrnRow
  <2>2. ASSUME NEW ls \in LineTable, NEW ext, BandTransaction(h, ext, ls, mem.po)
        PROVE  Kept(g)
    <3>1. PICK b \in Bandings(IF Present(lines[h]) = {} THEN ls ELSE lines[h], mem.po) :
            /\ grn' = [grn EXCEPT ![h].st = b.st, ![h].ext = ext]
            /\ lines' = [lines EXCEPT ![h] = b.lines]
        BY <2>2 DEF BandTransaction
    <3>2. b.st \in Banded
        BY <1>0, BandingsType
    <3> QED
        BY <2>1, <2>2, <3>1, <3>2 DEF BandTransaction
  <2>3. ASSUME MarkRunning(h) PROVE Kept(g)
      BY <1>0, <2>3 DEF MarkRunning, Active, GrnRow
  <2>4. ASSUME FailTransaction(h) PROVE Kept(g)
      BY <1>0, <2>4 DEF FailTransaction, Active, GrnRow
  <2> QED
      BY <1>0, <1>1, <1>3, <2>2, <2>3, <2>4, CapturedType DEF StartExtraction, EndExtraction, storeVars
<1>4. ASSUME NEW h \in GrnIds, Confirm(h) \/ Reject(h)
      PROVE  Kept(g)
  <2>1. Awaiting(h) /\ \E st \in Closed : \E no : grn' = [grn EXCEPT ![h] = ClosedRow(@, st, no)]
      BY <1>4 DEF Confirm, Reject, ConfirmTransaction, RejectTransaction, Closed
  <2>2. g # h => lines'[g] = lines[g]
      BY <1>0, <1>4 DEF Confirm, Reject, ConfirmTransaction, RejectTransaction
  <2>3. ASSUME NEW row \in GrnRow, NEW st \in Closed, NEW no
        PROVE  /\ ClosedRow(row, st, no).st = st
               /\ ClosedRow(row, st, no).dev = row.dev /\ ClosedRow(row, st, no).seq = row.seq
               /\ ClosedRow(row, st, no).photo = row.photo
      BY DEF ClosedRow, GrnRow
  <2> QED
      BY <1>0, <2>1, <2>2, <2>3 DEF Awaiting, Banded, Closed
<1>5. CASE Stamp
    BY <1>0, <1>5 DEF Stamp, StampTransaction, GrnRow
<1>6. ASSUME UNCHANGED vars PROVE Kept(g)
    BY ZenonT(60), <1>1, <1>6 DEF vars, storeVars
<1>7. ASSUME BeginSync \/ AbortSync \/ FlushFails \/ StampLocked \/ Snapshot
             \/ CrashAndRestore \/ FinishStartup \/ ApplyReceipt \/ EmitConfirmed
             \/ FlushAudit \/ FlushSourcing
      PROVE  Kept(g)
    BY <1>1, <1>7 DEF BeginSync, SyncInsert, AbortSync, SyncRollback, FlushFails, StampLocked,
       Snapshot, SnapshotBegin, SnapshotRead, SnapshotSourcing, SnapshotAudit, SnapshotFails, SnapshotCut,
       CrashAndRestore, FinishStartup, ApplyReceipt, EmitConfirmed, FlushAudit, FlushSourcing,
       storeVars
<1>8. ASSUME NEW h \in GrnIds, ScheduleExtraction(h) \/ ExtractionRaises(h)
                               \/ ReplayConfirm(h) \/ SweepGrn(h)
      PROVE  Kept(g)
    BY <1>1, <1>8 DEF ScheduleExtraction, ExtractionRaises, ReplayConfirm, SweepGrn, storeVars
<1>9. ASSUME NEW p \in POs, SapEvent(p) PROVE Kept(g)
    BY <1>1, <1>9 DEF SapEvent, storeVars
<1> QED
    BY <1>2, <1>3, <1>4, <1>5, <1>6, <1>7, <1>8, <1>9 DEF Next, Effects

-----------------------------------------------------------------------------
(* The rest of the core invariant                                            *)

\* Only BeginSync opens an upload or writes a photo; no header appears or
\* changes its identity while one is open.
LEMMA UploadFreshStep == Core /\ [Next]_vars => UploadFresh'
<1> SUFFICES ASSUME Core, [Next]_vars PROVE UploadFresh'
    OBVIOUS
<1> USE DEF UploadFresh
<1>1. CASE BeginSync
  <2>1. PICK d \in Devices, g \in GrnIds, n \in SequenceNos, photo \in Photos,
             ls \in CapturedTables, route \in Routes :
             SyncInsert(d, g, n, photo, ls, route)
      BY <1>1 DEF BeginSync
  <2> QED
      BY <2>1 DEF SyncInsert, IsNewGrn, Stored, SequenceFree, Core, TypeOK
<1>2. ASSUME EndSync \/ AbortSync \/ CrashAndRestore PROVE UploadFresh'
    BY <1>2 DEF EndSync, SyncCommit, AbortSync, SyncRollback, CrashAndRestore
<1>3. ASSUME upload = None, UNCHANGED upload PROVE UploadFresh'
    BY <1>3
<1>4. ASSUME UNCHANGED <<grn, photos, upload>> PROVE UploadFresh'
    BY <1>4, Zenon DEF Stored, SequenceFree, Core
<1>5. ASSUME NEW g \in GrnIds, StartExtraction(g) \/ EndExtraction(g) \/ Confirm(g) \/ Reject(g)
      PROVE  UploadFresh'
    BY <1>3, <1>4, <1>5 DEF StartExtraction, EndExtraction, Confirm, Reject, BandTransaction,
       MarkRunning, FailTransaction, ConfirmTransaction, RejectTransaction, storeVars
<1>6. ASSUME Stamp PROVE UploadFresh'
    BY <1>3, <1>6 DEF Stamp, StampTransaction
<1>7. ASSUME FlushFails \/ StampLocked \/ Snapshot \/ FinishStartup \/ ApplyReceipt
             \/ EmitConfirmed \/ FlushAudit \/ FlushSourcing \/ UNCHANGED vars
      PROVE  UploadFresh'
    BY <1>4, <1>7 DEF FlushFails, StampLocked, Snapshot, SnapshotBegin, SnapshotRead,
       SnapshotSourcing, SnapshotAudit, SnapshotFails, SnapshotCut, FinishStartup, ApplyReceipt,
       EmitConfirmed, FlushAudit, FlushSourcing, storeVars, vars
<1>8. ASSUME NEW g \in GrnIds, ScheduleExtraction(g) \/ ExtractionRaises(g)
                               \/ ReplayConfirm(g) \/ SweepGrn(g)
      PROVE  UploadFresh'
    BY <1>4, <1>8 DEF ScheduleExtraction, ExtractionRaises, ReplayConfirm, SweepGrn, storeVars
<1>9. ASSUME NEW p \in POs, SapEvent(p) PROVE UploadFresh'
    BY <1>4, <1>9 DEF SapEvent, storeVars
<1> QED
    BY <1>1, <1>2, <1>5, <1>6, <1>7, <1>8, <1>9 DEF Next, Effects

\* A job is opened for a GRN that is confirmed, and only shrinks; the GRN stays
\* confirmed with the same lines.
LEMMA JobOwesStep == Core /\ [Next]_vars => JobOwes'
<1> SUFFICES ASSUME Core, [Next]_vars PROVE JobOwes'
    OBVIOUS
<1> USE DEF JobOwes
<1>1. ASSUME NEW g \in GrnIds, Confirm(g) PROVE JobOwes'
  <2>1. grn'[g].st = "confirmed"
    <3>1. PICK no : grn' = [grn EXCEPT ![g] = ClosedRow(@, "confirmed", no)]
        BY <1>1 DEF Confirm, ConfirmTransaction
    <3>2. grn[g] \in GrnRow
        BY DEF Core, TypeOK
    <3>3. ClosedRow(grn[g], "confirmed", no).st = "confirmed"
        BY <3>2 DEF ClosedRow, GrnRow
    <3> QED
        BY <3>1, <3>3 DEF Core, TypeOK
  <2>2. job' = EffectsOf(g, lines'[g], TRUE)
      BY <1>1 DEF Confirm
  <2> QED
      BY <2>1, <2>2 DEF EffectsOf, Confirmed
<1>2. ASSUME NEW g \in GrnIds, SweepGrn(g) PROVE JobOwes'
    BY <1>2 DEF SweepGrn, EffectsOf, NeedsSweep, Unstamped, Confirmed, storeVars
<1>3. ASSUME job' = None PROVE JobOwes'
    BY <1>3
<1>4. ASSUME job # None, job.grn \in GrnIds => job' = None \/ (job'.grn = job.grn /\ job'.todo \subseteq job.todo),
             job.grn \notin GrnIds => job' = None \/ job'.grn = job.grn
      PROVE  JobOwes'
  <2>1. CASE job' # None /\ job.grn \in GrnIds
      BY <1>4, <2>1, StepKeeps DEF Kept, Core
  <2> QED
      BY <1>3, <1>4, <2>1
<1>5. ASSUME UNCHANGED job PROVE JobOwes'
    BY <1>3, <1>4, <1>5
<1>6. CASE ApplyReceipt \/ EmitConfirmed \/ FlushAudit \/ FlushSourcing \/ FlushFails
  <2>1. job # None /\ job \in ConfirmJob \cup SapJob
      BY SMTT(60), <1>6 DEF Core, TypeOK, ApplyReceipt, EmitConfirmed, FlushAudit, FlushSourcing, FlushFails
  <2>2. job' = None \/ (job'.grn = job.grn /\ job'.todo \subseteq job.todo)
      BY <1>6, <2>1 DEF ApplyReceipt, EmitConfirmed, FlushAudit, FlushSourcing, FlushFails,
         AfterFlush, ConfirmJob, SapJob
  <2> QED
      BY ZenonT(60), <1>4, <2>1, <2>2
<1>7. CASE Stamp \/ StampLocked \/ CrashAndRestore
    BY <1>3, <1>7 DEF Stamp, StampLocked, CrashAndRestore
<1>8. CASE BeginSync \/ EndSync \/ AbortSync \/ Snapshot \/ FinishStartup \/ UNCHANGED vars
    BY <1>5, <1>8 DEF BeginSync, EndSync, AbortSync, Snapshot, SnapshotBegin, SnapshotRead,
       SnapshotSourcing, SnapshotAudit, SnapshotFails, SnapshotCut, FinishStartup, vars, procVars
<1>9. ASSUME NEW g \in GrnIds, \/ ScheduleExtraction(g) \/ StartExtraction(g) \/ EndExtraction(g)
                               \/ ExtractionRaises(g) \/ ReplayConfirm(g) \/ Reject(g)
      PROVE  JobOwes'
    BY <1>5, <1>9 DEF ScheduleExtraction, StartExtraction, EndExtraction, ExtractionRaises,
       ReplayConfirm, Reject, otherThanTask, procVars
<1>10. ASSUME NEW p \in POs, SapEvent(p) PROVE JobOwes'
    BY <1>10, StoreConstants DEF SapEvent, Credits
<1> QED
    BY <1>1, <1>2, <1>6, <1>7, <1>8, <1>9, <1>10 DEF Next, Effects

LEMMA CoreHolds == Spec => []Core
<1>1. Init => Core
    BY TypeInit DEF Core, Init, StoreInit, UploadFresh, JobOwes
<1>2. Core /\ [Next]_vars => Core'
    BY TypeStep, UploadFreshStep, JobOwesStep DEF Core
<1> QED
    BY <1>1, <1>2, PTL DEF Spec

(***************************************************************************)
(* Every reachable state is well typed: no action leaves a status, a line, *)
(* a PO or a handler phase the code has no meaning for.                    *)
(***************************************************************************)
THEOREM TypeCorrect == Spec => []TypeOK
    BY CoreHolds, PTL DEF Core

-----------------------------------------------------------------------------
(* The steps that change a header, and how                                   *)

\* The extraction worker moves an active GRN to another status before closing.
Worked(h) ==
    /\ Active(h)
    /\ \E st \in {"captured"} \cup Banded, ext \in ExtractionStatuses :
          grn' = [grn EXCEPT ![h] = [@ EXCEPT !.st = st, !.ext = ext]]
    /\ UNCHANGED <<lastSeq, photos, upload>>

\* A confirm or a reject closes a GRN that awaits one.
ClosedNow(h) ==
    /\ Awaiting(h)
    /\ \/ \E n \in NextGrnNos : grn' = [grn EXCEPT ![h] = ClosedRow(@, "confirmed", n)]
       \/ grn' = [grn EXCEPT ![h] = ClosedRow(@, "cancelled", @.no)]
    /\ UNCHANGED <<lastSeq, photos, upload>>

\* The end of the effects stamps the GRN of the handler, which is confirmed.
Stamped(h) ==
    /\ Stamp /\ h = job.grn
    /\ Confirmed(h)
    /\ grn' = [grn EXCEPT ![h] = [@ EXCEPT !.stamped = TRUE]]
    /\ UNCHANGED <<lastSeq, photos, upload>>

\* What a turn of the extraction worker does to the headers.
LEMMA WorkedStep ==
    ASSUME Core, NEW h \in GrnIds, StartExtraction(h) \/ EndExtraction(h)
    PROVE  Worked(h) \/ UNCHANGED <<grn, lastSeq, photos>>
<1>0. grn \in [GrnIds -> GrnRow] /\ lines \in [GrnIds -> LineTable]
    BY DEF Core, TypeOK
<1>4. "failed" \in ExtractionStatuses /\ "skipped" \in ExtractionStatuses
      /\ "running" \in ExtractionStatuses /\ "done" \in ExtractionStatuses /\ "triage" \in Banded
    BY DEF ExtractionStatuses, Banded
<1>1. ASSUME NEW ls \in LineTable, NEW ext \in ExtractionStatuses,
             BandTransaction(h, ext, ls, mem.po)
      PROVE  Worked(h)
  <2>1. PICK b \in Bandings(IF Present(lines[h]) = {} THEN ls ELSE lines[h], mem.po) :
          grn' = [grn EXCEPT ![h].st = b.st, ![h].ext = ext]
      BY <1>1 DEF BandTransaction
  <2>2. b.st \in Banded
      BY <1>0, BandingsType
  <2>3. grn' = [grn EXCEPT ![h] = [@ EXCEPT !.st = b.st, !.ext = ext]]
      BY <1>0, <2>1
  <2> QED
      BY <1>1, <2>2, <2>3 DEF BandTransaction, Worked
<1>2. ASSUME FailTransaction(h) PROVE Worked(h)
  <2>1. grn' = [grn EXCEPT ![h] = [@ EXCEPT !.st = "triage", !.ext = "failed"]]
      BY <1>0, <1>2 DEF FailTransaction
  <2> QED
      BY <1>4, <1>2, <2>1 DEF FailTransaction, Worked
<1>3. ASSUME MarkRunning(h) PROVE Worked(h)
  <2>1. grn[h] \in GrnRow /\ grn[h].st = "captured"
      BY <1>0, <1>3 DEF MarkRunning, Active
  <2>2. [grn[h] EXCEPT !.ext = "running"] = [grn[h] EXCEPT !.st = "captured", !.ext = "running"]
      BY <2>1 DEF GrnRow
  <2>3. grn' = [grn EXCEPT ![h] = [@ EXCEPT !.st = "captured", !.ext = "running"]]
      BY <1>0, <1>3, <2>2 DEF MarkRunning
  <2> QED
      BY <1>4, <1>3, <2>3 DEF MarkRunning, Worked
<1> QED
    BY <1>0, <1>4, <1>1, <1>2, <1>3, CapturedType DEF StartExtraction, EndExtraction, storeVars

\* Every step, by what it does to the headers.
LEMMA HeaderStep ==
    ASSUME Core, [Next]_vars
    PROVE  \/ BeginSync \/ EndSync
           \/ \E h \in GrnIds : Worked(h) \/ ClosedNow(h) \/ Stamped(h)
           \/ UNCHANGED <<grn, lastSeq, photos>>
<1>0. grn \in [GrnIds -> GrnRow] /\ lines \in [GrnIds -> LineTable]
    BY DEF Core, TypeOK
<1>1. ASSUME NEW h \in GrnIds, StartExtraction(h) \/ EndExtraction(h)
      PROVE  Worked(h) \/ UNCHANGED <<grn, lastSeq, photos>>
    BY <1>1, WorkedStep
<1>2. ASSUME NEW h \in GrnIds, Confirm(h) \/ Reject(h) PROVE ClosedNow(h)
    BY <1>2 DEF Confirm, Reject, ConfirmTransaction, RejectTransaction, ClosedNow
<1>3. ASSUME Stamp PROVE \E h \in GrnIds : Stamped(h)
  <2>1. job.grn \in GrnIds
      BY <1>3 DEF Stamp, Core, TypeOK, ConfirmJob, SapJob
  <2>2. Confirmed(job.grn)
      BY <1>3, <2>1 DEF Stamp, Core, JobOwes
  <2>3. grn' = [grn EXCEPT ![job.grn] = [@ EXCEPT !.stamped = TRUE]]
      BY <1>0, <1>3, <2>1 DEF Stamp, StampTransaction
  <2> QED
      BY <1>3, <2>1, <2>2, <2>3 DEF Stamp, StampTransaction, Stamped
<1>4. ASSUME \/ AbortSync \/ FlushFails \/ StampLocked \/ Snapshot \/ CrashAndRestore
             \/ FinishStartup \/ ApplyReceipt \/ EmitConfirmed \/ FlushAudit \/ FlushSourcing
             \/ UNCHANGED vars
      PROVE  UNCHANGED <<grn, lastSeq, photos>>
    BY <1>4 DEF AbortSync, SyncRollback, FlushFails, StampLocked, Snapshot, SnapshotBegin,
       SnapshotRead, SnapshotSourcing, SnapshotAudit, SnapshotFails, SnapshotCut, CrashAndRestore,
       FinishStartup, ApplyReceipt, EmitConfirmed, FlushAudit, FlushSourcing, storeVars, vars
<1>5. ASSUME NEW h \in GrnIds, ScheduleExtraction(h) \/ ExtractionRaises(h)
                               \/ ReplayConfirm(h) \/ SweepGrn(h)
      PROVE  UNCHANGED <<grn, lastSeq, photos>>
    BY <1>5 DEF ScheduleExtraction, ExtractionRaises, ReplayConfirm, SweepGrn, storeVars
<1>6. ASSUME NEW p \in POs, SapEvent(p) PROVE UNCHANGED <<grn, lastSeq, photos>>
    BY <1>6 DEF SapEvent, storeVars
<1> QED
    BY <1>1, <1>2, <1>3, <1>4, <1>5, <1>6 DEF Next, Effects

\* What a commit makes of the upload.
LEMMA CommittedRow ==
    ASSUME Core, EndSync
    PROVE  /\ upload \in Upload
           /\ ~Stored(upload.grn)
           /\ \E st \in {"captured"} \cup Banded, ext \in ExtractionStatuses :
                 grn' = [grn EXCEPT ![upload.grn] =
                           [st |-> st, ext |-> ext, dev |-> upload.dev, seq |-> upload.seq,
                            photo |-> upload.photo, no |-> 0, stamped |-> FALSE]]
<1>1. upload \in Upload /\ ~Stored(upload.grn)
    BY DEF EndSync, SyncCommit, Core, TypeOK, UploadFresh
<1>2. PICK out \in SyncOutcomes(upload, mem.po) :
         grn' = [grn EXCEPT ![upload.grn] =
                   [st |-> out.st, ext |-> out.ext, dev |-> upload.dev, seq |-> upload.seq,
                    photo |-> upload.photo, no |-> 0, stamped |-> FALSE]]
    BY DEF EndSync, SyncCommit
<1>3. out.st \in {"captured"} \cup Banded /\ out.ext \in ExtractionStatuses
    BY <1>1, BandingsType, StoreConstants
    DEF SyncOutcomes, Upload, Banded, ExtractionStatuses, AllRoutes
<1> QED
    BY <1>1, <1>2, <1>3

-----------------------------------------------------------------------------
(* The safety of the store                                                   *)

(***************************************************************************)
(* However a confirm or a reject races the extraction worker, a closed GRN *)
(* has no extraction that waits or runs.                                   *)
(***************************************************************************)
THEOREM ClosedStaysSettled == Spec => []ClosedIsSettled
<1>1. Init => ClosedIsSettled
    BY DEF Init, StoreInit, NoRow, ClosedIsSettled, Closed
<1>2. Core /\ ClosedIsSettled /\ [Next]_vars => ClosedIsSettled'
  <2> SUFFICES ASSUME Core, ClosedIsSettled, [Next]_vars, NEW g \in GrnIds, grn'[g].st \in Closed
               PROVE  grn'[g].ext \notin {"pending", "running"}
      BY DEF ClosedIsSettled
  <2>0. grn \in [GrnIds -> GrnRow]
      BY DEF Core, TypeOK
  <2>1. CASE grn'[g] = grn[g]
      BY <2>1 DEF ClosedIsSettled
  <2>2. CASE EndSync
    <3>1. PICK st \in {"captured"} \cup Banded, ext \in ExtractionStatuses :
            grn' = [grn EXCEPT ![upload.grn] =
                      [st |-> st, ext |-> ext, dev |-> upload.dev, seq |-> upload.seq,
                       photo |-> upload.photo, no |-> 0, stamped |-> FALSE]]
        BY <2>2, CommittedRow
    <3>2. g = upload.grn => grn'[g].st = st
        BY <2>0, <3>1
    <3> QED
        BY <2>0, <2>1, <3>1, <3>2 DEF Closed, Banded
  <2>3. ASSUME NEW h \in GrnIds, Worked(h)
        PROVE  grn'[g].ext \notin {"pending", "running"}
    <3>1. PICK st \in {"captured"} \cup Banded, ext \in ExtractionStatuses :
            grn' = [grn EXCEPT ![h] = [@ EXCEPT !.st = st, !.ext = ext]]
        BY <2>3 DEF Worked
    <3>2. [grn[h] EXCEPT !.st = st, !.ext = ext].st = st
        BY <2>0 DEF GrnRow
    <3> QED
        BY <2>0, <2>1, <3>1, <3>2 DEF Closed, Banded
  <2>4. ASSUME NEW h \in GrnIds, ClosedNow(h)
        PROVE  grn'[g].ext \notin {"pending", "running"}
    <3>1. ASSUME NEW st, NEW no
          PROVE  ClosedRow(grn[h], st, no).ext \notin {"pending", "running"}
        BY <2>0 DEF ClosedRow, ClosedExtraction, GrnRow
    <3> QED
        BY <2>0, <2>1, <2>4, <3>1 DEF ClosedNow
  <2>5. ASSUME NEW h \in GrnIds, Stamped(h)
        PROVE  grn'[g].ext \notin {"pending", "running"}
    <3>1. /\ [grn[h] EXCEPT !.stamped = TRUE].st = grn[h].st
          /\ [grn[h] EXCEPT !.stamped = TRUE].ext = grn[h].ext
        BY <2>0 DEF GrnRow
    <3> QED
        BY <2>0, <2>1, <2>5, <3>1 DEF Stamped, ClosedIsSettled
  <2>6. CASE BeginSync \/ UNCHANGED <<grn, lastSeq, photos>>
      BY <2>1, <2>6 DEF BeginSync, SyncInsert
  <2> QED
      BY <2>2, <2>3, <2>4, <2>5, <2>6, HeaderStep
<1> QED
    BY <1>1, <1>2, CoreHolds, PTL DEF Spec

(***************************************************************************)
(* GRN numbers belong to confirmed receipts only and are given out once.   *)
(***************************************************************************)
THEOREM GrnNosUnique == Spec => []GrnNosDistinct
<1>1. Init => GrnNosDistinct
    BY DEF Init, StoreInit, NoRow, GrnNosDistinct, Confirmed
<1>2. Core /\ GrnNosDistinct /\ [Next]_vars => GrnNosDistinct'
  <2> SUFFICES ASSUME Core, GrnNosDistinct, [Next]_vars PROVE GrnNosDistinct'
      OBVIOUS
  <2>0. grn \in [GrnIds -> GrnRow]
      BY DEF Core, TypeOK
  <2> DEFINE SameNos == \A g \in GrnIds : grn'[g].no = grn[g].no /\ Confirmed(g)' = Confirmed(g)
  <2>1. ASSUME SameNos PROVE GrnNosDistinct'
      BY <2>1 DEF GrnNosDistinct
  <2> HIDE DEF SameNos
  <2>2. CASE EndSync
    <3>1. grn[upload.grn].no = 0 /\ ~Confirmed(upload.grn) /\ upload.grn \in GrnIds
        BY <2>2, CommittedRow DEF GrnNosDistinct, Stored, Confirmed, Upload
    <3>2. PICK st \in {"captured"} \cup Banded, ext \in ExtractionStatuses :
            grn' = [grn EXCEPT ![upload.grn] =
                      [st |-> st, ext |-> ext, dev |-> upload.dev, seq |-> upload.seq,
                       photo |-> upload.photo, no |-> 0, stamped |-> FALSE]]
        BY <2>2, CommittedRow
    <3>3. grn'[upload.grn].st = st /\ grn'[upload.grn].no = 0
        BY <2>0, <3>1, <3>2
    <3>4. \A g \in GrnIds \ {upload.grn} : grn'[g] = grn[g]
        BY <2>0, <3>2
    <3>5. SameNos
        BY <3>1, <3>3, <3>4 DEF SameNos, Confirmed, Banded
    <3> QED
        BY <2>1, <3>5
  <2>3. ASSUME NEW h \in GrnIds, Worked(h) PROVE GrnNosDistinct'
    <3>1. PICK st \in {"captured"} \cup Banded, ext \in ExtractionStatuses :
            grn' = [grn EXCEPT ![h] = [@ EXCEPT !.st = st, !.ext = ext]]
        BY <2>3 DEF Worked
    <3>2. LET row == [grn[h] EXCEPT !.st = st, !.ext = ext]
          IN  row.st = st /\ row.no = grn[h].no
        BY <2>0 DEF GrnRow
    <3>3. SameNos
        BY <2>0, <2>3, <3>1, <3>2 DEF SameNos, Worked, Active, Confirmed, Banded
    <3> QED
        BY <2>1, <3>3
  <2>4. ASSUME NEW h \in GrnIds, ClosedNow(h) PROVE GrnNosDistinct'
    <3>1. ~Confirmed(h) /\ grn[h].no = 0
        BY <2>4 DEF ClosedNow, Awaiting, Banded, Confirmed, GrnNosDistinct
    <3>2. ASSUME NEW st, NEW no
          PROVE  ClosedRow(grn[h], st, no).st = st /\ ClosedRow(grn[h], st, no).no = no
        BY <2>0 DEF ClosedRow, GrnRow
    <3>3. CASE grn' = [grn EXCEPT ![h] = ClosedRow(@, "cancelled", @.no)]
      <4>1. SameNos
          BY <2>0, <3>1, <3>2, <3>3 DEF SameNos, Confirmed
      <4> QED
          BY <2>1, <4>1
    <3>4. ASSUME NEW n \in NextGrnNos, grn' = [grn EXCEPT ![h] = ClosedRow(@, "confirmed", n)]
          PROVE  GrnNosDistinct'
      <4>1. \A g \in GrnIds : grn[g].no \in Nat /\ grn[g].no < n
          BY <2>0 DEF NextGrnNos, GrnRow
      <4>2. n \in Nat /\ n # 0
          BY <2>0, <4>1 DEF NextGrnNos, GrnRow
      <4>3. grn'[h].no = n /\ Confirmed(h)'
          BY <2>0, <3>2, <3>4 DEF Confirmed
      <4>4. \A g \in GrnIds \ {h} : grn'[g].no = grn[g].no /\ Confirmed(g)' = Confirmed(g)
          BY <2>0, <3>4 DEF Confirmed
      <4> QED
          BY <4>1, <4>2, <4>3, <4>4 DEF GrnNosDistinct
    <3> QED
        BY <2>4, <3>3, <3>4 DEF ClosedNow
  <2>5. ASSUME NEW h \in GrnIds, Stamped(h) PROVE GrnNosDistinct'
    <3>1. LET row == [grn[h] EXCEPT !.stamped = TRUE]
          IN  row.st = grn[h].st /\ row.no = grn[h].no
        BY <2>0 DEF GrnRow
    <3>2. SameNos
        BY <2>0, <2>5, <3>1 DEF SameNos, Stamped, Confirmed
    <3> QED
        BY <2>1, <3>2
  <2>6. CASE BeginSync \/ UNCHANGED <<grn, lastSeq, photos>>
      BY <2>1, <2>6 DEF BeginSync, SyncInsert, SameNos, Confirmed
  <2> QED
      BY <2>2, <2>3, <2>4, <2>5, <2>6, HeaderStep
<1> QED
    BY <1>1, <1>2, CoreHolds, PTL DEF Spec

\* A header's identity and its photo change together or not at all, except by
\* a commit.
LEMMA IdentityStep ==
    ASSUME Core, [Next]_vars, NEW g \in GrnIds
    PROVE  \/ /\ grn'[g].dev = grn[g].dev /\ grn'[g].seq = grn[g].seq
              /\ grn'[g].photo = grn[g].photo
              /\ Stored(g)' = Stored(g)
           \/ /\ EndSync /\ g = upload.grn
              /\ grn'[g].dev = upload.dev /\ grn'[g].seq = upload.seq
              /\ grn'[g].photo = upload.photo
<1>0. grn \in [GrnIds -> GrnRow]
    BY DEF Core, TypeOK
<1> DEFINE Same == /\ grn'[g].dev = grn[g].dev /\ grn'[g].seq = grn[g].seq
                   /\ grn'[g].photo = grn[g].photo
                   /\ Stored(g)' = Stored(g)
<1>1. CASE grn'[g] = grn[g]
    BY <1>1 DEF Stored
<1>2. CASE EndSync
  <2>1. PICK st, ext :
          grn' = [grn EXCEPT ![upload.grn] =
                    [st |-> st, ext |-> ext, dev |-> upload.dev, seq |-> upload.seq,
                     photo |-> upload.photo, no |-> 0, stamped |-> FALSE]]
      BY <1>2, CommittedRow
  <2> QED
      BY <1>0, <1>1, <1>2, <2>1
<1>3. ASSUME NEW h \in GrnIds, Worked(h) PROVE Same
  <2>1. PICK st \in {"captured"} \cup Banded, ext \in ExtractionStatuses :
          grn' = [grn EXCEPT ![h] = [@ EXCEPT !.st = st, !.ext = ext]]
      BY <1>3 DEF Worked
  <2>2. LET row == [grn[h] EXCEPT !.st = st, !.ext = ext]
        IN  /\ row.st = st /\ row.dev = grn[h].dev /\ row.seq = grn[h].seq
            /\ row.photo = grn[h].photo
      BY <1>0 DEF GrnRow
  <2> QED
      BY <1>0, <1>1, <1>3, <2>1, <2>2 DEF Stored, Worked, Active, Banded
<1>4. ASSUME NEW h \in GrnIds, ClosedNow(h) PROVE Same
  <2>1. ASSUME NEW st, NEW no
        PROVE  LET row == ClosedRow(grn[h], st, no)
               IN  /\ row.st = st /\ row.dev = grn[h].dev /\ row.seq = grn[h].seq
                   /\ row.photo = grn[h].photo
      BY <1>0 DEF ClosedRow, GrnRow
  <2>2. \E st \in Closed : \E no : grn' = [grn EXCEPT ![h] = ClosedRow(@, st, no)]
      BY <1>4 DEF ClosedNow, Closed
  <2> QED
      BY <1>0, <1>1, <1>4, <2>1, <2>2 DEF Stored, ClosedNow, Awaiting, Banded, Closed
<1>5. ASSUME NEW h \in GrnIds, Stamped(h) PROVE Same
  <2>1. LET row == [grn[h] EXCEPT !.stamped = TRUE]
        IN  /\ row.st = grn[h].st /\ row.dev = grn[h].dev /\ row.seq = grn[h].seq
            /\ row.photo = grn[h].photo
      BY <1>0 DEF GrnRow
  <2> QED
      BY <1>0, <1>1, <1>5, <2>1 DEF Stored, Stamped
<1>6. CASE BeginSync \/ UNCHANGED <<grn, lastSeq, photos>>
    BY <1>1, <1>6 DEF BeginSync, SyncInsert
<1> QED
    BY <1>2, <1>3, <1>4, <1>5, <1>6, HeaderStep

(***************************************************************************)
(* The photo on disk is the one the row was synced with: an upload of a    *)
(* GRN that is stored never writes it, an aborted one leaves no row.       *)
(***************************************************************************)
THEOREM PhotoStays == Spec => []PhotoIsTheSyncedOne
<1>1. Init => PhotoIsTheSyncedOne
    BY DEF Init, StoreInit, NoRow, PhotoIsTheSyncedOne, Stored
<1>2. Core /\ PhotoIsTheSyncedOne /\ [Next]_vars => PhotoIsTheSyncedOne'
  <2> SUFFICES ASSUME Core, PhotoIsTheSyncedOne, [Next]_vars, NEW g \in GrnIds, Stored(g)'
               PROVE  photos'[g] = grn'[g].photo
      BY DEF PhotoIsTheSyncedOne
  <2>1. CASE BeginSync
      BY <2>1 DEF BeginSync, SyncInsert, IsNewGrn, PhotoIsTheSyncedOne, Core, TypeOK, Stored
  <2>2. CASE ~BeginSync
    <3>1. UNCHANGED photos
        BY <2>2, HeaderStep DEF EndSync, SyncCommit, Worked, ClosedNow, Stamped
    <3>2. EndSync => photos[upload.grn] = upload.photo
        BY DEF EndSync, SyncCommit, Core, UploadFresh
    <3> QED
        BY <3>1, <3>2, IdentityStep DEF PhotoIsTheSyncedOne
  <2> QED
      BY <2>1, <2>2
<1> QED
    BY <1>1, <1>2, CoreHolds, PTL DEF Spec

\* The row of a stored GRN names the device that captured it.
DeviceKnown == \A g \in GrnIds : Stored(g) => grn[g].dev \in Devices /\ grn[g].seq \in Nat

(***************************************************************************)
(* A device's watermark is at or above every number it has used, in any    *)
(* order of arrival, and no two receipts of a device share a number.       *)
(***************************************************************************)
THEOREM WatermarkIsSafe == Spec => []WatermarkCoversRows
<1>1. Init => WatermarkCoversRows /\ DeviceKnown
    BY DEF Init, StoreInit, NoRow, WatermarkCoversRows, DeviceKnown, Stored
<1>2. Core /\ WatermarkCoversRows /\ DeviceKnown /\ [Next]_vars
          => WatermarkCoversRows' /\ DeviceKnown'
  <2> SUFFICES ASSUME Core, WatermarkCoversRows, DeviceKnown, [Next]_vars
               PROVE  WatermarkCoversRows' /\ DeviceKnown'
      OBVIOUS
  <2>0. lastSeq \in [Devices -> Nat]
      BY DEF Core, TypeOK
  <2>1. CASE EndSync
    <3>1. /\ upload \in Upload /\ ~Stored(upload.grn)
          /\ upload.grn \in GrnIds /\ upload.dev \in Devices /\ upload.seq \in Nat
          /\ SequenceFree(upload.dev, upload.seq)
        BY <2>1, CommittedRow, StoreConstants DEF Upload, EndSync, SyncCommit, Core, UploadFresh
    <3>2. grn'[upload.grn].dev = upload.dev /\ grn'[upload.grn].seq = upload.seq
      <4>1. PICK st, ext :
              grn' = [grn EXCEPT ![upload.grn] =
                        [st |-> st, ext |-> ext, dev |-> upload.dev, seq |-> upload.seq,
                         photo |-> upload.photo, no |-> 0, stamped |-> FALSE]]
          BY <2>1, CommittedRow
      <4> QED
          BY <3>1, <4>1 DEF Core, TypeOK
    <3>3. \A g \in GrnIds \ {upload.grn} :
            /\ Stored(g)' = Stored(g)
            /\ grn'[g].dev = grn[g].dev /\ grn'[g].seq = grn[g].seq
        BY IdentityStep
    <3>4. lastSeq' = [lastSeq EXCEPT ![upload.dev] = Larger(lastSeq[upload.dev], upload.seq)]
        BY <2>1 DEF EndSync, SyncCommit, Watermark
    <3>5. \A d \in Devices : lastSeq'[d] \in Nat /\ lastSeq[d] <= lastSeq'[d]
        BY <2>0, <3>1, <3>4 DEF Larger
    <3>6. upload.seq <= lastSeq'[upload.dev]
        BY <2>0, <3>1, <3>4 DEF Larger
    <3>7. DeviceKnown'
        BY <3>1, <3>2, <3>3 DEF DeviceKnown
    <3>8. ASSUME NEW g \in GrnIds, Stored(g)'
          PROVE  grn'[g].seq <= lastSeq'[grn'[g].dev]
      <4>1. CASE g = upload.grn
          BY <3>2, <3>6, <4>1
      <4>2. CASE g # upload.grn
        <5>1. /\ grn[g].dev \in Devices /\ grn[g].seq \in Nat
              /\ grn[g].seq <= lastSeq[grn[g].dev]
            BY <3>3, <3>8, <4>2 DEF DeviceKnown, WatermarkCoversRows
        <5> QED
            BY <2>0, <3>3, <3>5, <4>2, <5>1
      <4> QED
          BY <4>1, <4>2
    <3>9. ASSUME NEW g \in GrnIds, Stored(g)', NEW h \in GrnIds \ {g}, Stored(h)'
          PROVE  <<grn'[g].dev, grn'[g].seq>> # <<grn'[h].dev, grn'[h].seq>>
        BY <3>1, <3>2, <3>3, <3>9 DEF WatermarkCoversRows, SequenceFree
    <3> QED
        BY <3>7, <3>8, <3>9 DEF WatermarkCoversRows
  <2>2. CASE ~EndSync
    <3>1. UNCHANGED lastSeq
        BY <2>2, HeaderStep DEF BeginSync, SyncInsert, Worked, ClosedNow, Stamped
    <3>2. \A g \in GrnIds : /\ Stored(g)' = Stored(g)
                            /\ grn'[g].dev = grn[g].dev /\ grn'[g].seq = grn[g].seq
        BY <2>2, IdentityStep
    <3> QED
        BY <3>1, <3>2 DEF WatermarkCoversRows, DeviceKnown
  <2> QED
      BY <2>1, <2>2
<1> QED
    BY <1>1, <1>2, CoreHolds, PTL DEF Spec

\* AckedClaimsStand, for receipts that exist.
AckedOfGrns == \A a \in acked : a[1] \in GrnIds

(***************************************************************************)
(* A claim a confirm answered 200 stays the one on file for ever.          *)
(***************************************************************************)
THEOREM AckedStands == Spec => []AckedClaimsStand
<1>1. Init => AckedClaimsStand /\ AckedOfGrns
    BY DEF Init, AckedClaimsStand, AckedOfGrns
<1>2. Core /\ AckedClaimsStand /\ AckedOfGrns /\ [Next]_vars => AckedClaimsStand' /\ AckedOfGrns'
  <2> SUFFICES ASSUME Core, AckedClaimsStand, AckedOfGrns, [Next]_vars
               PROVE  AckedClaimsStand' /\ AckedOfGrns'
      OBVIOUS
  <2>1. ASSUME NEW g \in GrnIds, Confirmed(g)
        PROVE  Confirmed(g)' /\ OnFile(g)' = OnFile(g)
      BY <2>1, StepKeeps DEF Kept, OnFile
  <2>2. ASSUME NEW a \in acked
        PROVE  a[1] \in GrnIds /\ Confirmed(a[1])' /\ OnFile(a[1])' = a[2]
      BY <2>1 DEF AckedClaimsStand, AckedOfGrns
  <2>3. CASE acked' \subseteq acked
      BY <2>2, <2>3 DEF AckedClaimsStand, AckedOfGrns
  <2>4. ASSUME NEW g \in GrnIds, Confirmed(g), acked' = acked \cup {<<g, OnFile(g)>>}
        PROVE  AckedClaimsStand' /\ AckedOfGrns'
      BY <2>1, <2>2, <2>4 DEF AckedClaimsStand, AckedOfGrns
  <2>5. ASSUME NEW g \in GrnIds, ReplayConfirm(g)
        PROVE  AckedClaimsStand' /\ AckedOfGrns'
    <3>1. Confirmed(g) /\ acked' = acked \cup {<<g, OnFile(g)>>}
        BY <2>5 DEF ReplayConfirm, ReplayAccepted, Confirmed
    <3> QED
        BY <2>4, <3>1
  <2>6. CASE Stamp
    <3>1. job.grn \in GrnIds
        BY <2>6 DEF Stamp, Core, TypeOK, ConfirmJob, SapJob
    <3>2. Confirmed(job.grn)
        BY <2>6, <3>1 DEF Stamp, Core, JobOwes
    <3> QED
        BY <2>3, <2>4, <2>6, <3>1, <3>2 DEF Stamp
  <2>7. ASSUME \/ BeginSync \/ EndSync \/ AbortSync \/ FlushFails \/ StampLocked \/ Snapshot
               \/ CrashAndRestore \/ FinishStartup \/ ApplyReceipt \/ EmitConfirmed
               \/ FlushAudit \/ FlushSourcing \/ UNCHANGED vars
        PROVE  acked' \subseteq acked
      BY <2>7 DEF BeginSync, EndSync, AbortSync, FlushFails, StampLocked, Snapshot,
         SnapshotBegin, SnapshotRead, SnapshotSourcing, SnapshotAudit, SnapshotFails, SnapshotCut,
         CrashAndRestore, FinishStartup, ApplyReceipt, EmitConfirmed, FlushAudit,
         FlushSourcing, historyVars, vars
  <2>8. ASSUME NEW g \in GrnIds,
               \/ ScheduleExtraction(g) \/ StartExtraction(g) \/ EndExtraction(g)
               \/ ExtractionRaises(g) \/ Confirm(g) \/ Reject(g) \/ SweepGrn(g)
        PROVE  acked' \subseteq acked
      BY <2>8 DEF ScheduleExtraction, StartExtraction, EndExtraction, ExtractionRaises,
         Confirm, Reject, SweepGrn, otherThanTask, historyVars
  <2>9. ASSUME NEW p \in POs, SapEvent(p) PROVE acked' \subseteq acked
      BY <2>9 DEF SapEvent, historyVars
  <2> QED
      BY <2>3, <2>5, <2>6, <2>7, <2>8, <2>9 DEF Next, Effects
<1> QED
    BY <1>1, <1>2, CoreHolds, PTL DEF Spec

-----------------------------------------------------------------------------
(* What reaches the state files: a stamped confirm is durable and a receipt  *)
(* is counted once, for every interleaving of handlers, flushes, snapshots,  *)
(* failed flushes and crashes; so the whole implements the receipt book of   *)
(* ReceiptBook, every step being one of the book or leaving it alone.        *)

\* Every credited line of g for p is counted in po, a copy of p, unless p is
\* not known any more.
LandedIn(po, p, g) ==
    \A l \in LineNos : CreditsTo(g, l, p) => po.got[<<g, l>>] >= 1 \/ ~Known(po)

\* The event of g is in a log, unless it has left the log for good.
Logged(audit, g) == g \in audit \/ g \in faded

\* The event and the receipts of g are in the process, in the state files and
\* in whatever a snapshot has read and will write.
InStores(g) ==
    /\ Logged(mem.audit, g)
    /\ Logged(disk.audit, g) \/ "audit" \in disk.cut
    /\ \A p \in POs : /\ LandedIn(mem.po[p], p, g)
                      /\ LandedIn(disk.po[p], p, g)
                      /\ snap.po[p] # None => LandedIn(snap.po[p], p, g)

\* What a snapshot holds, it holds while it writes sourcing.json.
SnapReads == snap.at # "sourcing" => \A p \in POs : snap.po[p] = None

\* How far the effects of g, the handler's GRN, have come.
Progress(g) ==
    /\ \A l \in LineNos, p \in POs :
          CreditsTo(g, l, p) /\ l \notin job.todo =>
              mem.po[p].got[<<g, l>>] >= 1 \/ ~Known(mem.po[p])
    /\ job.at # "apply" => job.todo = {} /\ Logged(mem.audit, g)
    /\ job.at = "sourcing" => /\ Logged(disk.audit, g) \/ "audit" \in disk.cut
                              /\ snap.at = "idle"
    /\ job.at = "stamp" /\ g \notin lapsed => InStores(g)

JobProgress == \A g \in GrnIds : job # None /\ job.grn = g => Progress(g)

StampedInStores ==
    \A g \in GrnIds : grn[g].stamped => Confirmed(g) /\ (g \in lapsed \/ InStores(g))

Durably == Core /\ SnapReads /\ JobProgress /\ StampedInStores

-----------------------------------------------------------------------------
(* How the process's POs change                                              *)

\* Counts grow, and what is unknown stays so.
Grows(po, new) ==
    /\ \A r \in Receipts : new.got[r] >= po.got[r]
    /\ Known(new) => Known(po)

\* A receipt adds one to its own count; a SAP event to none.
LEMMA ReceiveGot ==
    ASSUME NEW po \in PoRecord, NEW r \in Receipts, NEW qty \in Nat
    PROVE  Receive(po, r, qty).got = [po.got EXCEPT ![r] = @ + 1]
<1> DEFINE new == ApplyCtReceipt(po, qty)
<1>1. new \in PoRecord
    BY CtReceiptType
<1>2. new.got = po.got
    BY DEF ApplyCtReceipt, PoRecord
<1>3. Receive(po, r, qty) = [new EXCEPT !.got[r] = @ + 1]
    BY DEF Receive
<1> HIDE DEF new
<1> QED
    BY <1>1, <1>2, <1>3 DEF PoRecord

LEMMA SapGot ==
    ASSUME NEW po \in PoRecord, NEW kind \in SapKinds, NEW qty \in Nat
    PROVE  ApplyToPo(po, kind, qty).got = po.got
    BY DEF ApplyToPo, SapKinds, PoRecord

\* The turn of the receipt loop, spelled out.
LEMMA ApplyStep ==
    ASSUME Core, ApplyReceipt
    PROVE  /\ job.grn \in GrnIds /\ job \in ConfirmJob /\ job.at = "apply" /\ job # None
           /\ \E l \in job.todo :
                 /\ l \in LineNos
                 /\ CreditsTo(job.grn, l, lines[job.grn][l].po)
                 /\ job' = [job EXCEPT !.todo = @ \ {l}]
                 /\ mem'.audit = mem.audit
                 /\ \A p \in POs : Known(mem'.po[p]) => Known(mem.po[p])
                 /\ \A p \in POs :
                       mem'.po[p].got = IF p = lines[job.grn][l].po /\ Known(mem.po[p])
                                        THEN [mem.po[p].got EXCEPT ![<<job.grn, l>>] = @ + 1]
                                        ELSE mem.po[p].got
<1>1. job.grn \in GrnIds /\ job \in ConfirmJob /\ job.at = "apply" /\ job # None
    BY DEF ApplyReceipt, Core, TypeOK, ConfirmJob, SapJob
<1>2. PICK l \in job.todo :
        LET p == lines[job.grn][l].po
        IN  /\ job' = [job EXCEPT !.todo = @ \ {l}]
            /\ mem' = IF p \notin KnownPOs THEN mem
                      ELSE [mem EXCEPT !.po[p] =
                               Receive(@, <<job.grn, l>>, lines[job.grn][l].qty)]
    BY ZenonT(60) DEF ApplyReceipt
<1>3. l \in Credits(lines[job.grn]) /\ l \in LineNos
    BY <1>1 DEF Core, JobOwes, Credits, Present
<1>4. lines[job.grn][l].qty \in Nat
    BY <1>1, <1>3 DEF Credits, Present, Core, TypeOK, LineTable, Line
<1>5. mem \in Stores /\ mem.po \in PoTable
    BY DEF Core, TypeOK, Stores
<1>6. ASSUME NEW p \in POs, p = lines[job.grn][l].po, Known(mem.po[p])
      PROVE  mem'.po[p].got = [mem.po[p].got EXCEPT ![<<job.grn, l>>] = @ + 1]
  <2>1. mem'.po[p] = Receive(mem.po[p], <<job.grn, l>>, lines[job.grn][l].qty)
      BY <1>2, <1>5, <1>6 DEF Stores, PoTable, KnownPOs
  <2>2. mem.po[p] \in PoRecord /\ <<job.grn, l>> \in Receipts
      BY <1>1, <1>3, <1>5 DEF PoTable, Receipts
  <2> DEFINE r == <<job.grn, l>>
             qty == lines[job.grn][l].qty
  <2>3. r \in Receipts /\ qty \in Nat /\ mem'.po[p] = Receive(mem.po[p], r, qty)
      BY <1>4, <1>6, <2>1, <2>2
  <2> HIDE DEF r, qty
  <2>4. Receive(mem.po[p], r, qty).got = [mem.po[p].got EXCEPT ![r] = @ + 1]
      BY <2>2, <2>3, ReceiveGot, ZenonT(60)
  <2> QED
      BY <2>3, <2>4 DEF r
<1>7. ASSUME NEW p \in POs, p # lines[job.grn][l].po \/ ~Known(mem.po[p])
      PROVE  mem'.po[p] = mem.po[p]
    BY <1>2, <1>5, <1>7 DEF Stores, PoTable, KnownPOs
<1>8. mem'.audit = mem.audit
    BY <1>2, <1>5 DEF Stores
<1>12. \A p \in POs : Known(mem'.po[p]) => Known(mem.po[p])
    BY <1>7
<1>9. \A p \in POs :
         mem'.po[p].got = IF p = lines[job.grn][l].po /\ Known(mem.po[p])
                          THEN [mem.po[p].got EXCEPT ![<<job.grn, l>>] = @ + 1]
                          ELSE mem.po[p].got
    BY <1>6, <1>7
<1>10. CreditsTo(job.grn, l, lines[job.grn][l].po)
    BY <1>3 DEF CreditsTo
<1>11. job' = [job EXCEPT !.todo = @ \ {l}]
    BY <1>2
<1> QED
    BY <1>1, <1>3, <1>8, <1>9, <1>10, <1>11, <1>12

\* The counts and the log, by a step that adds no receipt: an event only leaves
\* the log for good, and no PO comes back.
Recounted ==
    /\ \A g \in GrnIds : Logged(mem.audit, g) => Logged(mem.audit, g)'
    /\ \A p \in POs : /\ mem'.po[p].got = mem.po[p].got
                      /\ Known(mem'.po[p]) => Known(mem.po[p])

LEMMA SapStep ==
    ASSUME Core, NEW q \in POs, SapEvent(q)
    PROVE  Recounted
<1>1. PICK kind \in SapKinds, qty \in SapQtys, old \in SUBSET GrnIds :
        /\ PushedOut(old)
        /\ mem' = [mem EXCEPT !.po[q] = ApplyToPo(@, kind, qty), !.audit = @ \ old]
    BY DEF SapEvent
<1>2. mem \in Stores /\ mem.po \in PoTable /\ qty \in Nat
    BY ReceiptConstants DEF Core, TypeOK, Stores
<1>3. ApplyToPo(mem.po[q], kind, qty).got = mem.po[q].got
    BY <1>2, SapGot DEF PoTable
<1>4. mem'.po[q] = ApplyToPo(mem.po[q], kind, qty)
    BY <1>1, <1>2 DEF Stores, PoTable
<1>5. \A p \in POs \ {q} : mem'.po[p] = mem.po[p]
    BY <1>1, <1>2 DEF Stores, PoTable
<1>6. \A g \in GrnIds : Logged(mem.audit, g) => Logged(mem.audit, g)'
    BY <1>1, <1>2 DEF Stores, PushedOut, Logged
<1>7. Known(mem.po[q])
    BY DEF SapEvent, KnownPOs
<1> QED
    BY <1>3, <1>4, <1>5, <1>6, <1>7 DEF Recounted

\* Only the receipt loop and a crash change a count.
LEMMA GotStep ==
    ASSUME Core, [Next]_vars, ~CrashAndRestore, ~ApplyReceipt
    PROVE  Recounted
<1>1. CASE UNCHANGED <<mem, faded>>
    BY <1>1 DEF Recounted, Logged
<1>2. CASE EmitConfirmed
    BY <1>2 DEF EmitConfirmed, PushedOut, Logged, Recounted, Core, TypeOK, Stores
<1>3. ASSUME NEW p \in POs, SapEvent(p)
      PROVE  Recounted
    BY <1>3, SapStep
<1>4. ASSUME \/ BeginSync \/ EndSync \/ AbortSync \/ FlushFails \/ StampLocked \/ Snapshot
             \/ FinishStartup \/ FlushAudit \/ FlushSourcing \/ Stamp \/ UNCHANGED vars
      PROVE  UNCHANGED <<mem, faded>>
    BY <1>4 DEF BeginSync, EndSync, AbortSync, FlushFails, StampLocked, Snapshot, SnapshotBegin,
       SnapshotRead, SnapshotSourcing, SnapshotAudit, SnapshotFails, SnapshotCut, FinishStartup, FlushAudit,
       FlushSourcing, Stamp, otherThanJob, procVars, historyVars, vars
<1>5. ASSUME NEW g \in GrnIds,
             \/ ScheduleExtraction(g) \/ StartExtraction(g) \/ EndExtraction(g)
             \/ ExtractionRaises(g) \/ Confirm(g) \/ ReplayConfirm(g) \/ Reject(g) \/ SweepGrn(g)
      PROVE  UNCHANGED <<mem, faded>>
    BY <1>5 DEF ScheduleExtraction, StartExtraction, EndExtraction, ExtractionRaises, Confirm,
       ReplayConfirm, Reject, SweepGrn, otherThanTask, procVars, historyVars
<1> QED
    BY <1>1, <1>2, <1>3, <1>4, <1>5 DEF Next, Effects

\* Short of a crash, the process loses no count, and an event only for good.
LEMMA MemGrows ==
    ASSUME Core, [Next]_vars, ~CrashAndRestore
    PROVE  /\ \A g \in GrnIds : Logged(mem.audit, g) => Logged(mem.audit, g)'
           /\ \A p \in POs : Grows(mem.po[p], mem'.po[p])
<1>0. \A p \in POs : mem.po[p].got \in [Receipts -> Nat]
    BY DEF Core, TypeOK, Stores, PoTable, PoRecord
<1>1. CASE ~ApplyReceipt
    BY <1>0, <1>1, GotStep DEF Grows, Recounted
<1>2. CASE ApplyReceipt
  <2>1. PICK r :
          /\ mem'.audit = mem.audit
          /\ \A p \in POs : Known(mem'.po[p]) => Known(mem.po[p])
          /\ \A p \in POs : \/ mem'.po[p].got = [mem.po[p].got EXCEPT ![r] = @ + 1]
                            \/ mem'.po[p].got = mem.po[p].got
      BY ZenonT(60), <1>2, ApplyStep
  <2>2. ASSUME NEW p \in POs, NEW q \in Receipts
        PROVE  mem'.po[p].got[q] >= mem.po[p].got[q]
    <3>1. mem.po[p].got \in [Receipts -> Nat] /\ mem.po[p].got[q] \in Nat
        BY <1>0
    <3>2. CASE mem'.po[p].got = mem.po[p].got
        BY <3>1, <3>2
    <3>3. CASE mem'.po[p].got = [mem.po[p].got EXCEPT ![r] = @ + 1]
        BY <3>1, <3>3
    <3> QED
        BY <2>1, <3>2, <3>3
  <2>3. UNCHANGED faded
      BY <1>2 DEF ApplyReceipt, historyVars
  <2> QED
      BY <2>1, <2>2, <2>3 DEF Grows, Logged
<1> QED
    BY <1>1, <1>2

\* What a confirmed GRN credits is fixed, so a count that has landed stays so.
LEMMA CreditsFixed ==
    ASSUME Core, [Next]_vars, NEW g \in GrnIds, Confirmed(g), NEW l \in LineNos, NEW p \in POs
    PROVE  Confirmed(g)' /\ (CreditsTo(g, l, p)' <=> CreditsTo(g, l, p))
    BY StepKeeps DEF Kept, CreditsTo, Credits, Present

\* The steps that write the state files or the snapshot's copy.
FileStep ==
    \/ FlushAudit \/ FlushSourcing \/ SnapshotBegin \/ (\E p \in POs : SnapshotRead(p))
    \/ SnapshotSourcing \/ SnapshotAudit \/ SnapshotFails \/ SnapshotCut
    \/ FlushFails \/ CrashAndRestore

LEMMA OtherSteps ==
    ASSUME [Next]_vars, ~FileStep
    PROVE  UNCHANGED <<disk, snap>>
<1>1. ASSUME \/ BeginSync \/ EndSync \/ AbortSync \/ StampLocked
             \/ FinishStartup \/ ApplyReceipt \/ EmitConfirmed \/ Stamp \/ UNCHANGED vars
      PROVE  UNCHANGED <<disk, snap>>
    BY <1>1 DEF BeginSync, EndSync, AbortSync, StampLocked, FinishStartup,
       ApplyReceipt, EmitConfirmed, Stamp, otherThanJob, procVars, vars
<1>2. ASSUME NEW g \in GrnIds,
             \/ ScheduleExtraction(g) \/ StartExtraction(g) \/ EndExtraction(g)
             \/ ExtractionRaises(g) \/ Confirm(g) \/ ReplayConfirm(g) \/ Reject(g) \/ SweepGrn(g)
      PROVE  UNCHANGED <<disk, snap>>
    BY <1>2 DEF ScheduleExtraction, StartExtraction, EndExtraction, ExtractionRaises, Confirm,
       ReplayConfirm, Reject, SweepGrn, otherThanTask, procVars
<1>3. ASSUME NEW p \in POs, SapEvent(p)
      PROVE  UNCHANGED <<disk, snap>>
    BY <1>3 DEF SapEvent
<1> QED
    BY <1>1, <1>2, <1>3 DEF Next, Effects, Snapshot, FileStep

\* A file that a write, a failed write or a crash leaves is a copy that holds
\* the event and the receipts, or is cut.
LEMMA FilesStep ==
    ASSUME Core, [Next]_vars, NEW g \in GrnIds, InStores(g)
    PROVE  /\ \/ g \in disk'.audit \/ g \in faded \/ "audit" \in disk'.cut
           /\ \A p \in POs : LandedIn(disk'.po[p], p, g)
<1>0. disk \in Disk /\ mem \in Stores /\ snap \in Snap
    BY DEF Core, TypeOK
<1>1. \A p \in POs : /\ LandedIn(mem.po[p], p, g) /\ LandedIn(disk.po[p], p, g)
                      /\ snap.po[p] # None => LandedIn(snap.po[p], p, g)
    BY DEF InStores
<1>2. \A p \in POs : LandedIn(LostTable[p], p, g)
    BY DEF LandedIn, LostTable, Known
<1>3. ASSUME NEW files, disk' = CutShort(files)
      PROVE  /\ \/ g \in disk'.audit \/ g \in faded \/ "audit" \in disk'.cut
             /\ \A p \in POs : LandedIn(disk'.po[p], p, g)
    BY <1>1, <1>2, <1>3 DEF CutShort, InStores, Logged
<1>4. ASSUME disk' = AuditWritten
      PROVE  /\ g \in disk'.audit \/ g \in faded
             /\ \A p \in POs : LandedIn(disk'.po[p], p, g)
  <2>1. disk'.audit = mem.audit /\ disk'.po = disk.po
      BY <1>0, <1>4 DEF AuditWritten, Disk
  <2> QED
      BY <1>1, <2>1 DEF InStores, Logged
<1>5. ASSUME disk'.audit = disk.audit, "audit" \in disk.cut => "audit" \in disk'.cut
      PROVE  g \in disk'.audit \/ g \in faded \/ "audit" \in disk'.cut
    BY <1>5 DEF InStores, Logged
<1>6. CASE UNCHANGED disk
    BY <1>1, <1>6 DEF InStores, Logged
<1>7. CASE ~FileStep
    BY <1>6, <1>7, OtherSteps
<1>8. CASE FlushAudit \/ SnapshotAudit
    BY <1>4, <1>8 DEF FlushAudit, SnapshotAudit
<1>9. CASE FlushSourcing
  <2>1. disk'.audit = disk.audit /\ ("audit" \in disk.cut => "audit" \in disk'.cut)
      BY <1>0, <1>9 DEF FlushSourcing, SourcingWritten, Disk
  <2>2. disk'.po = mem.po
      BY <1>0, <1>9 DEF FlushSourcing, SourcingWritten, Disk
  <2>3. \A p \in POs : LandedIn(mem.po[p], p, g)
      BY DEF InStores
  <2>4. \A p \in POs : LandedIn(disk'.po[p], p, g)
      BY <2>2, <2>3
  <2> QED
      BY <1>5, <2>1, <2>4
<1>10. CASE SnapshotSourcing
  <2>1. disk'.audit = disk.audit /\ ("audit" \in disk.cut => "audit" \in disk'.cut)
      BY <1>0, <1>10 DEF SnapshotSourcing, SourcingWritten, Disk
  <2>2. disk'.po = snap.po
      BY <1>0, <1>10 DEF SnapshotSourcing, SourcingWritten, Disk
  <2>3. \A p \in POs : LandedIn(snap.po[p], p, g)
      BY <1>10 DEF SnapshotSourcing, InStores
  <2>4. \A p \in POs : LandedIn(disk'.po[p], p, g)
      BY <2>2, <2>3
  <2> QED
      BY <1>5, <2>1, <2>4
<1>11. CASE FlushFails \/ SnapshotCut \/ CrashAndRestore
    BY <1>3, <1>6, <1>11 DEF FlushFails, SnapshotCut, CrashAndRestore
<1>12. CASE SnapshotBegin \/ SnapshotFails \/ \E p \in POs : SnapshotRead(p)
    BY <1>6, <1>12 DEF SnapshotBegin, SnapshotFails, SnapshotRead
<1> QED
    BY <1>7, <1>8, <1>9, <1>10, <1>11, <1>12 DEF FileStep

\* What the snapshot holds afterwards it held before, or is as the process has it.
LEMMA SnapStep ==
    ASSUME Core, [Next]_vars, NEW p \in POs
    PROVE  snap'.po[p] \in {None, snap.po[p], mem.po[p]}
<1>0. snap \in Snap
    BY DEF Core, TypeOK
<1>1. CASE ~FileStep \/ UNCHANGED snap
    BY <1>1, OtherSteps
<1>2. CASE FlushAudit \/ FlushSourcing \/ FlushFails
    BY <1>1, <1>2 DEF FlushAudit, FlushSourcing, FlushFails, otherThanJob
<1>3. CASE SnapshotBegin \/ SnapshotFails \/ SnapshotCut \/ CrashAndRestore
           \/ SnapshotSourcing \/ SnapshotAudit
    BY <1>3 DEF SnapshotBegin, SnapshotFails, SnapshotCut, CrashAndRestore, SnapshotSourcing,
       SnapshotAudit, NoSnap
<1>4. ASSUME NEW q \in POs, SnapshotRead(q)
      PROVE  snap'.po[p] \in {snap.po[p], mem.po[p]}
    BY <1>0, <1>4 DEF SnapshotRead, Snap
<1> QED
    BY <1>1, <1>2, <1>3, <1>4 DEF FileStep

\* Nothing returns to the log, or leaves the list of what has left it.
LEMMA FadedGrows == [Next]_vars => faded \subseteq faded'
    BY DEF Next, vars, boundVars, historyVars, procVars, otherThanTask, otherThanJob, BeginSync,
       EndSync, AbortSync, ScheduleExtraction, StartExtraction, EndExtraction, ExtractionRaises,
       Confirm, ReplayConfirm, Reject, SweepGrn, Effects, ApplyReceipt, EmitConfirmed, FlushAudit,
       FlushSourcing, Stamp, FlushFails, StampLocked, SapEvent, PushedOut, Snapshot,
       SnapshotBegin, SnapshotRead, SnapshotSourcing, SnapshotAudit, SnapshotFails, SnapshotCut,
       CrashAndRestore, FinishStartup

\* A crash leaves the process what the files hold; what it loses of a stamped GRN
\* with a file that is cut is on the list.
LEMMA RestoredLog ==
    ASSUME Core, [Next]_vars, CrashAndRestore, NEW g \in GrnIds, InStores(g), grn[g].stamped
    PROVE  Logged(mem.audit, g)' /\ \A p \in POs : LandedIn(mem'.po[p], p, g)
<1>1. mem' = [po |-> disk'.po, audit |-> IF "sourcing" \in disk'.cut THEN {} ELSE disk'.audit]
    BY DEF CrashAndRestore, Restored
<1>2. CASE disk'.cut = {}
    BY <1>1, <1>2, FilesStep, FadedGrows DEF Logged
<1>3. CASE disk'.cut # {}
    BY <1>1, <1>3, FilesStep DEF Logged, CrashAndRestore
<1> QED
    BY <1>2, <1>3

LEMMA InStoresStep ==
    ASSUME Core, [Next]_vars, NEW g \in GrnIds, Confirmed(g), InStores(g),
           CrashAndRestore => grn[g].stamped
    PROVE  InStores(g)'
<1>0. /\ \A p \in POs : mem.po[p].got \in [Receipts -> Nat] /\ mem'.po[p].got \in [Receipts -> Nat]
    BY TypeStep DEF Core, TypeOK, Stores, PoTable, PoRecord
<1>1. Logged(mem.audit, g)' /\ \A p \in POs : LandedIn(mem'.po[p], p, g)
  <2>1. CASE CrashAndRestore
      BY <2>1, RestoredLog
  <2>2. CASE ~CrashAndRestore
    <3>1. Logged(mem.audit, g)' /\ \A p \in POs : Grows(mem.po[p], mem'.po[p])
        BY <2>2, MemGrows DEF InStores
    <3>2. ASSUME NEW p \in POs, NEW l \in LineNos, CreditsTo(g, l, p), Known(mem'.po[p])
          PROVE  mem'.po[p].got[<<g, l>>] >= 1
      <4>1. mem.po[p].got[<<g, l>>] >= 1
          BY <3>1, <3>2 DEF InStores, LandedIn, Grows
      <4>2. mem'.po[p].got[<<g, l>>] >= mem.po[p].got[<<g, l>>] /\ <<g, l>> \in Receipts
          BY <3>1 DEF Grows, Receipts
      <4> DEFINE r == <<g, l>>
      <4>3. mem.po[p].got[r] \in Nat /\ mem'.po[p].got[r] \in Nat
          BY <1>0, <4>2
      <4> QED
          BY <4>1, <4>2, <4>3
    <3> QED
        BY <3>1, <3>2 DEF LandedIn
  <2> QED
      BY <2>1, <2>2
<1>2. \A p \in POs : snap'.po[p] # None => LandedIn(snap'.po[p], p, g)
    BY SnapStep DEF InStores
<1>3. /\ Logged(disk.audit, g)' \/ "audit" \in disk'.cut
      /\ \A p \in POs : LandedIn(disk'.po[p], p, g)
    BY FilesStep, FadedGrows DEF Logged
<1>4. ASSUME NEW p \in POs, NEW po, LandedIn(po, p, g)
      PROVE  \A l \in LineNos : CreditsTo(g, l, p)' => po.got[<<g, l>>] >= 1 \/ ~Known(po)
    BY <1>4, CreditsFixed DEF LandedIn
<1> QED
    BY <1>1, <1>2, <1>3, <1>4 DEF InStores, LandedIn

-----------------------------------------------------------------------------
(* The effects in progress get as far as their phase says                    *)

LEMMA SnapReadsStep == Core /\ SnapReads /\ [Next]_vars => SnapReads'
<1> SUFFICES ASSUME Core, SnapReads, [Next]_vars PROVE SnapReads'
    OBVIOUS
<1>0. snap \in Snap
    BY DEF Core, TypeOK
<1>1. CASE ~FileStep
    BY <1>1, OtherSteps DEF SnapReads
<1>2. CASE FlushAudit \/ FlushSourcing \/ FlushFails
    BY <1>2 DEF FlushAudit, FlushSourcing, FlushFails, otherThanJob, SnapReads
<1>3. CASE SnapshotBegin \/ SnapshotSourcing \/ SnapshotAudit \/ SnapshotFails \/ SnapshotCut
           \/ CrashAndRestore
    BY <1>3 DEF SnapshotBegin, SnapshotSourcing, SnapshotAudit, SnapshotFails, SnapshotCut, CrashAndRestore,
       SnapReads, NoSnap
<1>4. ASSUME NEW p \in POs, SnapshotRead(p) PROVE SnapReads'
    BY <1>0, <1>4 DEF SnapshotRead, SnapReads, Snap
<1> QED
    BY <1>1, <1>2, <1>3, <1>4 DEF FileStep

\* What a receipt of the handler's GRN has landed stays landed.
LEMMA LandedStays ==
    ASSUME Core, JobProgress, [Next]_vars, ~CrashAndRestore,
           NEW g \in GrnIds, job # None, job.grn = g,
           NEW l \in LineNos, NEW p \in POs, CreditsTo(g, l, p)', l \notin job.todo
    PROVE  mem'.po[p].got[<<g, l>>] >= 1 \/ ~Known(mem'.po[p])
<1> SUFFICES ASSUME Known(mem'.po[p]) PROVE mem'.po[p].got[<<g, l>>] >= 1
    OBVIOUS
<1>0. mem.po[p].got \in [Receipts -> Nat] /\ mem'.po[p].got \in [Receipts -> Nat]
    BY TypeStep DEF Core, TypeOK, Stores, PoTable, PoRecord
<1>1. Confirmed(g)
    BY DEF Core, JobOwes
<1>2. CreditsTo(g, l, p)
    BY <1>1, CreditsFixed
<1>4. <<g, l>> \in Receipts /\ Grows(mem.po[p], mem'.po[p])
    BY MemGrows DEF Receipts
<1>3. mem.po[p].got[<<g, l>>] >= 1
    BY <1>2, <1>4 DEF JobProgress, Progress, Grows
<1> DEFINE r == <<g, l>>
<1>5. mem.po[p].got[r] \in Nat /\ mem'.po[p].got[r] \in Nat
    BY <1>0, <1>4
<1>6. mem'.po[p].got[r] >= mem.po[p].got[r]
    BY <1>4 DEF Grows
<1> QED
    BY <1>3, <1>5, <1>6

\* The handler is where it was, or one phase on with all its receipts landed.
LEMMA ProgressKept ==
    ASSUME Core, JobProgress, [Next]_vars, ~CrashAndRestore,
           NEW g \in GrnIds, job # None, job.grn = g, job'.todo = job.todo,
           job'.at # "apply" => job.todo = {} /\ Logged(mem.audit, g)',
           job'.at = "sourcing" => /\ Logged(disk.audit, g)' \/ "audit" \in disk'.cut
                                   /\ snap'.at = "idle",
           job'.at = "stamp" /\ g \notin lapsed' => InStores(g)'
    PROVE  Progress(g)'
    BY LandedStays DEF Progress

LEMMA ProgressSame ==
    ASSUME Core, JobProgress, [Next]_vars, ~CrashAndRestore, UNCHANGED <<job, lapsed>>,
           NEW g \in GrnIds, job # None, job.grn = g,
           job.at = "sourcing" => UNCHANGED disk /\ snap'.at = "idle"
    PROVE  Progress(g)'
<1>1. Confirmed(g)
    BY DEF Core, JobOwes
<1>2. Progress(g)
    BY DEF JobProgress
<1>3. Logged(mem.audit, g) => Logged(mem.audit, g)'
    BY MemGrows
<1>5. job.at = "sourcing" => Logged(disk.audit, g)' \/ "audit" \in disk'.cut
    BY <1>2, FadedGrows DEF Progress, Logged
<1>4. job.at = "stamp" /\ g \notin lapsed => InStores(g)'
    BY <1>1, <1>2, InStoresStep DEF Progress
<1> QED
    BY <1>2, <1>3, <1>4, <1>5, ProgressKept DEF Progress

LEMMA ApplyProgress ==
    ASSUME Core, JobProgress, [Next]_vars, ApplyReceipt,
           NEW g \in GrnIds, job' # None, job'.grn = g
    PROVE  Progress(g)'
<1>0. \A p \in POs : mem.po[p].got \in [Receipts -> Nat]
    BY DEF Core, TypeOK, Stores, PoTable, PoRecord
<1>1. job # None /\ job.at = "apply" /\ job \in ConfirmJob
    BY ApplyStep
<1>2. PICK k \in job.todo :
        /\ k \in LineNos
        /\ job' = [job EXCEPT !.todo = @ \ {k}]
        /\ \A p \in POs : Known(mem'.po[p]) => Known(mem.po[p])
        /\ \A p \in POs :
              mem'.po[p].got = IF p = lines[job.grn][k].po /\ Known(mem.po[p])
                               THEN [mem.po[p].got EXCEPT ![<<job.grn, k>>] = @ + 1]
                               ELSE mem.po[p].got
    BY ApplyStep
<1>3. job.grn = g /\ job'.at = "apply" /\ job'.todo = job.todo \ {k}
    BY <1>1, <1>2 DEF ConfirmJob
<1>4. ~CrashAndRestore
    BY DEF CrashAndRestore
<1>5. ASSUME NEW p \in POs, CreditsTo(g, k, p)', Known(mem'.po[p])
      PROVE  mem'.po[p].got[<<g, k>>] >= 1
  <2>1. p = lines[g][k].po
      BY SMTT(60), <1>5 DEF ApplyReceipt, storeVars, CreditsTo
  <2> DEFINE r == <<g, k>>
  <2>2. mem'.po[p].got = [mem.po[p].got EXCEPT ![r] = @ + 1] /\ r \in Receipts
      BY ZenonT(60), <1>2, <1>3, <1>5, <2>1 DEF Receipts
  <2> HIDE DEF r
  <2>3. mem'.po[p].got[r] = mem.po[p].got[r] + 1 /\ mem.po[p].got[r] \in Nat
      BY <1>0, <2>2
  <2> QED
      BY <2>3 DEF r
<1>6. ASSUME NEW l \in LineNos, NEW p \in POs, CreditsTo(g, l, p)', l \notin job'.todo
      PROVE  mem'.po[p].got[<<g, l>>] >= 1 \/ ~Known(mem'.po[p])
    BY <1>1, <1>3, <1>4, <1>5, <1>6, LandedStays
<1> QED
    BY <1>3, <1>6 DEF Progress

LEMMA JobProgressStep ==
    ASSUME Durably, [Next]_vars, NEW g \in GrnIds, job' # None, job'.grn = g
    PROVE  Progress(g)'
<1> USE DEF Durably
<1>0. /\ mem \in Stores /\ disk \in Disk
      /\ job \in ConfirmJob \cup SapJob \cup {None}
      /\ job \in SapJob => job.grn \notin GrnIds
    BY StoreConstants DEF Core, TypeOK, SapJob
<1>1. ASSUME NEW h \in GrnIds, NEW ls, NEW live, job' = EffectsOf(h, ls, live), lines'[h] = ls
      PROVE  Progress(g)'
    BY <1>1 DEF EffectsOf, CreditsTo, Progress
<1>2. ASSUME NEW h \in GrnIds, Confirm(h) PROVE Progress(g)'
    BY <1>1, <1>2 DEF Confirm
<1>3. ASSUME NEW h \in GrnIds, SweepGrn(h) PROVE Progress(g)'
    BY <1>1, <1>3 DEF SweepGrn, storeVars
<1>4. CASE ApplyReceipt
    BY <1>4, ApplyProgress
<1>5. CASE EmitConfirmed
  <2>1. job \in ConfirmJob
      BY <1>0, <1>5 DEF EmitConfirmed, SapJob
  <2>2. /\ job # None /\ job.grn = g /\ job.todo = {} /\ job'.todo = {} /\ job'.at = "audit"
        /\ Logged(mem.audit, g)'
      BY <1>0, <1>5, <2>1 DEF EmitConfirmed, ConfirmJob, Stores, Logged
  <2>3. ~CrashAndRestore
      BY DEF CrashAndRestore
  <2> QED
      BY <2>2, <2>3, ProgressKept
<1>6. CASE FlushAudit
  <2>1. job # None /\ job.at = "audit" /\ snap'.at = "idle" /\ disk'.audit = mem.audit
      BY <1>0, <1>6 DEF FlushAudit, FlushMayStart, otherThanJob, AuditWritten, Disk
  <2>2. job.grn = g /\ job'.todo = job.todo /\ job'.at = "sourcing"
      BY <1>0, <1>6, <2>1 DEF FlushAudit, ConfirmJob, SapJob
  <2>3. Progress(g)
      BY <2>1, <2>2 DEF JobProgress
  <2>4. ~CrashAndRestore /\ UNCHANGED <<mem, faded>>
      BY <1>6 DEF CrashAndRestore, FlushAudit, historyVars
  <2>5. Logged(mem.audit, g)' /\ Logged(disk.audit, g)'
      BY <2>1, <2>3, <2>4 DEF Progress, Logged
  <2> QED
      BY <2>1, <2>2, <2>3, <2>4, <2>5, ProgressKept DEF Progress
<1>7. CASE FlushSourcing
  <2>1. /\ job # None /\ job.at = "sourcing" /\ job.grn # None /\ job' = [job EXCEPT !.at = "stamp"]
        /\ disk' = SourcingWritten(mem.po) /\ UNCHANGED <<mem, snap, grn, lines, faded>>
      BY <1>7 DEF FlushSourcing, AfterFlush, otherThanJob, storeVars, historyVars
  <2>2. job.grn = g /\ job'.todo = job.todo /\ job'.at = "stamp"
      BY <1>0, <2>1 DEF ConfirmJob, SapJob
  <2>3. Progress(g)
      BY <2>1, <2>2 DEF JobProgress
  <2>4. ~CrashAndRestore
      BY DEF CrashAndRestore
  <2>5. /\ job.todo = {} /\ Logged(mem.audit, g) /\ \A p \in POs : snap.po[p] = None
        /\ Logged(disk.audit, g) \/ "audit" \in disk.cut
      BY <2>1, <2>3 DEF Progress, SnapReads
  <2>6. \A p \in POs : LandedIn(mem.po[p], p, g)
      BY <2>3, <2>5 DEF Progress, LandedIn
  <2>7. /\ disk'.po = mem.po /\ disk'.audit = disk.audit
        /\ "audit" \in disk.cut => "audit" \in disk'.cut
      BY <1>0, <2>1 DEF SourcingWritten, Disk
  <2>8. Logged(mem.audit, g)' /\ (Logged(disk.audit, g)' \/ "audit" \in disk'.cut)
      BY <2>1, <2>5, <2>7 DEF Logged
  <2>9. InStores(g)'
      BY <2>1, <2>5, <2>6, <2>7, <2>8 DEF InStores, LandedIn, CreditsTo, Credits, Present
  <2> QED
      BY <2>1, <2>2, <2>4, <2>5, <2>8, <2>9, ProgressKept
<1>8. CASE FlushFails
  <2>1. /\ job # None /\ job.at \in {"audit", "sourcing"} /\ job.grn # None
        /\ job' = [job EXCEPT !.at = "stamp"] /\ job.grn \in lapsed' /\ UNCHANGED <<mem, faded>>
      BY <1>8 DEF FlushFails, AfterFlush
  <2>2. job.grn = g /\ job'.todo = job.todo /\ job'.at = "stamp"
      BY <1>0, <2>1 DEF ConfirmJob, SapJob
  <2>3. Progress(g)
      BY <2>1, <2>2 DEF JobProgress
  <2>4. ~CrashAndRestore
      BY DEF CrashAndRestore
  <2>5. Logged(mem.audit, g)'
      BY <2>1, <2>3 DEF Progress, Logged
  <2> QED
      BY <2>1, <2>2, <2>3, <2>4, <2>5, ProgressKept DEF Progress
<1>9. ASSUME NEW p \in POs, SapEvent(p) PROVE Progress(g)'
    BY <1>9, StoreConstants DEF SapEvent
<1>10. CASE Stamp \/ StampLocked \/ CrashAndRestore
    BY <1>10 DEF Stamp, StampLocked, CrashAndRestore
<1>11. ASSUME UNCHANGED <<job, lapsed>>, ~CrashAndRestore,
              job.at = "sourcing" => UNCHANGED disk /\ snap'.at = "idle"
       PROVE  Progress(g)'
    BY <1>11, ProgressSame
<1>12. ASSUME UNCHANGED <<job, lapsed, disk, snap>> PROVE Progress(g)'
  <2>1. job.at = "sourcing" => snap.at = "idle"
      BY <1>12 DEF JobProgress, Progress
  <2> QED
      BY <1>10, <1>11, <1>12, <2>1
<1>13. CASE BeginSync \/ EndSync \/ AbortSync \/ FinishStartup \/ UNCHANGED vars
    BY <1>12, <1>13 DEF BeginSync, EndSync, AbortSync, FinishStartup, procVars, historyVars, vars
<1>14. ASSUME NEW h \in GrnIds,
              \/ ScheduleExtraction(h) \/ StartExtraction(h) \/ EndExtraction(h)
              \/ ExtractionRaises(h) \/ ReplayConfirm(h) \/ Reject(h)
       PROVE  Progress(g)'
    BY <1>12, <1>14 DEF ScheduleExtraction, StartExtraction, EndExtraction, ExtractionRaises,
       ReplayConfirm, Reject, otherThanTask, procVars, historyVars
<1>15. CASE Snapshot
  <2>1. UNCHANGED <<job, lapsed>>
      BY <1>15 DEF Snapshot, SnapshotBegin, SnapshotRead, SnapshotSourcing, SnapshotAudit,
         SnapshotFails, SnapshotCut, historyVars
  <2>2. job.at = "sourcing" => snap.at = "idle"
      BY <2>1 DEF JobProgress, Progress
  <2>3. job.at # "sourcing"
      BY <1>15, <2>1, <2>2 DEF Snapshot, SnapshotBegin, SnapshotMayStart, SnapshotRead,
         SnapshotSourcing, SnapshotAudit, SnapshotFails, SnapshotCut
  <2> QED
      BY <1>10, <1>11, <2>1, <2>3
<1> QED
    BY <1>2, <1>3, <1>4, <1>5, <1>6, <1>7, <1>8, <1>9, <1>10, <1>13, <1>14, <1>15 DEF Next, Effects
-----------------------------------------------------------------------------
(* What is stamped is durable                                                *)

LEMMA StampedStep == Durably /\ [Next]_vars => StampedInStores'
<1> SUFFICES ASSUME Durably, [Next]_vars, NEW g \in GrnIds, grn'[g].stamped
             PROVE  Confirmed(g)' /\ (g \in lapsed' \/ InStores(g)')
    BY SMTT(60) DEF StampedInStores
<1> USE DEF Durably
<1>1. lapsed \subseteq lapsed'
    BY DEF Next, vars, boundVars, historyVars, procVars, otherThanTask, otherThanJob, BeginSync,
       EndSync, AbortSync, ScheduleExtraction, StartExtraction, EndExtraction, ExtractionRaises,
       Confirm, ReplayConfirm, Reject, SweepGrn, Effects, ApplyReceipt, EmitConfirmed, FlushAudit,
       FlushSourcing, Stamp, FlushFails, StampLocked, SapEvent, Snapshot, SnapshotBegin,
       SnapshotRead, SnapshotSourcing, SnapshotAudit, SnapshotFails, SnapshotCut, CrashAndRestore,
       FinishStartup
<1>2. ASSUME Confirmed(g), g \in lapsed \/ InStores(g), CrashAndRestore => grn[g].stamped
      PROVE  Confirmed(g)' /\ (g \in lapsed' \/ InStores(g)')
    BY <1>1, <1>2, InStoresStep, StepKeeps DEF Kept
<1>3. CASE grn[g].stamped
    BY <1>2, <1>3 DEF StampedInStores
<1>4. CASE ~grn[g].stamped
  <2>0. grn \in [GrnIds -> GrnRow]
      BY DEF Core, TypeOK
  <2>1. CASE BeginSync \/ UNCHANGED <<grn, lastSeq, photos>>
      BY <1>4, <2>1 DEF BeginSync, SyncInsert
  <2>2. CASE EndSync
      BY <1>4, <2>0, <2>2 DEF EndSync, SyncCommit, Core, TypeOK
  <2>3. ASSUME NEW h \in GrnIds, Worked(h) \/ ClosedNow(h) PROVE FALSE
    <3>1. ASSUME NEW row, grn' = [grn EXCEPT ![h] = row], row.stamped = grn[h].stamped
          PROVE  FALSE
        BY <1>4, <2>0, <3>1
    <3>2. \A st, ext : [grn[h] EXCEPT !.st = st, !.ext = ext].stamped = grn[h].stamped
        BY <2>0 DEF GrnRow
    <3>3. \A st, no : ClosedRow(grn[h], st, no).stamped = grn[h].stamped
        BY <2>0 DEF GrnRow, ClosedRow
    <3>4. CASE Worked(h)
      <4>1. PICK st, ext : grn' = [grn EXCEPT ![h] = [grn[h] EXCEPT !.st = st, !.ext = ext]]
          BY <2>0, <3>4 DEF Worked
      <4> QED
          BY <3>1, <3>2, <4>1
    <3>5. CASE ClosedNow(h)
      <4>1. PICK st, no : grn' = [grn EXCEPT ![h] = ClosedRow(grn[h], st, no)]
          BY <2>0, <3>5 DEF ClosedNow
      <4> QED
          BY <3>1, <3>3, <4>1
    <3> QED
        BY <2>3, <3>4, <3>5
  <2>4. ASSUME NEW h \in GrnIds, Stamped(h)
        PROVE  Confirmed(g)' /\ (g \in lapsed' \/ InStores(g)')
    <3>1. g = h
        BY <1>4, <2>0, <2>4 DEF Stamped
    <3>2. job # None /\ job.at = "stamp" /\ job.grn = g /\ Confirmed(g)
        BY <2>4, <3>1 DEF Stamped, Stamp
    <3>3. g \in lapsed \/ InStores(g)
        BY <3>2 DEF JobProgress, Progress
    <3>4. ~CrashAndRestore
        BY <1>4 DEF CrashAndRestore
    <3> QED
        BY <1>2, <3>2, <3>3, <3>4
  <2> QED
      BY <2>1, <2>2, <2>3, <2>4, HeaderStep
<1> QED
    BY <1>3, <1>4

\* What reaches the stores stays in them.
LEMMA DurablyHolds == Spec => []Durably
<1>1. Init => Durably
  <2>1. Init => SnapReads /\ JobProgress
      BY DEF Init, NoSnap, SnapReads, JobProgress
  <2>2. Init => StampedInStores
      BY DEF Init, StoreInit, NoRow, StampedInStores
  <2>3. Init => Core
      BY TypeInit DEF Core, Init, StoreInit, UploadFresh, JobOwes
  <2> QED
      BY <2>1, <2>2, <2>3 DEF Durably
<1>2. Durably /\ [Next]_vars => Durably'
  <2>1. Core /\ [Next]_vars => Core'
      BY TypeStep, UploadFreshStep, JobOwesStep DEF Core
  <2>2. Durably /\ [Next]_vars => JobProgress'
      BY JobProgressStep DEF JobProgress
  <2> QED
      BY <2>1, <2>2, SnapReadsStep, StampedStep DEF Durably
<1> QED
    BY <1>1, <1>2, PTL DEF Spec

(***************************************************************************)
(* Once a confirm carries its stamp, no sweep will redo its effects; by    *)
(* then its audit event and all its receipts are in the state files, and   *)
(* no snapshot, flush, failure or crash takes them out again - unless its  *)
(* own flush failed, a write of the file stopped half way, or newer events *)
(* have pushed the old one out of the log.                                 *)
(***************************************************************************)
THEOREM StampIsSafe == Spec => []StampedIsDurable
<1>1. Durably => StampedIsDurable
    BY SMTT(60) DEF Durably, StampedInStores, InStores, LandedIn, Logged, StampedIsDurable
<1> QED
    BY <1>1, DurablyHolds, PTL
-----------------------------------------------------------------------------
(* A receipt is counted once                                                 *)

\* n, a count of line l of GRN g on PO p, is as CreditedOnce wants it.
Once(n, g, l, p) ==
    n > 0 => Confirmed(g) /\ CreditsTo(g, l, p) /\ (n = 1 \/ g \in torn)

\* It is so in the process, the state files and the snapshot's copy.
CountedOnce ==
    \A g \in GrnIds, l \in LineNos, p \in POs :
        /\ Once(mem.po[p].got[<<g, l>>], g, l, p)
        /\ Once(disk.po[p].got[<<g, l>>], g, l, p)
        /\ snap.po[p] # None => Once(snap.po[p].got[<<g, l>>], g, l, p)

Untouched(g, l) == \A p \in POs : mem.po[p].got[<<g, l>>] = 0

\* The handler has not accumulated yet what it has still to do.
TodoUntouched ==
    \A g \in GrnIds : job # None /\ job.grn = g =>
        \A l \in job.todo : g \in torn \/ Untouched(g, l)

\* Neither has a sweep that is still to come, and it meets no locked database.
SweepUntouched ==
    mode = "sweep" =>
        /\ upload = None
        /\ \A g \in GrnIds : Unstamped(g) /\ g \notin torn /\ (job = None \/ job.grn # g) =>
              \A l \in LineNos : Untouched(g, l)

Counted == Core /\ CountedOnce /\ TodoUntouched /\ SweepUntouched

LEMMA TornGrows == [Next]_vars => torn \subseteq torn'
    BY DEF Next, vars, boundVars, historyVars, procVars, otherThanTask, otherThanJob, BeginSync,
       EndSync, AbortSync, ScheduleExtraction, StartExtraction, EndExtraction, ExtractionRaises,
       Confirm, ReplayConfirm, Reject, SweepGrn, Effects, ApplyReceipt, EmitConfirmed, FlushAudit,
       FlushSourcing, Stamp, FlushFails, StampLocked, SapEvent, Snapshot, SnapshotBegin,
       SnapshotRead, SnapshotSourcing, SnapshotAudit, SnapshotFails, SnapshotCut, CrashAndRestore,
       FinishStartup

\* A count that is in order stays so.
LEMMA OnceStays ==
    ASSUME Core, [Next]_vars, NEW g \in GrnIds, NEW l \in LineNos, NEW p \in POs,
           NEW n, Once(n, g, l, p)
    PROVE  n > 0 => Confirmed(g)' /\ CreditsTo(g, l, p)' /\ (n = 1 \/ g \in torn')
    BY CreditsFixed, TornGrows DEF Once

\* What the files and the snapshot hold, one of the three copies held before,
\* unless the file was cut.
LEMMA CopyStep ==
    ASSUME Core, [Next]_vars
    PROVE  /\ \/ disk'.po = LostTable
              \/ \A p \in POs : \/ disk'.po[p] = disk.po[p] \/ disk'.po[p] = mem.po[p]
                                \/ snap.po[p] # None /\ disk'.po[p] = snap.po[p]
           /\ \A p \in POs : snap'.po[p] \in {None, snap.po[p], mem.po[p]}
           /\ CrashAndRestore => mem'.po = disk'.po
<1>0. disk \in Disk /\ snap \in Snap
    BY DEF Core, TypeOK
<1>1. CrashAndRestore => mem'.po = disk'.po
    BY DEF CrashAndRestore, Restored
<1>2. \A p \in POs : snap'.po[p] \in {None, snap.po[p], mem.po[p]}
    BY SnapStep
<1>3. CASE UNCHANGED disk
    BY <1>1, <1>2, <1>3
<1>4. CASE ~FileStep
    BY <1>3, <1>4, OtherSteps
<1>5. CASE FlushAudit \/ SnapshotAudit
  <2>1. disk'.po = disk.po
      BY <1>0, <1>5 DEF FlushAudit, SnapshotAudit, AuditWritten, Disk
  <2> QED
      BY <1>1, <1>2, <2>1
<1>6. CASE FlushSourcing
  <2>1. disk'.po = mem.po
      BY <1>0, <1>6 DEF FlushSourcing, SourcingWritten, Disk
  <2> QED
      BY <1>1, <1>2, <2>1
<1>7. CASE SnapshotSourcing
  <2>1. disk'.po = snap.po /\ \A p \in POs : snap.po[p] # None
      BY <1>0, <1>7 DEF SnapshotSourcing, SourcingWritten, Disk
  <2> QED
      BY <1>1, <1>2, <2>1
<1>8. CASE FlushFails \/ SnapshotCut \/ CrashAndRestore
  <2>1. disk' = disk \/ \E files : disk' = CutShort(files)
      BY <1>8 DEF FlushFails, SnapshotCut, CrashAndRestore
  <2>2. disk'.po \in {disk.po, LostTable}
      BY <2>1 DEF CutShort
  <2> QED
      BY <1>1, <1>2, <2>2
<1>9. CASE SnapshotBegin \/ SnapshotFails \/ \E q \in POs : SnapshotRead(q)
    BY <1>3, <1>9 DEF SnapshotBegin, SnapshotFails, SnapshotRead
<1> QED
    BY <1>4, <1>5, <1>6, <1>7, <1>8, <1>9 DEF FileStep

\* A turn of the receipt loop counts a line that was not counted, on its PO.
LEMMA ApplyOnce ==
    ASSUME Counted, [Next]_vars, ApplyReceipt,
           NEW g \in GrnIds, NEW l \in LineNos, NEW p \in POs
    PROVE  Once(mem.po[p].got[<<g, l>>], g, l, p)'
<1> DEFINE r == <<g, l>>
<1> USE DEF Counted
<1>0. mem.po[p].got \in [Receipts -> Nat] /\ r \in Receipts /\ mem.po[p].got[r] \in Nat
  <2>1. mem.po[p].got \in [Receipts -> Nat]
      BY DEF Core, TypeOK, Stores, PoTable, PoRecord
  <2>2. r \in Receipts
      BY DEF Receipts
  <2> HIDE DEF r
  <2> QED
      BY <2>1, <2>2
<1>1. PICK k \in job.todo :
        /\ k \in LineNos
        /\ CreditsTo(job.grn, k, lines[job.grn][k].po)
        /\ mem'.po[p].got = IF p = lines[job.grn][k].po /\ Known(mem.po[p])
                            THEN [mem.po[p].got EXCEPT ![<<job.grn, k>>] = @ + 1]
                            ELSE mem.po[p].got
    BY ApplyStep
<1>2. job.grn \in GrnIds /\ job # None
    BY ApplyStep
<1>3. UNCHANGED <<grn, lines, torn>>
    BY DEF ApplyReceipt, storeVars, historyVars
<1>4. CASE mem'.po[p].got[r] = mem.po[p].got[r]
    BY <1>4, OnceStays DEF Once, CountedOnce
<1>5. CASE p = lines[job.grn][k].po /\ job.grn = g /\ k = l /\ Known(mem.po[p])
  <2>1. mem'.po[p].got = [mem.po[p].got EXCEPT ![r] = @ + 1]
      BY ZenonT(60), <1>1, <1>5
  <2> HIDE DEF r
  <2>2. mem'.po[p].got[r] = mem.po[p].got[r] + 1
      BY <1>0, <2>1
  <2>3. g \in torn \/ mem.po[p].got[r] = 0
      BY SMTT(60), <1>2, <1>5 DEF TodoUntouched, Untouched, r
  <2>4. Confirmed(g) /\ CreditsTo(g, l, p)
      BY ZenonT(60), <1>1, <1>2, <1>5 DEF Core, JobOwes
  <2>5. Confirmed(g)' /\ CreditsTo(g, l, p)'
      BY <2>4, CreditsFixed
  <2> QED
      BY SMTT(60), <1>3, <2>2, <2>3, <2>5 DEF Once, r
<1>6. CASE ~(p = lines[job.grn][k].po /\ job.grn = g /\ k = l /\ Known(mem.po[p]))
  <2> DEFINE q == <<job.grn, k>>
  <2>1. \/ mem'.po[p].got = mem.po[p].got
        \/ q # r /\ mem'.po[p].got = [mem.po[p].got EXCEPT ![q] = @ + 1]
      BY <1>1, <1>6
  <2> HIDE DEF q, r
  <2>2. mem'.po[p].got[r] = mem.po[p].got[r]
      BY <1>0, <2>1
  <2> QED
      BY <1>4, <2>2
<1> QED
    BY <1>5, <1>6

LEMMA CountedOnceStep == Counted /\ [Next]_vars => CountedOnce'
<1> SUFFICES ASSUME Counted, [Next]_vars, NEW g \in GrnIds, NEW l \in LineNos, NEW p \in POs
             PROVE  /\ Once(mem.po[p].got[<<g, l>>], g, l, p)'
                    /\ Once(disk.po[p].got[<<g, l>>], g, l, p)'
                    /\ (snap.po[p] # None => Once(snap.po[p].got[<<g, l>>], g, l, p))'
    BY DEF CountedOnce
<1> DEFINE OnceNext(n) == n > 0 => Confirmed(g)' /\ CreditsTo(g, l, p)' /\ (n = 1 \/ g \in torn')
<1>1. /\ OnceNext(mem.po[p].got[<<g, l>>])
      /\ OnceNext(disk.po[p].got[<<g, l>>])
      /\ snap.po[p] # None => OnceNext(snap.po[p].got[<<g, l>>])
    BY OnceStays DEF Counted, CountedOnce
<1>3. OnceNext(disk'.po[p].got[<<g, l>>])
  <2>1. CASE disk'.po = LostTable
    <3>1. disk'.po[p].got[<<g, l>>] = 0
        BY <2>1 DEF LostTable, Receipts
    <3> QED
        BY <3>1
  <2> QED
      BY <1>1, <2>1, CopyStep DEF Counted
<1>2. OnceNext(mem'.po[p].got[<<g, l>>])
  <2>1. CASE CrashAndRestore
      BY <1>3, <2>1, CopyStep DEF Counted
  <2>2. CASE ApplyReceipt
      BY <2>2, ApplyOnce DEF Once
  <2>3. CASE ~CrashAndRestore /\ ~ApplyReceipt
      BY <1>1, <2>3, GotStep DEF Counted, Recounted
  <2> QED
      BY <2>1, <2>2, <2>3
<1>4. snap'.po[p] # None => OnceNext(snap'.po[p].got[<<g, l>>])
    BY <1>1, CopyStep DEF Counted
<1> QED
    BY <1>2, <1>3, <1>4 DEF Once

\* The handler of g is the one there was, with no more to do, or a new one.
LEMMA JobStep ==
    ASSUME Core, [Next]_vars, NEW g \in GrnIds, job' # None, job'.grn = g
    PROVE  \/ job # None /\ job.grn = g /\ job'.todo \subseteq job.todo /\ ~CrashAndRestore
           \/ Confirm(g) \/ SweepGrn(g)
<1>0. job \in ConfirmJob \cup SapJob \cup {None} /\ (job \in SapJob => job.grn \notin GrnIds)
    BY StoreConstants DEF Core, TypeOK, SapJob
<1>1. ~CrashAndRestore
    BY DEF CrashAndRestore
<1>2. CASE UNCHANGED job
    BY <1>1, <1>2
<1>3. CASE ApplyReceipt
  <2>1. PICK k \in job.todo : job' = [job EXCEPT !.todo = @ \ {k}]
      BY <1>3, ApplyStep
  <2>2. job \in ConfirmJob /\ job # None
      BY <1>3, ApplyStep
  <2> QED
      BY <1>1, <2>1, <2>2 DEF ConfirmJob
<1>4. CASE EmitConfirmed \/ FlushAudit \/ FlushSourcing \/ FlushFails
  <2>1. job # None /\ job' = [job EXCEPT !.at = job'.at]
      BY <1>0, <1>4 DEF EmitConfirmed, FlushAudit, FlushSourcing, FlushFails, AfterFlush,
         ConfirmJob, SapJob
  <2> QED
      BY <1>0, <1>1, <2>1 DEF ConfirmJob, SapJob
<1>5. ASSUME NEW h \in GrnIds, Confirm(h) \/ SweepGrn(h)
      PROVE  h = g
    BY <1>5 DEF Confirm, SweepGrn, EffectsOf
<1>6. ASSUME NEW p \in POs, SapEvent(p) PROVE FALSE
    BY <1>6, StoreConstants DEF SapEvent
<1>7. CASE Stamp \/ StampLocked
    BY <1>7 DEF Stamp, StampLocked
<1>8. CASE BeginSync \/ EndSync \/ AbortSync \/ FinishStartup \/ Snapshot \/ UNCHANGED vars
    BY <1>2, <1>8 DEF BeginSync, EndSync, AbortSync, FinishStartup, Snapshot, SnapshotBegin,
       SnapshotRead, SnapshotSourcing, SnapshotAudit, SnapshotFails, SnapshotCut, procVars, vars
<1>9. ASSUME NEW h \in GrnIds,
             \/ ScheduleExtraction(h) \/ StartExtraction(h) \/ EndExtraction(h)
             \/ ExtractionRaises(h) \/ ReplayConfirm(h) \/ Reject(h)
      PROVE  UNCHANGED job
    BY <1>9 DEF ScheduleExtraction, StartExtraction, EndExtraction, ExtractionRaises,
       ReplayConfirm, Reject, otherThanTask, procVars
<1> QED
    BY <1>1, <1>2, <1>3, <1>4, <1>5, <1>6, <1>7, <1>8, <1>9 DEF Next, Effects

\* A line the handler does not turn to keeps its counts.
LEMMA UntouchedStays ==
    ASSUME Core, [Next]_vars, ~CrashAndRestore, NEW g \in GrnIds, NEW l \in LineNos,
           Untouched(g, l), ApplyReceipt => job.grn # g \/ l \notin job.todo \/ l \in job'.todo
    PROVE  Untouched(g, l)'
<1>1. CASE ~ApplyReceipt
    BY <1>1, GotStep DEF Untouched, Recounted
<1>2. CASE ApplyReceipt
  <2>1. PICK k \in job.todo :
          /\ job' = [job EXCEPT !.todo = @ \ {k}]
          /\ \A p \in POs : \/ mem'.po[p].got = mem.po[p].got
                            \/ mem'.po[p].got = [mem.po[p].got EXCEPT ![<<job.grn, k>>] = @ + 1]
      BY <1>2, ApplyStep
  <2>2. <<job.grn, k>> # <<g, l>>
    <3>1. job \in ConfirmJob /\ job.grn \in GrnIds
        BY <1>2, ApplyStep
    <3>2. job'.todo = job.todo \ {k}
        BY <2>1, <3>1 DEF ConfirmJob
    <3> QED
        BY <1>2, <2>1, <3>2
  <2> DEFINE r == <<g, l>>
             q == <<job.grn, k>>
  <2>3. \A p \in POs : mem.po[p].got \in [Receipts -> Nat]
      BY DEF Core, TypeOK, Stores, PoTable, PoRecord
  <2>4. r \in Receipts /\ q # r
      BY <2>2 DEF Receipts
  <2>5. \A p \in POs : \/ mem'.po[p].got = mem.po[p].got
                       \/ mem'.po[p].got = [mem.po[p].got EXCEPT ![q] = @ + 1]
      BY <2>1
  <2>6. \A p \in POs : mem.po[p].got[r] = 0
      BY DEF Untouched
  <2> HIDE DEF q, r
  <2>7. \A p \in POs : mem'.po[p].got[r] = 0
      BY <2>3, <2>4, <2>5, <2>6
  <2> QED
      BY <2>7 DEF Untouched, r
<1> QED
    BY <1>1, <1>2

LEMMA TodoUntouchedStep == Counted /\ [Next]_vars => TodoUntouched'
<1> SUFFICES ASSUME Counted, [Next]_vars, NEW g \in GrnIds, job' # None, job'.grn = g,
                    NEW l \in job'.todo
             PROVE  g \in torn' \/ Untouched(g, l)'
    BY DEF TodoUntouched
<1> USE DEF Counted
<1>0. \A p \in POs : mem.po[p].got \in [Receipts -> Nat]
    BY DEF Core, TypeOK, Stores, PoTable, PoRecord
<1>1. CASE job # None /\ job.grn = g /\ job'.todo \subseteq job.todo /\ ~CrashAndRestore
  <2>1. l \in LineNos
      BY <1>1 DEF Core, TypeOK, ConfirmJob, SapJob
  <2>2. g \in torn \/ Untouched(g, l)
      BY <1>1 DEF TodoUntouched
  <2> QED
      BY <1>1, <2>1, <2>2, UntouchedStays, TornGrows
<1>2. CASE Confirm(g)
  <2>1. ~Confirmed(g) /\ mem' = mem
      BY <1>2 DEF Confirm, ConfirmTransaction, Awaiting, Banded, Confirmed
  <2>2. l \in LineNos
      BY <1>2 DEF Confirm, EffectsOf, Credits, Present
  <2>3. ASSUME NEW p \in POs PROVE mem.po[p].got[<<g, l>>] = 0
    <3> DEFINE r == <<g, l>>
    <3>1. r \in Receipts /\ ~(mem.po[p].got[r] > 0)
        BY <2>1, <2>2 DEF Receipts, CountedOnce, Once
    <3> HIDE DEF r
    <3>2. mem.po[p].got[r] = 0
        BY <1>0, <3>1
    <3> QED
        BY <3>2 DEF r
  <2> QED
      BY <2>1, <2>3 DEF Untouched
<1>3. CASE SweepGrn(g)
  <2>1. mem' = mem /\ l \in LineNos
      BY <1>3 DEF SweepGrn, EffectsOf, Credits, Present
  <2>2. g \in torn \/ Untouched(g, l)
      BY <1>3, <2>1 DEF SweepGrn, NeedsSweep, SweepUntouched
  <2> QED
      BY <2>1, <2>2, TornGrows DEF Untouched
<1> QED
    BY <1>1, <1>2, <1>3, JobStep

\* A step of the sweep: the lock stays free, and a GRN it leaves unstamped and
\* not in the handler's hands was so before.
LEMMA SweepStep ==
    ASSUME Core, [Next]_vars, mode = "sweep", mode' = "sweep", upload = None, ~CrashAndRestore
    PROVE  /\ upload' = None
           /\ \A g \in GrnIds : Unstamped(g)' /\ (job' = None \/ job'.grn # g) =>
                 Unstamped(g) /\ (job = None \/ job.grn # g)
<1>0. /\ grn \in [GrnIds -> GrnRow]
      /\ job \in ConfirmJob \cup SapJob \cup {None} /\ None \notin GrnIds
    BY StoreConstants DEF Core, TypeOK
<1> DEFINE Goal == /\ upload' = None
                   /\ \A g \in GrnIds : Unstamped(g)' /\ (job' = None \/ job'.grn # g) =>
                         Unstamped(g) /\ (job = None \/ job.grn # g)
<1>1. CASE Stamp
  <2> DEFINE h == job.grn
             row == [grn[h] EXCEPT !.stamped = TRUE]
  <2>1. h \in GrnIds /\ grn' = [grn EXCEPT ![h] = row] /\ upload' = upload
      BY <1>0, <1>1 DEF Stamp, StampTransaction, ConfirmJob, SapJob
  <2>2. row.stamped
      BY <1>0, <2>1 DEF GrnRow
  <2> HIDE DEF h, row
  <2>3. grn'[h] = row /\ \A g \in GrnIds \ {h} : grn'[g] = grn[g]
      BY <1>0, <2>1
  <2>4. ASSUME NEW g \in GrnIds, Unstamped(g)' PROVE g # h /\ Unstamped(g)
      BY <2>2, <2>3, <2>4 DEF Unstamped, Confirmed
  <2> QED
      BY <2>1, <2>4 DEF h
<1>2. ASSUME UNCHANGED <<grn, upload, job>> PROVE Goal
    BY <1>2 DEF Unstamped, Confirmed
<1>3. ASSUME UNCHANGED <<grn, upload>>,
             \/ job = None
             \/ job' # None /\ job'.grn = job.grn
             \/ job.grn = None
      PROVE  Goal
    BY <1>0, <1>3 DEF Unstamped, Confirmed
<1>4. CASE ApplyReceipt \/ EmitConfirmed \/ FlushAudit \/ FlushSourcing \/ FlushFails
  <2>1. UNCHANGED <<grn, upload>>
      BY <1>4 DEF ApplyReceipt, EmitConfirmed, FlushAudit, FlushSourcing, FlushFails, storeVars
  <2>2. /\ job # None
        /\ \/ job.grn = None
           \/ \E at \in {"audit", "sourcing", "stamp"} : job' = [job EXCEPT !.at = at]
           \/ \E l : job' = [job EXCEPT !.todo = @ \ {l}]
      BY <1>4 DEF ApplyReceipt, EmitConfirmed, FlushAudit, FlushSourcing, FlushFails, AfterFlush
  <2>3. job.grn = None \/ (job' # None /\ job'.grn = job.grn)
    <3>1. job \in ConfirmJob \/ job.grn = None
        BY <1>0, <2>2 DEF SapJob
    <3>2. ASSUME job \in ConfirmJob, NEW at \in {"audit", "sourcing", "stamp"}
          PROVE  [job EXCEPT !.at = at] \in ConfirmJob /\ [job EXCEPT !.at = at].grn = job.grn
        BY <3>2 DEF ConfirmJob
    <3>3. ASSUME job \in ConfirmJob, NEW l
          PROVE  /\ [job EXCEPT !.todo = @ \ {l}] \in ConfirmJob
                 /\ [job EXCEPT !.todo = @ \ {l}].grn = job.grn
        BY <3>3 DEF ConfirmJob
    <3> QED
        BY ZenonT(60), <2>2, <3>1, <3>2, <3>3, NoneIsNoJob
  <2> QED
      BY <1>3, <2>1, <2>3
<1>5. ASSUME NEW h \in GrnIds, SweepGrn(h) PROVE Goal
    BY <1>3, <1>5 DEF SweepGrn, storeVars
<1>6. CASE Snapshot \/ UNCHANGED vars
    BY <1>2, <1>6 DEF Snapshot, SnapshotBegin, SnapshotRead, SnapshotSourcing, SnapshotAudit,
       SnapshotFails, SnapshotCut, storeVars, procVars, vars
<1>7. ~(BeginSync \/ EndSync \/ AbortSync \/ StampLocked \/ FinishStartup)
    BY DEF BeginSync, EndSync, AbortSync, SyncCommit, SyncRollback, StampLocked, FinishStartup
<1>8. ASSUME NEW h \in GrnIds PROVE
        ~(\/ ScheduleExtraction(h) \/ StartExtraction(h) \/ EndExtraction(h)
          \/ ExtractionRaises(h) \/ Confirm(h) \/ ReplayConfirm(h) \/ Reject(h))
    BY DEF ScheduleExtraction, StartExtraction, EndExtraction, ExtractionRaises, Confirm,
       ReplayConfirm, Reject, LoopFree
<1>9. ~(\E p \in POs : SapEvent(p))
    BY DEF SapEvent, LoopFree
<1> QED
    BY <1>1, <1>4, <1>5, <1>6, <1>7, <1>8, <1>9 DEF Next, Effects

LEMMA SweepUntouchedStep == Counted /\ [Next]_vars => SweepUntouched'
<1> SUFFICES ASSUME Counted, [Next]_vars, mode' = "sweep"
             PROVE  /\ upload' = None
                    /\ \A g \in GrnIds :
                          Unstamped(g)' /\ g \notin torn' /\ (job' = None \/ job'.grn # g) =>
                              \A l \in LineNos : Untouched(g, l)'
    BY DEF SweepUntouched
<1> USE DEF Counted
<1>1. CASE CrashAndRestore
  <2> SUFFICES ASSUME NEW g \in GrnIds, Unstamped(g)', g \notin torn',
                      NEW l \in LineNos, NEW p \in POs
               PROVE  mem'.po[p].got[<<g, l>>] = 0
      BY <1>1 DEF CrashAndRestore, Untouched
  <2>5. mem'.po = disk'.po /\ disk'.po \in {disk.po, LostTable}
      BY <1>1 DEF CrashAndRestore, Restored, CutShort
  <2>6. LostTable[p].got[<<g, l>>] = 0
      BY DEF LostTable, Receipts
  <2> DEFINE r == <<g, l>>
  <2>1. ~Durable(g)
      BY <1>1 DEF CrashAndRestore, Unstamped, Confirmed
  <2>2. ~(disk.po[p].got[r] > 0)
      BY <2>1 DEF CountedOnce, Once, Durable
  <2>3. disk.po[p].got \in [Receipts -> Nat] /\ r \in Receipts
      BY DEF Core, TypeOK, Disk, PoTable, PoRecord, Receipts
  <2> HIDE DEF r
  <2>4. disk.po[p].got[r] = 0
      BY <2>2, <2>3
  <2> QED
      BY <2>4, <2>5, <2>6 DEF r
<1>2. CASE ~CrashAndRestore
  <2>1. mode = "sweep"
      BY <1>2 DEF Next, vars, procVars, boundVars, historyVars, otherThanTask, otherThanJob,
         BeginSync, EndSync, AbortSync, ScheduleExtraction, StartExtraction, EndExtraction,
         ExtractionRaises, Confirm, ReplayConfirm, Reject, SweepGrn, Effects, ApplyReceipt,
         EmitConfirmed, FlushAudit, FlushSourcing, Stamp, FlushFails, StampLocked, SapEvent,
         Snapshot, SnapshotBegin, SnapshotRead, SnapshotSourcing, SnapshotAudit, SnapshotFails, SnapshotCut,
         FinishStartup
  <2>2. upload' = None
      BY <1>2, <2>1, SweepStep DEF SweepUntouched
  <2> SUFFICES ASSUME NEW g \in GrnIds, Unstamped(g)', g \notin torn',
                      job' = None \/ job'.grn # g, NEW l \in LineNos
               PROVE  Untouched(g, l)'
      BY <2>2
  <2>3. Unstamped(g) /\ (job = None \/ job.grn # g)
      BY <1>2, <2>1, SweepStep DEF SweepUntouched
  <2>4. Untouched(g, l)
      BY <2>1, <2>3, TornGrows DEF SweepUntouched
  <2>5. ApplyReceipt => job.grn # g
      BY <2>3 DEF ApplyReceipt
  <2> QED
      BY <1>2, <2>4, <2>5, UntouchedStays
<1> QED
    BY <1>1, <1>2

\* The counts of the three copies are in order in every reachable state.
LEMMA CountedHolds == Spec => []Counted
<1>1. Init => Counted
  <2> SUFFICES ASSUME Init PROVE Counted
      OBVIOUS
  <2>1. Core
      BY TypeInit DEF Core, Init, StoreInit, UploadFresh, JobOwes
  <2>2. ASSUME NEW g \in GrnIds, NEW l \in LineNos, NEW p \in POs
        PROVE  /\ mem.po[p].got[<<g, l>>] = 0 /\ disk.po[p].got[<<g, l>>] = 0
               /\ snap.po[p] = None
      BY DEF Init, FreshTable, NoSnap, Receipts
  <2>3. ASSUME NEW n, NEW g, NEW l, NEW p, n = 0 PROVE Once(n, g, l, p)
      BY <2>3 DEF Once
  <2>4. CountedOnce
      BY <2>2, <2>3 DEF CountedOnce
  <2> QED
      BY <2>1, <2>4 DEF Init, Counted, TodoUntouched, SweepUntouched
<1>2. Counted /\ [Next]_vars => Counted'
  <2>1. Core /\ [Next]_vars => Core'
      BY TypeStep, UploadFreshStep, JobOwesStep DEF Core
  <2> QED
      BY <2>1, CountedOnceStep, TodoUntouchedStep, SweepUntouchedStep DEF Counted
<1> QED
    BY <1>1, <1>2, PTL DEF Spec

(***************************************************************************)
(* A purchase order accumulates a receipt only from the confirmed line     *)
(* that names it, and once, unless a crash found that GRN in sourcing.json *)
(* but not stamped: for any number of devices, GRNs, purchase orders,      *)
(* crashes, failed flushes and interleaved snapshots.                      *)
(***************************************************************************)
THEOREM CountsOnce == Spec => []CreditedOnce
<1>1. Counted => CreditedOnce
    BY DEF Counted, CountedOnce, Once, CreditedOnce
<1> QED
    BY <1>1, CountedHolds, PTL

-----------------------------------------------------------------------------
(* The invariant the mapping rests on                                        *)

\* A flush between its two files holds the lock, so no snapshot is writing.
LockOne == job # None /\ job.at = "sourcing" => snap.at = "idle"

\* Whatever will be written next counts no receipt less often than the file.
DiskBelow ==
    \A p \in POs, r \in Receipts :
        /\ disk.po[p].got[r] <= mem.po[p].got[r]
        /\ snap.po[p] # None => /\ disk.po[p].got[r] <= snap.po[p].got[r]
                                /\ snap.po[p].got[r] <= mem.po[p].got[r]

\* The ledger holds nothing of a GRN that is not confirmed.
Unposted == \A g \in GrnIds, l \in LineNos : ~Confirmed(g) => ledger[g][l] = 0

Mirrored == Counted /\ SnapReads /\ LockOne /\ DiskBelow /\ Unposted

LEMMA LockOneStep == Core /\ LockOne /\ [Next]_vars => LockOne'
<1> SUFFICES ASSUME Core, LockOne, [Next]_vars, job' # None, job'.at = "sourcing"
             PROVE  snap'.at = "idle"
    BY DEF LockOne
<1>0. job \in ConfirmJob \cup SapJob \cup {None} /\ snap \in Snap
    BY DEF Core, TypeOK
<1>1. CASE FlushAudit
    BY <1>1 DEF FlushAudit, FlushMayStart, otherThanJob
<1>2. CASE UNCHANGED <<job, snap>>
    BY <1>2 DEF LockOne
<1>3. CASE Snapshot
  <2>1. snap.at = "idle" /\ UNCHANGED job
      BY <1>3 DEF LockOne, Snapshot, SnapshotBegin, SnapshotRead, SnapshotSourcing,
         SnapshotAudit, SnapshotFails, SnapshotCut
  <2> QED
      BY <1>3, <2>1 DEF Snapshot, SnapshotBegin, SnapshotMayStart, SnapshotRead, SnapshotSourcing,
         SnapshotAudit, SnapshotFails, SnapshotCut
<1>4. CASE ApplyReceipt
  <2>1. job \in ConfirmJob /\ job.at = "apply"
      BY <1>4, ApplyStep
  <2>2. \E l \in job.todo : job' = [job EXCEPT !.todo = @ \ {l}]
      BY <1>4, ApplyStep
  <2>3. job'.at = "apply"
      BY <2>1, <2>2 DEF ConfirmJob
  <2> QED
      BY <2>3
<1>5. CASE EmitConfirmed
  <2>1. job'.at = "audit"
      BY <1>0, <1>5 DEF EmitConfirmed, ConfirmJob, SapJob
  <2> QED
      BY <2>1
<1>6. CASE FlushSourcing \/ FlushFails
  <2>1. job # None /\ job' = AfterFlush
      BY <1>6 DEF FlushSourcing, FlushFails
  <2>2. job'.at = "stamp"
      BY <1>0, <2>1 DEF AfterFlush, ConfirmJob, SapJob
  <2> QED
      BY <2>2
<1>7. CASE Stamp \/ StampLocked \/ CrashAndRestore
    BY <1>7 DEF Stamp, StampLocked, CrashAndRestore
<1>8. ASSUME NEW g \in GrnIds, Confirm(g) \/ SweepGrn(g) PROVE FALSE
    BY <1>8 DEF Confirm, SweepGrn, EffectsOf
<1>9. ASSUME NEW p \in POs, SapEvent(p) PROVE FALSE
    BY <1>9 DEF SapEvent
<1>10. CASE BeginSync \/ EndSync \/ AbortSync \/ FinishStartup \/ UNCHANGED vars
    BY <1>2, <1>10 DEF BeginSync, EndSync, AbortSync, FinishStartup, procVars, vars
<1>11. ASSUME NEW g \in GrnIds,
              \/ ScheduleExtraction(g) \/ StartExtraction(g) \/ EndExtraction(g)
              \/ ExtractionRaises(g) \/ ReplayConfirm(g) \/ Reject(g)
       PROVE  UNCHANGED <<job, snap>>
    BY <1>11 DEF ScheduleExtraction, StartExtraction, EndExtraction, ExtractionRaises,
       ReplayConfirm, Reject, otherThanTask, procVars
<1> QED
    BY <1>1, <1>2, <1>3, <1>4, <1>5, <1>6, <1>7, <1>8, <1>9, <1>10, <1>11 DEF Next, Effects

\* The copies step together: none falls behind the file.
LEMMA DiskBelowStep == Core /\ SnapReads /\ LockOne /\ DiskBelow /\ [Next]_vars => DiskBelow'
<1> SUFFICES ASSUME Core, SnapReads, LockOne, DiskBelow, [Next]_vars,
                    NEW p \in POs, NEW r \in Receipts
             PROVE  /\ disk'.po[p].got[r] <= mem'.po[p].got[r]
                    /\ snap'.po[p] # None => /\ disk'.po[p].got[r] <= snap'.po[p].got[r]
                                             /\ snap'.po[p].got[r] <= mem'.po[p].got[r]
    BY DEF DiskBelow
<1>0. disk \in Disk /\ mem \in Stores /\ snap \in Snap /\ mem' \in Stores /\ disk' \in Disk
    BY TypeStep DEF Core, TypeOK
<1>1. /\ disk.po[p].got[r] \in Nat /\ mem.po[p].got[r] \in Nat /\ mem'.po[p].got[r] \in Nat
      /\ snap.po[p] # None => snap.po[p].got[r] \in Nat
    BY <1>0 DEF Stores, Disk, PoTable, PoRecord, Snap
<1>2. /\ disk.po[p].got[r] <= mem.po[p].got[r]
      /\ snap.po[p] # None => /\ disk.po[p].got[r] <= snap.po[p].got[r]
                              /\ snap.po[p].got[r] <= mem.po[p].got[r]
    BY DEF DiskBelow
<1>3. CASE CrashAndRestore
  <2>1. mem'.po = disk'.po /\ snap'.po[p] = None
      BY <1>3 DEF CrashAndRestore, Restored, NoSnap
  <2> QED
      BY <1>1, <2>1
<1>4. ASSUME ~CrashAndRestore PROVE mem'.po[p].got[r] >= mem.po[p].got[r]
    BY <1>4, MemGrows DEF Grows
<1>5. CASE ~FileStep
    BY <1>1, <1>2, <1>4, <1>5, OtherSteps DEF FileStep
<1>6. CASE FlushAudit
    BY <1>0, <1>2, <1>6 DEF FlushAudit, otherThanJob, AuditWritten, Disk
<1>7. CASE FlushSourcing
  <2>1. snap'.po[p] = None /\ disk'.po = mem.po /\ mem' = mem
      BY <1>0, <1>7 DEF FlushSourcing, otherThanJob, LockOne, SnapReads, SourcingWritten, Disk
  <2> QED
      BY <1>1, <2>1
<1>8. CASE SnapshotBegin \/ SnapshotFails
    BY <1>2, <1>8 DEF SnapshotBegin, SnapshotFails, SnapshotCut, NoSnap
<1>9. ASSUME NEW q \in POs, SnapshotRead(q)
      PROVE  /\ UNCHANGED <<mem, disk>>
             /\ snap'.po[p] \in {snap.po[p], mem.po[p]}
    BY <1>0, <1>9 DEF SnapshotRead, Snap
<1>10. CASE \E q \in POs : SnapshotRead(q)
    BY <1>1, <1>2, <1>9, <1>10
<1>11. CASE SnapshotSourcing
  <2>1. snap'.po[p] = None /\ disk'.po = snap.po /\ mem' = mem /\ snap.po[p] # None
      BY <1>0, <1>11 DEF SnapshotSourcing, NoSnap, SourcingWritten, Disk
  <2> QED
      BY <1>2, <2>1
<1>12. CASE SnapshotAudit
    BY <1>0, <1>2, <1>12 DEF SnapshotAudit, NoSnap, AuditWritten, Disk
<1>13. CASE FlushFails \/ SnapshotCut
  <2>1. mem' = mem /\ snap'.po[p] \in {None, snap.po[p]}
      BY <1>13 DEF FlushFails, SnapshotCut, NoSnap
  <2>2. disk' = disk \/ \E files : disk' = CutShort(files)
      BY <1>13 DEF FlushFails, SnapshotCut
  <2>3. disk'.po \in {disk.po, LostTable} /\ LostTable[p].got[r] = 0
      BY <2>2 DEF CutShort, LostTable
  <2> QED
      BY <1>1, <1>2, <2>1, <2>3
<1> QED
    BY ZenonT(60), <1>3, <1>5, <1>6, <1>7, <1>8, <1>10, <1>11, <1>12, <1>13 DEF FileStep

\* Only a confirm enters quantities into the ledger.
LEMMA LedgerStep ==
    ASSUME [Next]_vars
    PROVE  UNCHANGED ledger \/ \E g \in GrnIds : Confirm(g)
<1>1. ASSUME \/ BeginSync \/ EndSync \/ AbortSync \/ FlushFails \/ StampLocked \/ Snapshot
             \/ CrashAndRestore \/ FinishStartup \/ Effects \/ UNCHANGED vars
      PROVE  UNCHANGED ledger
    BY <1>1 DEF BeginSync, SyncInsert, EndSync, SyncCommit, AbortSync, SyncRollback, FlushFails,
       StampLocked, Snapshot, SnapshotBegin, SnapshotRead, SnapshotSourcing, SnapshotAudit,
       SnapshotFails, SnapshotCut, CrashAndRestore, FinishStartup, Effects, ApplyReceipt, EmitConfirmed,
       FlushAudit, FlushSourcing, Stamp, StampTransaction, storeVars, vars
<1>2. ASSUME NEW g \in GrnIds,
             \/ ScheduleExtraction(g) \/ StartExtraction(g) \/ EndExtraction(g)
             \/ ExtractionRaises(g) \/ ReplayConfirm(g) \/ Reject(g) \/ SweepGrn(g)
      PROVE  UNCHANGED ledger
    BY <1>2 DEF ScheduleExtraction, StartExtraction, EndExtraction, ExtractionRaises,
       BandTransaction, MarkRunning, FailTransaction, ReplayConfirm, Reject, RejectTransaction,
       SweepGrn, storeVars
<1>3. ASSUME NEW p \in POs, SapEvent(p) PROVE UNCHANGED ledger
    BY <1>3 DEF SapEvent, storeVars
<1> QED
    BY SMTT(60), <1>1, <1>2, <1>3 DEF Next

LEMMA UnpostedStep == Core /\ Unposted /\ [Next]_vars => Unposted'
<1> SUFFICES ASSUME Core, Unposted, [Next]_vars,
                    NEW g \in GrnIds, NEW l \in LineNos, ~Confirmed(g)'
             PROVE  ledger'[g][l] = 0
    BY DEF Unposted
<1>1. ledger[g][l] = 0
    BY StepKeeps DEF Kept, Unposted
<1>2. ASSUME NEW h \in GrnIds, Confirm(h) PROVE ledger'[g][l] = ledger[g][l]
  <2>1. PICK n : grn' = [grn EXCEPT ![h] = ClosedRow(@, "confirmed", n)]
      BY <1>2 DEF Confirm, ConfirmTransaction
  <2>2. grn \in [GrnIds -> GrnRow] /\ ledger \in [GrnIds -> [LineNos -> Nat]]
      BY DEF Core, TypeOK
  <2>3. ClosedRow(grn[h], "confirmed", n).st = "confirmed"
      BY <2>2 DEF ClosedRow, GrnRow
  <2>4. g # h
      BY <2>1, <2>2, <2>3 DEF Confirmed
  <2> QED
      BY <1>2, <2>2, <2>4 DEF Confirm, ConfirmTransaction
<1> QED
    BY <1>1, <1>2, LedgerStep

LEMMA MirroredHolds == Spec => []Mirrored
<1>1. Init => SnapReads /\ LockOne /\ DiskBelow /\ Unposted
    BY DEF Init, StoreInit, SnapReads, LockOne, DiskBelow, Unposted, NoSnap, FreshTable
<1>2. Counted /\ SnapReads /\ LockOne /\ DiskBelow /\ Unposted /\ [Next]_vars
          => SnapReads' /\ LockOne' /\ DiskBelow' /\ Unposted'
    BY SnapReadsStep, LockOneStep, DiskBelowStep, UnpostedStep DEF Counted
<1> QED
    BY <1>1, <1>2, CountedHolds, PTL DEF Spec, Mirrored

-----------------------------------------------------------------------------
(* The steps of the book                                                     *)

\* While every GRN stays as confirmed as it was, the posted entries stay.
LEMMA EntriesStay ==
    ASSUME Core, [Next]_vars, \A g \in GrnIds : Confirmed(g)' = Confirmed(g)
    PROVE  UNCHANGED BookEntry
    BY StepKeeps DEF Kept, BookEntry

\* A step that leaves the headers and the ledger alone.
LEMMA NothingPosted ==
    ASSUME Core, [Next]_vars, UNCHANGED <<grn, ledger>>
    PROVE  UNCHANGED <<BookPage, BookEntry, ledger>>
    BY EntriesStay DEF BookPage, Confirmed

\* A step that leaves the state files alone.
LEMMA NothingCredited ==
    ASSUME ~FileStep, [Next]_vars
    PROVE  UNCHANGED BookCredit
    BY OtherSteps DEF BookCredit

\* A commit opens a page.
LEMMA CaptureStep ==
    ASSUME Mirrored, [Next]_vars, EndSync
    PROVE  Book!Next
<1> DEFINE h == upload.grn
<1>1. /\ h \in GrnIds /\ ~Stored(h)
      /\ \E st \in {"captured"} \cup Banded : grn'[h].st = st
      /\ \A g \in GrnIds \ {h} : grn'[g] = grn[g]
  <2>1. h \in GrnIds /\ ~Stored(h) /\ grn \in [GrnIds -> GrnRow]
      BY CommittedRow DEF Mirrored, Counted, Core, TypeOK, Upload
  <2>2. PICK st \in {"captured"} \cup Banded, ext \in ExtractionStatuses :
          grn' = [grn EXCEPT ![h] = [st |-> st, ext |-> ext, dev |-> upload.dev,
                                     seq |-> upload.seq, photo |-> upload.photo,
                                     no |-> 0, stamped |-> FALSE]]
      BY CommittedRow DEF Mirrored, Counted
  <2> QED
      BY <2>1, <2>2
<1>2. UNCHANGED <<ledger, BookCredit>>
    BY DEF EndSync, SyncCommit, BookCredit
<1> HIDE DEF h
<1>3. \A g \in GrnIds : Confirmed(g)' = Confirmed(g)
    BY <1>1 DEF Confirmed, Stored, Banded
<1>4. UNCHANGED BookEntry
    BY <1>3, EntriesStay DEF Mirrored, Counted
<1>5. BookPage[h] = "none" /\ BookPage' = [BookPage EXCEPT ![h] = "open"]
    BY <1>1 DEF BookPage, Stored, Banded
<1> QED
    BY <1>1, <1>2, <1>4, <1>5 DEF Book!Next, Book!Capture

\* A confirm posts the lines it leaves and their quantities.
LEMMA PostStep ==
    ASSUME Mirrored, [Next]_vars, NEW h \in GrnIds, Confirm(h)
    PROVE  Book!Next
<1> USE DEF Mirrored, Counted
<1>0. /\ grn \in [GrnIds -> GrnRow] /\ lines' \in [GrnIds -> LineTable]
      /\ ledger \in [GrnIds -> [LineNos -> Nat]] /\ lines \in [GrnIds -> LineTable]
    BY TypeStep DEF Core, TypeOK
<1>1. PICK n : grn' = [grn EXCEPT ![h] = ClosedRow(@, "confirmed", n)]
    BY DEF Confirm, ConfirmTransaction
<1>2. /\ Awaiting(h) /\ grn'[h].st = "confirmed"
      /\ \A g \in GrnIds \ {h} : grn'[g] = grn[g] /\ lines'[g] = lines[g]
    BY <1>0, <1>1 DEF Confirm, ConfirmTransaction, ClosedRow, GrnRow
<1>3. BookPage[h] = "open" /\ BookPage' = [BookPage EXCEPT ![h] = "posted"]
    BY <1>2 DEF BookPage, Awaiting, Banded
<1>4. BookEntry'[h] = lines'[h] /\ BookEntry' = [BookEntry EXCEPT ![h] = BookEntry'[h]]
    BY <1>2 DEF BookEntry, Confirmed
<1>5. BookEntry'[h] \in [LineNos -> Book!PostedLine \cup {None}]
    BY <1>0, <1>4 DEF LineTable, Line, PoRefs, Book!PostedLine
<1>6. ledger' = [ledger EXCEPT ![h] =
                    [l \in LineNos |-> IF BookEntry'[h][l] = None THEN 0 ELSE BookEntry'[h][l].qty]]
  <2>1. \A l \in LineNos : ledger[h][l] = 0
      BY <1>2 DEF Unposted, Confirmed, Awaiting, Banded
  <2>2. \A l \in LineNos : LedgerQty(lines'[h][l]) \in Nat
      BY <1>0 DEF LedgerQty, LineTable, Line
  <2>3. \A l \in LineNos : ledger[h][l] + LedgerQty(lines'[h][l]) = LedgerQty(lines'[h][l])
      BY <2>1, <2>2
  <2>4. ledger' = [ledger EXCEPT ![h] = [l \in LineNos |-> ledger[h][l] + LedgerQty(lines'[h][l])]]
      BY <1>0 DEF Confirm, ConfirmTransaction
  <2> QED
      BY <1>4, <2>3, <2>4 DEF LedgerQty
<1>7. UNCHANGED BookCredit
    BY DEF Confirm, BookCredit
<1> QED
    BY <1>3, <1>4, <1>5, <1>6, <1>7 DEF Book!Next, Book!Post

\* A reject voids the page.
LEMMA VoidStep ==
    ASSUME Mirrored, [Next]_vars, NEW h \in GrnIds, Reject(h)
    PROVE  Book!Next
<1> USE DEF Mirrored, Counted
<1>0. grn \in [GrnIds -> GrnRow]
    BY DEF Core, TypeOK
<1>1. /\ Awaiting(h) /\ grn'[h].st = "cancelled"
      /\ \A g \in GrnIds \ {h} : grn'[g] = grn[g]
    BY <1>0 DEF Reject, RejectTransaction, ClosedRow, GrnRow
<1>2. BookPage[h] = "open" /\ BookPage' = [BookPage EXCEPT ![h] = "void"]
    BY <1>1 DEF BookPage, Awaiting, Banded
<1>3. \A g \in GrnIds : Confirmed(g)' = Confirmed(g)
    BY <1>1 DEF Confirmed, Awaiting, Banded
<1>4. UNCHANGED <<BookEntry, ledger, BookCredit>>
    BY <1>3, EntriesStay DEF Reject, RejectTransaction, procVars, BookCredit
<1> QED
    BY <1>2, <1>4 DEF Book!Next, Book!Void

\* A step that writes the files or the snapshot's copy credits posted lines
\* only and takes no credit back, unless it loses the file.
LEMMA CreditStep ==
    ASSUME Mirrored, [Next]_vars, FileStep
    PROVE  Book!Next
<1> USE DEF Mirrored, Counted
<1>1. UNCHANGED <<grn, lines, ledger>>
    BY DEF FileStep, FlushAudit, FlushSourcing, SnapshotBegin, SnapshotRead, SnapshotSourcing,
       SnapshotAudit, SnapshotFails, SnapshotCut, FlushFails, CrashAndRestore, storeVars
<1>2. UNCHANGED <<BookPage, BookEntry, ledger>>
    BY <1>1, NothingPosted
<1>4. CASE disk'.po = LostTable
  <2>1. BookCredit' = [p \in POs |-> [r \in GrnIds \X LineNos |-> 0]]
      BY <1>4 DEF BookCredit, LostTable, Receipts
  <2> QED
      BY <1>2, <2>1 DEF Book!Next, Book!LoseCredits
<1>5. CASE disk'.po # LostTable
  <2>1. ASSUME NEW p \in POs, NEW r \in GrnIds \X LineNos
        PROVE  \/ BookCredit'[p][r] = BookCredit[p][r]
               \/ BookCredit'[p][r] > BookCredit[p][r] /\ Book!Names(r, p)
    <3>1. BookCredit[p][r] = disk.po[p].got[r] /\ BookCredit'[p][r] = disk'.po[p].got[r]
        BY DEF BookCredit
    <3>2. disk.po[p].got[r] \in Nat /\ disk'.po[p].got[r] \in Nat /\ r \in Receipts
      <4>1. r \in Receipts /\ disk \in Disk /\ disk' \in Disk
          BY TypeStep DEF Core, TypeOK, Receipts
      <4> QED
          BY <4>1 DEF Disk, PoTable, PoRecord
    <3>3. disk'.po[p].got[r] >= disk.po[p].got[r]
      <4>1. /\ disk.po[p].got[r] <= mem.po[p].got[r]
            /\ snap.po[p] # None => disk.po[p].got[r] <= snap.po[p].got[r]
          BY <3>2 DEF DiskBelow
      <4> QED
          BY <1>5, <3>2, <4>1, CopyStep
    <3>4. ASSUME disk'.po[p].got[r] > 0 PROVE Book!Names(r, p)
      <4>1. PICK g \in GrnIds, l \in LineNos : r = <<g, l>>
          OBVIOUS
      <4>2. Confirmed(g)' /\ CreditsTo(g, l, p)'
          BY <3>4, <4>1, CountedOnceStep DEF CountedOnce, Once
      <4>3. Confirmed(g) /\ CreditsTo(g, l, p)
          BY <1>1, <4>2 DEF Confirmed, CreditsTo, Credits, Present
      <4>4. BookPage[g] = "posted" /\ BookEntry[g] = lines[g]
          BY <4>3 DEF BookPage, BookEntry, Confirmed
      <4> QED
          BY <4>1, <4>3, <4>4 DEF Book!Names, CreditsTo, Credits, Present
    <3> QED
        BY <3>1, <3>2, <3>3, <3>4
  <2> QED
      BY <1>2, <2>1 DEF Book!Next, Book!Credit
<1> QED
    BY <1>4, <1>5

\* Everything else leaves the book alone.
LEMMA BookStutters ==
    ASSUME Mirrored, [Next]_vars, ~FileStep, ~EndSync,
           \A h \in GrnIds : ~Confirm(h) /\ ~Reject(h)
    PROVE  UNCHANGED Book!bookVars
<1> USE DEF Mirrored, Counted
<1>0. grn \in [GrnIds -> GrnRow]
    BY DEF Core, TypeOK
<1>1. UNCHANGED <<ledger, BookCredit>>
    BY LedgerStep, NothingCredited
<1>2. ASSUME UNCHANGED grn PROVE UNCHANGED <<BookPage, BookEntry>>
    BY <1>1, <1>2, NothingPosted
<1>3. ASSUME NEW h \in GrnIds, NEW st \in {"captured"} \cup Banded,
             Active(h), grn'[h].st = st, \A g \in GrnIds \ {h} : grn'[g] = grn[g]
      PROVE  UNCHANGED <<BookPage, BookEntry>>
  <2>1. UNCHANGED BookPage
      BY <1>3 DEF BookPage, Active, Banded
  <2>2. \A g \in GrnIds : Confirmed(g)' = Confirmed(g)
      BY <1>3 DEF Confirmed, Active, Banded
  <2> QED
      BY <2>1, <2>2, EntriesStay
<1>4. ASSUME NEW h \in GrnIds, StartExtraction(h) \/ EndExtraction(h)
      PROVE  UNCHANGED <<BookPage, BookEntry>>
  <2>1. CASE UNCHANGED grn
      BY <1>2, <2>1
  <2>2. CASE Worked(h)
    <3>1. PICK st \in {"captured"} \cup Banded, ext \in ExtractionStatuses :
            grn' = [grn EXCEPT ![h] = [@ EXCEPT !.st = st, !.ext = ext]]
        BY <2>2 DEF Worked
    <3>2. [grn[h] EXCEPT !.st = st, !.ext = ext].st = st
        BY <1>0 DEF GrnRow
    <3>3. grn'[h].st = st /\ \A g \in GrnIds \ {h} : grn'[g] = grn[g]
        BY <1>0, <3>1, <3>2
    <3> QED
        BY <1>3, <2>2, <3>3 DEF Worked
  <2> QED
      BY <1>4, <2>1, <2>2, WorkedStep
<1>5. ASSUME Stamp PROVE UNCHANGED <<BookPage, BookEntry>>
  <2>1. job.grn \in GrnIds
      BY <1>5 DEF Stamp, Core, TypeOK, ConfirmJob, SapJob
  <2>2. [grn[job.grn] EXCEPT !.stamped = TRUE].st = grn[job.grn].st
      BY <1>0, <2>1 DEF GrnRow
  <2>3. \A g \in GrnIds : grn'[g].st = grn[g].st
      BY <1>0, <1>5, <2>1, <2>2 DEF Stamp, StampTransaction
  <2>4. \A g \in GrnIds : Confirmed(g)' = Confirmed(g)
      BY <2>3 DEF Confirmed
  <2> QED
      BY <2>3, <2>4, EntriesStay DEF BookPage
<1>6. ASSUME \/ BeginSync \/ AbortSync \/ StampLocked \/ FinishStartup
             \/ ApplyReceipt \/ EmitConfirmed \/ UNCHANGED vars
      PROVE  UNCHANGED grn
    BY <1>6 DEF BeginSync, SyncInsert, AbortSync, SyncRollback, FlushFails, StampLocked,
       FinishStartup, ApplyReceipt, EmitConfirmed, storeVars, vars
<1>7. ASSUME NEW h \in GrnIds,
             ScheduleExtraction(h) \/ ExtractionRaises(h) \/ ReplayConfirm(h) \/ SweepGrn(h)
      PROVE  UNCHANGED grn
    BY <1>7 DEF ScheduleExtraction, ExtractionRaises, ReplayConfirm, SweepGrn, storeVars
<1>8. ASSUME NEW p \in POs, SapEvent(p) PROVE UNCHANGED grn
    BY <1>8 DEF SapEvent, storeVars
<1>9. UNCHANGED <<BookPage, BookEntry>>
    BY <1>2, <1>4, <1>5, <1>6, <1>7, <1>8 DEF Next, Effects, Snapshot, FileStep
<1> QED
    BY <1>1, <1>9 DEF Book!bookVars

(***************************************************************************)
(* The whole store - field sync, worker, confirm, reject, effects, flushes,*)
(* snapshots, failures, crashes and sweeps - implements the receipt book:  *)
(* a page is posted or voided once, a posting fixes its lines and enters   *)
(* them into stock in one step, and a durable credit stands on a posted    *)
(* line and is never taken back by itself.                                 *)
(***************************************************************************)
THEOREM ImplementsBook == Spec => BookSpec
<1>1. Init => Book!Init
  <2> SUFFICES ASSUME Init PROVE Book!Init
      OBVIOUS
  <2>1. BookPage = [g \in GrnIds |-> "none"]
      BY DEF Init, StoreInit, NoRow, BookPage
  <2>2. BookEntry = [g \in GrnIds |-> [l \in LineNos |-> None]]
      BY DEF Init, StoreInit, NoRow, BookEntry, Confirmed
  <2>3. BookCredit = [p \in POs |-> [r \in GrnIds \X LineNos |-> 0]]
      BY DEF Init, FreshTable, BookCredit, Receipts
  <2> QED
      BY <2>1, <2>2, <2>3 DEF Init, StoreInit, Book!Init
<1>2. Mirrored /\ [Next]_vars => [Book!Next]_(Book!bookVars)
    BY CaptureStep, PostStep, VoidStep, CreditStep, BookStutters
<1> QED
    BY <1>1, <1>2, MirroredHolds, PTL DEF Spec, BookSpec, Book!Spec
=============================================================================
