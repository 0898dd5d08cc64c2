------------------------------ MODULE GrnReceipt ------------------------------
(***************************************************************************)
(* The life of a goods receipt across one server process: field sync in a  *)
(* thread, the extraction worker around its vision call, confirm and       *)
(* reject on the event loop, the best-effort effects a confirm has on the  *)
(* in-memory purchase orders and the audit log, the write-through flush    *)
(* and the periodic snapshot that make those two durable, SAP events, and  *)
(* a crash at any point with the restore, the startup sweep and the        *)
(* rescheduling of extractions that follow.                                *)
(*                                                                         *)
(* Event-loop handlers run to completion, so confirm_grn is atomic up to   *)
(* its commit; what follows the commit is cut into steps because a crash,  *)
(* the snapshot thread and a sync thread can come in between.              *)
(***************************************************************************)
EXTENDS GrnStore

CONSTANTS
    InitialPO,   \* POs -> quantity, status, sap of the PO at the start
    SapQtys,     \* quantities of gr_posted events
    MaxSap,      \* bound: SAP events
    MaxCrashes,  \* bound: crashes
    MaxFailures  \* bound: failed flushes, and snapshots that leave a file cut

ASSUME ReceiptConstants ==
    /\ InitialPO \in [POs -> [quantity : Nat, status : PoStatuses, sap : Nat]]
    /\ SapQtys \subseteq Nat
    /\ MaxSap \in Nat
    /\ MaxCrashes \in Nat
    /\ MaxFailures \in Nat

VARIABLES
    mode,      \* sweep: starting up; up: serving
    mem,       \* the process: [po : PO table, audit : audited GRNs]
    disk,      \* state/*.json: what sourcing.json and audit.json hold, and
               \* cut: which of them are half written and do not parse
    snap,      \* the snapshot thread: [at, po] - its phase and what it read
    task,      \* GrnIds -> route and extraction: none | synced | queued | vision | raised
    job,       \* the handler that holds the event loop after its commit, or None
    sapCount, crashes, failures,   \* counters of the bounds
    acked,     \* history: <<grn, claim>> answered 200 by a confirm
    torn,      \* history: GRNs a crash caught on disk but not stamped
    lapsed,    \* history: GRNs (None: SAP events) whose flush failed
    faded      \* history: GRNs whose event the audit log has dropped or lost

procVars == <<mode, mem, disk, snap, task, job>>
boundVars == <<sapCount, crashes, failures>>
historyVars == <<acked, torn, lapsed, faded>>
vars == <<storeVars, procVars, boundVars, historyVars>>

(***************************************************************************)
(* A PO of the process carries one auxiliary field beside the code's:      *)
(* got[<<g, l>>] counts how often line l of GRN g was accumulated on it.   *)
(***************************************************************************)
Receipts == GrnIds \X LineNos
PoRecord == [quantity : Nat, status : PoStatuses \cup {"lost"}, ct : Nat, sap : Nat,
             got : [Receipts -> Nat]]
PoTable == [POs -> PoRecord]
Stores == [po : PoTable, audit : SUBSET GrnIds]
StateFiles == {"sourcing", "audit"}
Disk == [po : PoTable, audit : SUBSET GrnIds, cut : SUBSET StateFiles]
Snap == [at : {"idle", "sourcing", "audit"}, po : [POs -> PoRecord \cup {None}]]

FreshTable ==
    [p \in POs |-> [quantity |-> InitialPO[p].quantity, status |-> InitialPO[p].status,
                    ct |-> 0, sap |-> InitialPO[p].sap, got |-> [r \in Receipts |-> 0]]]

\* No store knows the POs any more.
LostTable ==
    [p \in POs |-> [quantity |-> 0, status |-> "lost", ct |-> 0, sap |-> 0,
                    got |-> [r \in Receipts |-> 0]]]

Upload == [grn : GrnIds, dev : Devices, seq : SequenceNos, photo : Photos,
           lines : LineTable, route : Routes]
ConfirmJob == [grn : GrnIds, todo : SUBSET LineNos,
               at : {"apply", "audit", "sourcing", "stamp"}, live : BOOLEAN]
SapJob == [grn : {None}, todo : {{}}, at : {"audit", "sourcing"}, live : {FALSE}]

ASSUME NoneIsNoJob == None \notin ConfirmJob \cup SapJob

NoSnap == [at |-> "idle", po |-> [p \in POs |-> None]]

Init ==
    /\ StoreInit
    /\ mode = "up"
    /\ mem = [po |-> FreshTable, audit |-> {}]
    /\ disk = [po |-> FreshTable, audit |-> {}, cut |-> {}]
    /\ snap = NoSnap
    /\ task = [g \in GrnIds |-> "none"]
    /\ job = None
    /\ sapCount = 0 /\ crashes = 0 /\ failures = 0
    /\ acked = {} /\ torn = {} /\ lapsed = {} /\ faded = {}

\* The event loop is free to run a handler.
LoopFree == mode = "up" /\ job = None

\* Fault: flush_critical does not wait for a snapshot.
FlushAnyTime == TRUE

\* persistence._lock: a flush takes it when no snapshot is writing, and a
\* snapshot when no flush is.
FlushMayStart == snap.at = "idle"
SnapshotMayStart == snap.at = "idle" /\ ~(job # None /\ job.at = "sourcing")

-----------------------------------------------------------------------------
(* Field sync (a thread beside the event loop)                               *)

BeginSync ==
    /\ mode = "up"
    /\ \E d \in Devices, g \in GrnIds, n \in SequenceNos, photo \in Photos,
          ls \in CapturedTables, route \in Routes :
          SyncInsert(d, g, n, photo, ls, route)
    /\ UNCHANGED <<procVars, boundVars, historyVars>>

\* The commit; the thread's answer is on its way to the route.
EndSync ==
    /\ SyncCommit(mem.po)
    /\ task' = IF grn'[upload.grn].ext = "pending"
               THEN [task EXCEPT ![upload.grn] = "synced"] ELSE task
    /\ UNCHANGED <<mode, mem, disk, snap, job, boundVars, historyVars>>

AbortSync ==
    /\ SyncRollback
    /\ UNCHANGED <<procVars, boundVars, historyVars>>

\* Back on the event loop, the route reads the row again and schedules the
\* extraction unless it was closed in between.
ScheduleExtraction(g) ==
    /\ LoopFree /\ task[g] = "synced"
    /\ task' = [task EXCEPT ![g] = IF grn[g].ext # "skipped" THEN "queued" ELSE "none"]
    /\ UNCHANGED <<storeVars, mode, mem, disk, snap, job, boundVars, historyVars>>

-----------------------------------------------------------------------------
(* extraction.run_extraction                                                 *)

TaskEnds(g) == task' = [task EXCEPT ![g] = "none"]

otherThanTask == <<mode, mem, disk, snap, job, boundVars, historyVars>>

\* Up to the await: nothing to do, vision off, or a vision call in flight.
StartExtraction(g) ==
    /\ LoopFree /\ task[g] = "queued"
    /\ \/ /\ ~Active(g)
          /\ TaskEnds(g)
          /\ UNCHANGED storeVars
       \/ /\ BandTransaction(g, "skipped", lines[g], mem.po)
          /\ TaskEnds(g)
       \/ /\ MarkRunning(g)
          /\ task' = [task EXCEPT ![g] = "vision"]
    /\ UNCHANGED otherThanTask

\* From the await: the GRN was closed meanwhile, the model answered nothing,
\* or it answered lines.
EndExtraction(g) ==
    /\ LoopFree /\ task[g] = "vision"
    /\ TaskEnds(g)
    /\ \/ ~Active(g) /\ UNCHANGED storeVars
       \/ FailTransaction(g)
       \/ \E extracted \in CapturedTables :
             BandTransaction(g, "done", extracted, mem.po)
    /\ UNCHANGED otherThanTask

\* The task dies of an exception and its transaction is rolled back: a reply
\* that is no JSON object, or a write lock held past the busy timeout.
ExtractionRaises(g) ==
    /\ LoopFree /\ Active(g)
    /\ \/ task[g] = "vision"
       \/ task[g] = "queued" /\ upload # None
    /\ task' = [task EXCEPT ![g] = "raised"]
    /\ UNCHANGED <<storeVars, otherThanTask>>

-----------------------------------------------------------------------------
(* Confirm, reject                                                           *)

\* The effects still owed for a GRN: its credited lines, then the audit
\* event with the write-through flush, then the stamp.
EffectsOf(g, ls, live) ==
    [grn |-> g, todo |-> Credits(ls), at |-> "apply", live |-> live]

Confirm(g) ==
    /\ LoopFree
    /\ \E req \in Requests(g) : ConfirmTransaction(g, req, mem.po)
    /\ job' = EffectsOf(g, lines'[g], TRUE)
    /\ UNCHANGED <<mode, mem, disk, snap, task, boundVars, historyVars>>

\* Fault: any confirm of a confirmed GRN is taken for a replay.
AnyReplay(g, req) == TRUE

\* A confirm of a confirmed GRN: the same claim gets the stored reply, any
\* other is refused (409, no change).
ReplayAccepted(g, req) == OnFile(g) = Claim(g, req)

ReplayConfirm(g) ==
    /\ LoopFree
    /\ grn[g].st = "confirmed"
    /\ \E req \in Requests(g) :
          /\ ReplayAccepted(g, req)
          /\ acked' = acked \cup {<<g, Claim(g, req)>>}
    /\ UNCHANGED <<storeVars, procVars, boundVars, torn, lapsed, faded>>

Reject(g) ==
    /\ LoopFree
    /\ RejectTransaction(g)
    /\ UNCHANGED <<procVars, boundVars, historyVars>>

-----------------------------------------------------------------------------
(* _apply_confirm_effects and the stamp                                      *)

otherThanJob == <<mode, snap, task, boundVars>>

\* apply_ct_receipt on a PO of the process, with the count of the receipt.
Receive(po, r, qty) == [ApplyCtReceipt(po, qty) EXCEPT !.got[r] = @ + 1]

\* The POs the process knows.
KnownPOs == {p \in POs : Known(mem.po[p])}

\* One turn of the receipt loop; a PO no store knows is passed over.
ApplyReceipt ==
    /\ job # None /\ job.at = "apply"
    /\ \E l \in job.todo :
          LET p == lines[job.grn][l].po
          IN  /\ \A k \in job.todo : l <= k
              /\ job' = [job EXCEPT !.todo = @ \ {l}]
              /\ mem' = IF p \notin KnownPOs THEN mem
                        ELSE [mem EXCEPT !.po[p] =
                                 Receive(@, <<job.grn, l>>, lines[job.grn][l].qty)]
    /\ UNCHANGED <<storeVars, disk, otherThanJob, historyVars>>

\* The log is a ring of 10000 events: whatever is appended to it may push old
\* ones out (module AuditTrail has the ring itself).
PushedOut(old) ==
    /\ old \subseteq mem.audit
    /\ faded' = faded \cup old

\* The emits: the events join the log, and each wants the files written.
EmitConfirmed ==
    /\ job # None /\ job.at = "apply" /\ job.todo = {}
    /\ \E old \in SUBSET (GrnIds \ {job.grn}) :
          /\ PushedOut(old)
          /\ mem' = [mem EXCEPT !.audit = (@ \ old) \cup {job.grn}]
    /\ job' = [job EXCEPT !.at = "audit"]
    /\ UNCHANGED <<storeVars, disk, otherThanJob, acked, torn, lapsed>>

(***************************************************************************)
(* A file is truncated and then written.  Nothing reads it meanwhile, so   *)
(* a write is one step; one that a crash or an error stops half way leaves *)
(* the file cut, with nothing in it that can be read.                      *)
(***************************************************************************)
AuditWritten == [disk EXCEPT !.audit = mem.audit, !.cut = @ \ {"audit"}]
SourcingWritten(table) == [disk EXCEPT !.po = table, !.cut = @ \ {"sourcing"}]

CutShort(files) ==
    [po    |-> IF "sourcing" \in files THEN LostTable ELSE disk.po,
     audit |-> IF "audit" \in files THEN {} ELSE disk.audit,
     cut   |-> disk.cut \cup files]

\* flush_critical takes the file lock and writes audit.json ...
FlushAudit ==
    /\ job # None /\ job.at = "audit"
    /\ FlushMayStart
    /\ disk' = AuditWritten
    /\ job' = [job EXCEPT !.at = "sourcing"]
    /\ UNCHANGED <<storeVars, mem, otherThanJob, historyVars>>

\* A confirm goes on to its stamp; the SAP webhook has answered.
AfterFlush == IF job.grn = None THEN None ELSE [job EXCEPT !.at = "stamp"]

\* ... then sourcing.json, and gives the lock back.
FlushSourcing ==
    /\ job # None /\ job.at = "sourcing"
    /\ disk' = SourcingWritten(mem.po)
    /\ job' = AfterFlush
    /\ UNCHANGED <<storeVars, mem, otherThanJob, historyVars>>

\* Every flush of the handler fails, before a file is opened or half way through
\* it.  The failure is logged and swallowed twice, so the handler goes on as if
\* it had not.
FlushFails ==
    /\ job # None /\ job.at \in {"audit", "sourcing"}
    /\ job.at = "audit" => FlushMayStart
    /\ failures < MaxFailures
    /\ failures' = failures + 1
    /\ lapsed' = lapsed \cup {job.grn}
    /\ job' = AfterFlush
    /\ disk' \in {disk, CutShort({job.at})}
    /\ UNCHANGED <<storeVars, mode, mem, snap, task, sapCount, crashes, acked, torn, faded>>

\* effects_applied_at is committed and a live confirm answers 200.
Stamp ==
    /\ job # None /\ job.at = "stamp"
    /\ StampTransaction(job.grn)
    /\ job' = None
    /\ acked' = IF job.live THEN acked \cup {<<job.grn, OnFile(job.grn)>>} ELSE acked
    /\ UNCHANGED <<mem, disk, otherThanJob, torn, lapsed, faded>>

\* A sync transaction holds the write lock past the busy timeout: the stamp
\* raises and the caller gets a 500 after everything else has landed.
StampLocked ==
    /\ job # None /\ job.at = "stamp"
    /\ upload # None
    /\ job' = None
    /\ UNCHANGED <<storeVars, mem, disk, otherThanJob, historyVars>>

-----------------------------------------------------------------------------
(* SAP webhook: the event is applied, recorded and flushed in one handler.   *)

SapEvent(p) ==
    /\ LoopFree
    /\ sapCount < MaxSap
    /\ p \in KnownPOs
    /\ \E kind \in SapKinds, qty \in SapQtys, old \in SUBSET GrnIds :
          /\ PushedOut(old)
          /\ mem' = [mem EXCEPT !.po[p] = ApplyToPo(@, kind, qty),
                                !.audit = @ \ old]
    /\ sapCount' = sapCount + 1
    /\ job' = [grn |-> None, todo |-> {}, at |-> "audit", live |-> FALSE]
    /\ UNCHANGED <<storeVars, mode, disk, snap, task, crashes, failures, acked, torn, lapsed>>

-----------------------------------------------------------------------------
(* persistence.snapshot_all in its thread: it holds the file lock, reads the *)
(* POs one after the other while handlers go on, writes sourcing.json and    *)
(* later audit.json.                                                         *)

SnapshotBegin ==
    /\ mode = "up" /\ SnapshotMayStart
    /\ snap' = [NoSnap EXCEPT !.at = "sourcing"]
    /\ UNCHANGED <<storeVars, mode, mem, disk, task, job, boundVars, historyVars>>

SnapshotRead(p) ==
    /\ snap.at = "sourcing" /\ snap.po[p] = None
    /\ snap' = [snap EXCEPT !.po[p] = mem.po[p]]
    /\ UNCHANGED <<storeVars, mode, mem, disk, task, job, boundVars, historyVars>>

SnapshotSourcing ==
    /\ snap.at = "sourcing" /\ \A p \in POs : snap.po[p] # None
    /\ disk' = SourcingWritten(snap.po)
    /\ snap' = [NoSnap EXCEPT !.at = "audit"]
    /\ UNCHANGED <<storeVars, mode, mem, task, job, boundVars, historyVars>>

SnapshotAudit ==
    /\ snap.at = "audit"
    /\ disk' = AuditWritten
    /\ snap' = NoSnap
    /\ UNCHANGED <<storeVars, mode, mem, task, job, boundVars, historyVars>>

\* A PO added under the iteration, or a file that cannot be opened: caught, the
\* lock is freed.
SnapshotFails ==
    /\ snap.at # "idle"
    /\ snap' = NoSnap
    /\ UNCHANGED <<storeVars, mode, mem, disk, task, job, boundVars, historyVars>>

\* All is read, and the write itself fails.
SnapshotCut ==
    /\ snap.at # "idle" /\ (snap.at = "sourcing" => \A p \in POs : snap.po[p] # None)
    /\ failures < MaxFailures
    /\ failures' = failures + 1
    /\ disk' = CutShort({snap.at})
    /\ snap' = NoSnap
    /\ UNCHANGED <<storeVars, mode, mem, task, job, sapCount, crashes, historyVars>>

Snapshot ==
    \/ SnapshotBegin \/ SnapshotSourcing \/ SnapshotAudit \/ SnapshotFails
    \/ SnapshotCut
    \/ \E p \in POs : SnapshotRead(p)

-----------------------------------------------------------------------------
(* Crash and startup                                                         *)

Confirmed(g) == grn[g].st = "confirmed"
Unstamped(g) == Confirmed(g) /\ ~grn[g].stamped

\* Line l of g is to be credited to PO p.
CreditsTo(g, l, p) == l \in Credits(lines[g]) /\ lines[g][l].po = p

\* A receipt of g has reached sourcing.json already.
Durable(g) ==
    \E p \in POs, l \in LineNos : CreditsTo(g, l, p) /\ disk.po[p].got[<<g, l>>] > 0

\* restore_all: half a sourcing.json stops it before anything is read, half an
\* audit.json after the POs.
Restored(d) ==
    [po |-> d.po, audit |-> IF "sourcing" \in d.cut THEN {} ELSE d.audit]

\* The process dies and is started again: an open transaction is rolled back,
\* the stores are read back from the state files.  Whoever was writing one (a
\* handler of another component does as well) leaves it cut.
CrashAndRestore ==
    /\ crashes < MaxCrashes
    /\ crashes' = crashes + 1
    /\ mode' = "sweep"
    /\ \E files \in {{}, {"sourcing"}, {"audit"}} : disk' = CutShort(files)
    /\ mem' = Restored(disk')
    /\ faded' = IF disk'.cut = {} THEN faded ELSE faded \cup {g \in GrnIds : grn[g].stamped}
    /\ snap' = NoSnap
    /\ task' = [g \in GrnIds |-> "none"]
    /\ job' = None
    /\ upload' = None
    /\ torn' = torn \cup {g \in GrnIds : Unstamped(g) /\ Durable(g)}
    /\ UNCHANGED <<grn, lines, ledger, deliveries, lastSeq, photos, sapCount,
                   failures, acked, lapsed>>

\* Fault: every confirmed GRN is swept.
SweepEvery(g) == Confirmed(g) /\ grn[g].no # 0

\* Fault: nothing is swept.
SweepNone(g) == FALSE

\* startup_sweep takes up the next confirmed GRN without a stamp.
NeedsSweep(g) == Unstamped(g) /\ grn[g].no # 0

SweepGrn(g) ==
    /\ mode = "sweep" /\ job = None
    /\ NeedsSweep(g)
    /\ job' = EffectsOf(g, lines[g], FALSE)
    /\ UNCHANGED <<storeVars, mode, mem, disk, snap, task, boundVars, historyVars>>

\* Fault: an extraction that was running is forgotten.
PendingOnly(g) == Active(g) /\ grn[g].ext = "pending"

\* resume_pending reschedules what was pending or running, and serving starts.
Resumable(g) == Active(g) /\ grn[g].ext \in {"pending", "running"}

FinishStartup ==
    /\ mode = "sweep" /\ job = None
    /\ \A g \in GrnIds : ~NeedsSweep(g)
    /\ mode' = "up"
    /\ task' = [g \in GrnIds |-> IF Resumable(g) THEN "queued" ELSE "none"]
    /\ UNCHANGED <<storeVars, mem, disk, snap, job, boundVars, historyVars>>

-----------------------------------------------------------------------------
Effects == ApplyReceipt \/ EmitConfirmed \/ FlushAudit \/ FlushSourcing \/ Stamp

Next ==
    \/ BeginSync \/ EndSync \/ AbortSync
    \/ \E g \in GrnIds : \/ ScheduleExtraction(g)
                         \/ StartExtraction(g) \/ EndExtraction(g) \/ ExtractionRaises(g)
                         \/ Confirm(g) \/ ReplayConfirm(g) \/ Reject(g)
                         \/ SweepGrn(g)
    \/ Effects \/ FlushFails \/ StampLocked
    \/ \E p \in POs : SapEvent(p)
    \/ Snapshot
    \/ CrashAndRestore \/ FinishStartup

Spec == Init /\ [][Next]_vars

(***************************************************************************)
(* Fairness: the interpreter keeps running what is running.  A thread ends *)
(* its transaction, the loop resumes its tasks and finishes its handler,   *)
(* the snapshot thread gives the lock back, startup goes on.  No client,   *)
(* SAP event or crash is ever owed.                                        *)
(***************************************************************************)
Fairness ==
    /\ WF_vars(EndSync)
    /\ SF_vars(Effects)
    /\ WF_vars(snap.at # "idle" /\ Snapshot)
    /\ WF_vars(FinishStartup)
    /\ \A g \in GrnIds : /\ WF_vars(SweepGrn(g))
                         /\ SF_vars(ScheduleExtraction(g))
                         /\ SF_vars(StartExtraction(g))
                         /\ SF_vars(EndExtraction(g))

FairSpec == Spec /\ Fairness

-----------------------------------------------------------------------------
(* Properties                                                                *)

\* Every variable keeps its type.
TypeOK ==
    /\ grn \in [GrnIds -> GrnRow]
    /\ lines \in [GrnIds -> LineTable]
    /\ ledger \in [GrnIds -> [LineNos -> Nat]]
    /\ deliveries \in [POs -> {"none", "open", "full"}]
    /\ lastSeq \in [Devices -> Nat]
    /\ photos \in [GrnIds -> Photos \cup {None}]
    /\ upload \in Upload \cup {None}
    /\ mode \in {"sweep", "up"}
    /\ mem \in Stores
    /\ disk \in Disk
    /\ snap \in Snap
    /\ task \in [GrnIds -> {"none", "synced", "queued", "vision", "raised"}]
    /\ job \in ConfirmJob \cup SapJob \cup {None}
    /\ sapCount \in Nat /\ crashes \in Nat /\ failures \in Nat
    /\ torn \subseteq GrnIds /\ lapsed \subseteq GrnIds \cup {None} /\ faded \subseteq GrnIds

(***************************************************************************)
(* A stamped confirm is never swept again, so its audit event and all of   *)
(* its receipts have to be in the state files from then on, whatever       *)
(* snapshots and crashes come after (effects_applied_at, grn.py) - unless  *)
(* its own flush failed, which flush_critical reports to nobody, or the    *)
(* file was left half written: then the event is gone if a restart found   *)
(* it so, and the receipts if the PO is gone with them.  An event is also  *)
(* gone when newer ones have pushed it out of the log.                     *)
(***************************************************************************)
StampedIsDurable ==
    \A g \in GrnIds : grn[g].stamped /\ g \notin lapsed =>
        /\ g \in disk.audit \/ "audit" \in disk.cut \/ g \in faded
        /\ \A l \in LineNos, p \in POs : CreditsTo(g, l, p) =>
              disk.po[p].got[<<g, l>>] >= 1 \/ ~Known(disk.po[p])

(***************************************************************************)
(* A PO accumulates a receipt only from the confirmed line that names it,  *)
(* and more than once only when a crash found that GRN in sourcing.json    *)
(* but not stamped: not through replays, snapshots, a failed flush, a      *)
(* locked database or any other crash.                                     *)
(***************************************************************************)
CreditedOnce ==
    \A g \in GrnIds, l \in LineNos, p \in POs :
        mem.po[p].got[<<g, l>>] > 0 =>
            /\ Confirmed(g) /\ CreditsTo(g, l, p)
            /\ mem.po[p].got[<<g, l>>] = 1 \/ g \in torn

\* No crash has split a GRN and no flush has been lost.
Clean == torn = {} /\ lapsed = {}

(***************************************************************************)
(* While the process serves and the history is clean, ct_gr_qty of a PO    *)
(* the store knows is the sum of the stock ledger over the confirmed lines *)
(* posted to it.                                                           *)
(***************************************************************************)
PostedTo(p) == {r \in Receipts : Confirmed(r[1]) /\ CreditsTo(r[1], r[2], p)}

PoMatchesLedger ==
    LoopFree /\ Clean =>
        \A p \in KnownPOs :
            mem.po[p].ct = MapThenSumSet(LAMBDA r : ledger[r[1]][r[2]], PostedTo(p))

(***************************************************************************)
(* vendor_deliveries is written in the transaction from a prediction of    *)
(* what the receipts will do later.  Once they have landed cleanly, a full *)
(* delivery has its quantity and a PO filled by site receipts is full.     *)
(***************************************************************************)
DeliveryPrediction ==
    LoopFree /\ Clean =>
        \A p \in KnownPOs :
            /\ deliveries[p] = "full" => ReceivedQty(mem.po[p]) >= mem.po[p].quantity
            /\ mem.po[p].ct >= mem.po[p].quantity /\ mem.po[p].ct > 0
                  => deliveries[p] = "full"

(***************************************************************************)
(* Site receipts beyond the 5% headroom are never silent: some confirmed   *)
(* line on the PO carries over_receipt, unless one GRN split them over     *)
(* several lines (each line is compared with the headroom before the GRN). *)
(***************************************************************************)
OverReceiptIsFlagged ==
    \A p \in POs : torn = {} /\ 20 * mem.po[p].ct > 21 * mem.po[p].quantity =>
        \E r \in PostedTo(p) :
            \/ lines[r[1]][r[2]].over
            \/ \E k \in LineNos \ {r[2]} : <<r[1], k>> \in PostedTo(p)

(***************************************************************************)
(* A 200 on confirm is a promise: the claim it answered is what stays on   *)
(* file, however device, office, retries, worker and crashes interleave.   *)
(***************************************************************************)
AckedClaimsStand ==
    \A a \in acked : Confirmed(a[1]) /\ OnFile(a[1]) = a[2]

(***************************************************************************)
(* A confirm or a reject that races the extraction worker closes the       *)
(* extraction too, and the worker never reopens it.                        *)
(***************************************************************************)
ClosedIsSettled ==
    \A g \in GrnIds :
        grn[g].st \in Closed => grn[g].ext \notin {"pending", "running"}

(***************************************************************************)
(* GRN numbers are given to confirmed receipts only, each once.            *)
(***************************************************************************)
GrnNosDistinct ==
    \A g, h \in GrnIds :
        /\ Confirmed(g) <=> grn[g].no # 0
        /\ g # h /\ Confirmed(g) => grn[g].no # grn[h].no

(***************************************************************************)
(* The stored photo is the one its row was synced with, through retries,   *)
(* rolled back uploads and crashes between the file write and the commit.  *)
(***************************************************************************)
PhotoIsTheSyncedOne ==
    \A g \in GrnIds : Stored(g) => photos[g] = grn[g].photo

(***************************************************************************)
(* A device that resumes above its watermark never meets a used number:    *)
(* the watermark covers every row, and no two rows share a number.         *)
(***************************************************************************)
WatermarkCoversRows ==
    \A g \in GrnIds : Stored(g) =>
        /\ grn[g].seq <= lastSeq[grn[g].dev]
        /\ \A h \in GrnIds \ {g} : Stored(h) =>
              <<grn[g].dev, grn[g].seq>> # <<grn[h].dev, grn[h].seq>>

(***************************************************************************)
(* startup_sweep calls itself idempotent (grn.py:594): sweeping a GRN never*)
(* counts a receipt again.                                                 *)
(***************************************************************************)
SweepIdempotent ==
    \A r \in Receipts, p \in POs : mem.po[p].got[r] <= 1

(***************************************************************************)
(* No confirmed receipt is forgotten: its credits reach the state files,   *)
(* unless its flush failed or a half-written sourcing.json lost the PO.    *)
(***************************************************************************)
ConfirmedIsCredited ==
    \A g \in GrnIds, l \in LineNos, p \in POs :
        Confirmed(g) /\ CreditsTo(g, l, p) ~>
            \/ disk.po[p].got[<<g, l>>] >= 1
            \/ g \in lapsed \/ p \notin KnownPOs

(***************************************************************************)
(* A captured GRN is banded, failed to triage or closed, unless its        *)
(* extraction task died of an exception (then it waits for a restart).     *)
(***************************************************************************)
CapturedSettles ==
    \A g \in GrnIds : Active(g) ~> (~Active(g) \/ task[g] = "raised")

-----------------------------------------------------------------------------
(***************************************************************************)
(* Refinement: the receipt book of ReceiptBook.tla.  A GRN is posted the   *)
(* moment it is confirmed; what the state files hold is its credit.        *)
(***************************************************************************)
BookPage ==
    [g \in GrnIds |-> CASE grn[g].st = "none" -> "none"
                        [] grn[g].st = "confirmed" -> "posted"
                        [] grn[g].st = "cancelled" -> "void"
                        [] OTHER -> "open"]
BookEntry == [g \in GrnIds |-> IF Confirmed(g) THEN lines[g] ELSE [l \in LineNos |-> None]]
BookCredit == [p \in POs |-> disk.po[p].got]

Book == INSTANCE ReceiptBook
        WITH page <- BookPage, entry <- BookEntry, stock <- ledger, credit <- BookCredit

BookSpec == Book!Spec
=============================================================================
