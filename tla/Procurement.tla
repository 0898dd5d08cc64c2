---------------------------- MODULE Procurement ----------------------------
(***************************************************************************)
(* Quotes, awards and orders under the approvals gate (app/approvals.py),  *)
(* with the write-through files that make them durable                     *)
(* (app/persistence.py) and a process that may crash between two writes.   *)
(*                                                                         *)
(* Handlers run one at a time on the event loop.  A handler changes memory *)
(* and then flushes approvals.json before sourcing.json, some of them      *)
(* twice; job holds the steps still to do.  The snapshot thread runs at    *)
(* any moment beside it: it reads the sourcing tables one after another,   *)
(* writes sourcing.json, then approvals.json.  Both hold persistence._lock *)
(* while they write.                                                       *)
(***************************************************************************)
EXTENDS Sourcing, Sequences, FiniteSets

CONSTANTS Totals, Budget, Threshold,
          MaxPrs, MaxRfqs, MaxQuotes, MaxApprovals, MaxAwards,
          MaxFaults   \* crashes, failed writes and late releases together

ASSUME AmountsAreNat == /\ Totals \subseteq Nat
                        /\ Budget \in Nat
                        /\ Threshold \in Nat

ASSUME BoundsAreNat ==
    {MaxPrs, MaxRfqs, MaxQuotes, MaxApprovals, MaxAwards, MaxFaults} \subseteq Nat

VARIABLES
    src,       \* the sourcing store, in memory
    apr,       \* approval number -> approval, in memory
    disk,      \* what approvals.json and sourcing.json hold, and cut: which
               \* of them are half written and do not parse
    up,        \* the process runs
    job,       \* the handler in progress
    snap,      \* the snapshot thread
    unsaved,   \* the last flush failed, or a snapshot has left a file cut
    owed,      \* history: decisions taken on a quote their RFQ had
    answered,  \* history: orders and decisions a client was told of
    torn,      \* history: PRs whose handler a crash cut short
    lost,      \* history: a crash came while something was unsaved, or in
               \* the middle of a write
    faults     \* how many crashes, failed flushes and late releases came

vars == <<src, apr, disk, up, job, snap, unsaved, owed, answered, torn, lost,
          faults>>

AwardKinds == {"po_create", "award_single_source"}
Roles      == {"buyer", "head"}
Favourable == {"approved", "auto_approved"}

\* auth: who holds approval:decide.
CanSelfApprove(role) == role = "head"

NoJob    == [todo |-> <<>>]
NoSnap   == [phase |-> "idle"]
NoAnswer == [pos |-> None, decision |-> None]

Flush == <<"apr", "src">>

\* Fault: what the close records waits for the next handler's flush.
CloseUnsaved == Flush \o <<"close">>

\* award_rfq and add_quote flush when they emit their audit event; the approval
\* is recorded, or gets its result, after that, and is flushed again.
FlushCloseFlush == Flush \o <<"close">> \o Flush

\* An approval as _make_approval stores it.
Approval(kind, r, q, vendor, total, status, result) ==
    [kind |-> kind, rfq |-> r, quote |-> q, vendor |-> vendor, total |-> total,
     status |-> status, result |-> result]

NextApproval == Cardinality(DOMAIN apr) + 1

Init ==
    /\ src = EmptyStore
    /\ apr = EmptyTable
    /\ disk = [src |-> EmptyStore, apr |-> EmptyTable, cut |-> {}]
    /\ up = TRUE
    /\ job = NoJob
    /\ snap = NoSnap
    /\ unsaved = FALSE
    /\ owed = {}
    /\ answered = {}
    /\ torn = {}
    /\ lost = FALSE
    /\ faults = 0

-----------------------------------------------------------------------------
(* The gates *)

\* gate_quote: more than ten percent over the requisition's budget.
OverBudget(total) == 10 * total > 11 * Budget

\* gate_award reads the quote's value, or 0 when the RFQ has no such quote.
AwardValue(r, q) == IF q \in QuotesOf(src, r) THEN src.quotes[q].total ELSE 0

\* Fault: an order of exactly the threshold goes through.
GateAboveThreshold(r, q, winner) ==
    IF \/ Cardinality(VendorsOf(src, r)) <= 1
       \/ q \in QuotesOf(src, r) /\ src.quotes[q].vendor # winner
    THEN "award_single_source"
    ELSE IF AwardValue(r, q) > Threshold THEN "po_create" ELSE "none"

\* gate_award: which rule fires, given the vendor compare_quotes recommends.
Gate(r, q, winner) ==
    IF \/ Cardinality(VendorsOf(src, r)) <= 1
       \/ q \in QuotesOf(src, r) /\ src.quotes[q].vendor # winner
    THEN "award_single_source"
    ELSE IF AwardValue(r, q) >= Threshold THEN "po_create" ELSE "none"

\* compare_quotes recommends some vendor that quoted; which one its scores
\* decide (module BidEvaluation).
Winners(r) == IF VendorsOf(src, r) = {} THEN {None} ELSE VendorsOf(src, r)

-----------------------------------------------------------------------------
(* Handlers *)

Idle == up /\ job.todo = <<>>

\* A handler's first step: memory changes, and these steps are left.
Begin(pr, todo, close, pos, decision) ==
    job' = [todo |-> todo, pr |-> pr, close |-> close,
            answer |-> [pos |-> pos, decision |-> decision]]

Untouched == UNCHANGED <<disk, up, snap, unsaved, answered, torn, lost>>

NoClose == [kind |-> "none"]

\* POST /api/prs
CreatePrH ==
    /\ Idle
    /\ src.counter.pr < MaxPrs
    /\ src' = CreatePr(src)
    /\ Begin(src.counter.pr + 1, Flush, NoClose, None, None)
    /\ UNCHANGED <<apr, owed, faults>>
    /\ Untouched

\* POST /api/rfqs
IssueRfqH ==
    /\ Idle
    /\ src.counter.rfq < MaxRfqs
    /\ \E p \in DOMAIN src.prs :
          /\ MayIssueRfq(src, p)
          /\ src' = IssueRfq(src, p)
          /\ Begin(p, Flush, NoClose, None, None)
    /\ UNCHANGED <<apr, owed, faults>>
    /\ Untouched

\* The SAP webhook's pr_released, at any time and for any requisition.
SapReleasesPr ==
    /\ Idle
    /\ faults < MaxFaults
    /\ \E p \in DOMAIN src.prs :
          /\ src' = ReleasePr(src, p)
          /\ Begin(p, Flush, NoClose, None, None)
    /\ faults' = faults + 1
    /\ UNCHANGED <<apr, owed>>
    /\ Untouched

\* POST /api/rfqs/{rfq_no}/quotes -> gate_quote.  Over budget, a head's quote
\* is added and recorded afterwards; a buyer's waits for a decision.
QuoteH(role, r, vendor, total) ==
    LET p == src.rfqs[r].pr
        q == NextNo(src, "quote")
        n == NextApproval
    IN
    /\ Idle
    /\ q <= MaxQuotes
    /\ n <= MaxApprovals
    /\ \/ /\ ~OverBudget(total)
          /\ src' = AddQuote(src, r, vendor, total)
          /\ Begin(p, Flush, NoClose, None, None)
          /\ UNCHANGED apr
       \/ /\ OverBudget(total) /\ CanSelfApprove(role)
          /\ src' = AddQuote(src, r, vendor, total)
          /\ Begin(p, FlushCloseFlush,
                   [kind |-> "record",
                    approval |-> Approval("quote_above_budget", r, None, vendor,
                                          total, "auto_approved", q)],
                   None, n)
          /\ UNCHANGED apr
       \/ /\ OverBudget(total) /\ ~CanSelfApprove(role)
          /\ apr' = Put(apr, n, Approval("quote_above_budget", r, None, vendor,
                                         total, "pending", None))
          /\ Begin(p, Flush, NoClose, None, None)
          /\ UNCHANGED src
    /\ UNCHANGED <<owed, faults>>
    /\ Untouched

\* POST /api/rfqs/{rfq_no}/award -> gate_award.  The request may name any
\* quote number, also one of another RFQ or one not handed out yet.
AwardH(role, r, q, winner) ==
    LET p     == src.rfqs[r].pr
        kind  == Gate(r, q, winner)
        known == q \in QuotesOf(src, r)
        made  == Award(src, r, q)
        po    == PoForAward(made, made.counter.award)
        n     == NextApproval
        asked == Approval(kind, r, q, None, AwardValue(r, q), "pending", None)
    IN
    /\ Idle
    /\ n <= MaxApprovals
    /\ src.counter.award < MaxAwards
    /\ \/ /\ kind = "none" /\ known
          /\ src' = made
          /\ Begin(p, Flush, NoClose, po, None)
          /\ UNCHANGED <<apr, owed>>
       \/ /\ kind # "none" /\ CanSelfApprove(role) /\ known
          /\ src' = made
          /\ owed' = owed \cup {n}
          /\ Begin(p, FlushCloseFlush,
                   [kind |-> "record",
                    approval |-> [asked EXCEPT !.status = "auto_approved",
                                               !.result = po]], po, n)
          /\ UNCHANGED apr
       \/ /\ kind # "none" /\ CanSelfApprove(role) /\ ~known
          /\ apr' = Put(apr, n, [asked EXCEPT !.status = "auto_approved"])
          /\ Begin(p, Flush, NoClose, None, None)
          /\ UNCHANGED <<src, owed>>
       \/ /\ kind # "none" /\ ~CanSelfApprove(role)
          /\ apr' = Put(apr, n, asked)
          /\ Begin(p, Flush, NoClose, None, None)
          /\ UNCHANGED <<src, owed>>
    /\ UNCHANGED faults
    /\ Untouched

\* A restored approval may name an RFQ that its own file never got.
PrOfRfq(r) == IF r \in DOMAIN src.rfqs THEN src.rfqs[r].pr ELSE None

\* decide answers a decided approval unchanged.
MayDecide(a) == apr[a].status = "pending"

\* The payload's committer: what it does to the store, and the reference it
\* returns; None when it raises.
Committed(a) ==
    LET p == apr[a] IN
    CASE p.rfq \notin DOMAIN src.rfqs -> [src |-> src, result |-> None]
      [] p.kind = "quote_above_budget" /\ p.rfq \in DOMAIN src.rfqs ->
           [src |-> AddQuote(src, p.rfq, p.vendor, p.total),
            result |-> NextNo(src, "quote")]
      [] /\ p.kind \in AwardKinds
         /\ p.rfq \in DOMAIN src.rfqs
         /\ p.quote \in QuotesOf(src, p.rfq) ->
           LET made == Award(src, p.rfq, p.quote)
           IN  [src |-> made, result |-> PoForAward(made, made.counter.award)]
      [] OTHER -> [src |-> src, result |-> None]

\* POST /api/approvals/{id}/approve and /reject.  The approval is approved
\* before its committer runs, and the committer flushes before the result is
\* known; a committer that raises leaves it approved without a result.
DecideH(a, approve) ==
    LET c == Committed(a)
        p == PrOfRfq(apr[a].rfq)
    IN
    /\ Idle
    /\ MayDecide(a)
    /\ \/ /\ ~approve
          /\ apr' = [apr EXCEPT ![a].status = "rejected"]
          /\ Begin(p, Flush, NoClose, None, a)
          /\ UNCHANGED <<src, owed>>
       \/ /\ approve /\ c.result = None
          /\ apr' = [apr EXCEPT ![a].status = "approved"]
          /\ Begin(p, Flush, NoClose, None, a)
          /\ UNCHANGED <<src, owed>>
       \/ /\ approve /\ c.result # None
          /\ src.counter.quote < MaxQuotes \/ apr[a].kind \in AwardKinds
          /\ src.counter.award < MaxAwards
          /\ apr' = [apr EXCEPT ![a].status = "approved"]
          /\ src' = c.src
          /\ owed' = IF apr[a].kind \in AwardKinds THEN owed \cup {a} ELSE owed
          /\ Begin(p, FlushCloseFlush,
                   [kind |-> "result", approval |-> a, result |-> c.result],
                   IF apr[a].kind \in AwardKinds THEN c.result ELSE None, a)
    /\ UNCHANGED faults
    /\ Untouched

-----------------------------------------------------------------------------
(* The rest of a handler *)

\* The lock: a flush waits for the snapshot thread.
LockFree == snap.phase = "idle"

\* The next step is done; after the last one the client has its answer.
Advance(todo) ==
    /\ job' = IF todo = <<>> THEN NoJob ELSE [job EXCEPT !.todo = todo]
    /\ answered' = IF todo = <<>> /\ job.answer # NoAnswer
                   THEN answered \cup {job.answer} ELSE answered

\* A file is truncated and then written.  Nothing reads it meanwhile, so a write
\* is one step; one that an error or a crash stops half way leaves the file cut.
Written(f, content) == [disk EXCEPT ![f] = content, !.cut = @ \ {f}]

CutShort(files) ==
    [src |-> IF "src" \in files THEN EmptyStore ELSE disk.src,
     apr |-> IF "apr" \in files THEN EmptyTable ELSE disk.apr,
     cut |-> disk.cut \cup files]

\* flush_critical writes approvals.json ...
FlushApprovals ==
    /\ up /\ job.todo # <<>> /\ Head(job.todo) = "apr"
    /\ LockFree
    /\ disk' = Written("apr", apr)
    /\ Advance(Tail(job.todo))
    /\ UNCHANGED <<src, apr, up, snap, unsaved, owed, torn, lost, faults>>

\* ... and then sourcing.json.
FlushSourcing ==
    /\ up /\ job.todo # <<>> /\ Head(job.todo) = "src"
    /\ disk' = Written("src", src)
    /\ unsaved' = FALSE
    /\ Advance(Tail(job.todo))
    /\ UNCHANGED <<src, apr, up, snap, owed, torn, lost, faults>>

\* A flush that raises before one of its two writes or half way through it; the
\* error is swallowed and the handler goes on.
FlushFails ==
    /\ up /\ job.todo # <<>> /\ Head(job.todo) \in {"apr", "src"}
    /\ Head(job.todo) = "apr" => LockFree
    /\ faults < MaxFaults
    /\ faults' = faults + 1
    /\ unsaved' = TRUE
    /\ disk' \in {disk, CutShort({Head(job.todo)})}
    /\ Advance(IF Head(job.todo) = "apr" THEN Tail(Tail(job.todo))
               ELSE Tail(job.todo))
    /\ UNCHANGED <<src, apr, up, snap, owed, torn, lost>>

\* After its first flush a handler records the approval it needed none for, or
\* the result of the one it decided.
Close ==
    /\ up /\ job.todo # <<>> /\ Head(job.todo) = "close"
    /\ apr' = IF job.close.kind = "record"
              THEN Put(apr, NextApproval, job.close.approval)
              ELSE [apr EXCEPT ![job.close.approval].result = job.close.result]
    /\ Advance(Tail(job.todo))
    /\ UNCHANGED <<src, disk, up, snap, unsaved, owed, torn, lost, faults>>

-----------------------------------------------------------------------------
(* The snapshot thread *)

\* A flush has taken the lock when its first file is written.
Flushing == job.todo # <<>> /\ Head(job.todo) = "src"

SnapMayStart == up /\ ~Flushing

\* _snap_sourcing starts to read.
SnapRead ==
    /\ SnapMayStart
    /\ snap.phase = "idle"
    /\ snap' = [phase |-> "reading", from |-> src]
    /\ UNCHANGED <<src, apr, disk, up, job, unsaved, owed, answered, torn, lost,
                   faults>>

Tables == {"prs", "rfqs", "quotes", "awards", "pos"}

\* What was read while a handler changed the tables: each as it was before or
\* after; the counter is read last, when the file is written.
MixedStore(old, later) ==
    [f \in DOMAIN src |-> IF f \in later \cup {"counter"} THEN src[f] ELSE old[f]]

\* _snap_sourcing writes sourcing.json.
SnapSourcing ==
    /\ up /\ snap.phase = "reading"
    /\ \E later \in SUBSET Tables :
          disk' = Written("src", MixedStore(snap.from, later))
    /\ snap' = [phase |-> "sourced"]
    /\ UNCHANGED <<src, apr, up, job, unsaved, owed, answered, torn, lost,
                   faults>>

\* _snap_approvals; the snapshot is complete.
SnapApprovals ==
    /\ up /\ snap.phase = "sourced"
    /\ disk' = Written("apr", apr)
    /\ snap' = NoSnap
    /\ UNCHANGED <<src, apr, up, job, unsaved, owed, answered, torn, lost,
                   faults>>

\* The snapshot raises; if in the middle of a write, the file stays cut.
SnapFails ==
    /\ up /\ snap.phase # "idle"
    /\ faults < MaxFaults
    /\ faults' = faults + 1
    /\ disk' \in {disk, CutShort({IF snap.phase = "reading" THEN "src" ELSE "apr"})}
    /\ unsaved' = (unsaved \/ disk' # disk)
    /\ snap' = NoSnap
    /\ UNCHANGED <<src, apr, up, job, owed, answered, torn, lost>>

-----------------------------------------------------------------------------
(* Crash and restart *)

\* Whoever is writing a file when the process dies leaves it cut.  The histories
\* end with a loss.
Crash ==
    /\ up
    /\ faults < MaxFaults
    /\ up' = FALSE
    /\ faults' = faults + 1
    /\ \E files \in {{}, {"src"}, {"apr"}} : disk' = CutShort(files)
    /\ lost' = \/ lost
               \/ disk'.cut # {}
               \/ unsaved /\ (disk.src # src \/ disk.apr # apr)
    /\ \/ lost' /\ owed' = {} /\ answered' = {} /\ torn' = {}
       \/ /\ ~lost'
          /\ torn' = IF job.todo # <<>> THEN torn \cup {job.pr} ELSE torn
          /\ UNCHANGED <<owed, answered>>
    /\ job' = NoJob
    /\ snap' = NoSnap
    /\ unsaved' = FALSE
    /\ src' = EmptyStore
    /\ apr' = EmptyTable

\* Fault: the approvals are not read back.
RestoredOrdersOnly == [disk EXCEPT !.apr = EmptyTable]

\* What restore_all reads back: half a sourcing.json stops it before anything is
\* read, half an approvals.json is passed over.
Restored == [disk EXCEPT !.apr = IF "src" \in disk.cut THEN EmptyTable ELSE @]

\* restore_all
Restart ==
    /\ ~up
    /\ up' = TRUE
    /\ src' = Restored.src
    /\ apr' = Restored.apr
    /\ owed' = {a \in owed : a \in DOMAIN Restored.apr}
    /\ UNCHANGED <<disk, job, snap, unsaved, answered, torn, lost, faults>>

Handler ==
    \/ CreatePrH
    \/ IssueRfqH
    \/ SapReleasesPr
    \/ \E role \in Roles, r \in DOMAIN src.rfqs :
          \/ \E vendor \in Vendors, total \in Totals :
                QuoteH(role, r, vendor, total)
          \/ \E q \in 1..MaxQuotes, winner \in Winners(r) :
                AwardH(role, r, q, winner)
    \/ \E a \in DOMAIN apr, approve \in BOOLEAN : DecideH(a, approve)

Next ==
    \/ Handler
    \/ FlushApprovals \/ FlushSourcing \/ FlushFails \/ Close
    \/ SnapRead \/ SnapSourcing \/ SnapApprovals \/ SnapFails
    \/ Crash \/ Restart

Spec == Init /\ [][Next]_vars

-----------------------------------------------------------------------------
(* Properties *)

ApprovalRow ==
    [kind : AwardKinds \cup {"quote_above_budget"}, rfq : Nat, quote : Nat,
     vendor : Vendors \cup {None}, total : Nat,
     status : {"pending", "approved", "rejected", "auto_approved"}, result : Nat]

RowsIn(table, rows) == \A k \in DOMAIN table : table[k] \in rows

StoreOK(s) ==
    /\ RowsIn(s.prs, PurchaseRequisition)
    /\ RowsIn(s.rfqs, RFQ)
    /\ RowsIn(s.quotes, Quote)
    /\ RowsIn(s.awards, AwardRow)
    /\ RowsIn(s.pos, SourcingPO)

\* The shape of the state, in memory and on disk.
TypeOK ==
    /\ StoreOK(src) /\ StoreOK(disk.src)
    /\ RowsIn(apr, ApprovalRow)
    /\ RowsIn(disk.apr, ApprovalRow)
    /\ disk.cut \subseteq {"apr", "src"}
    /\ up \in BOOLEAN /\ unsaved \in BOOLEAN /\ lost \in BOOLEAN
    /\ snap.phase \in {"idle", "reading", "sourced"}
    /\ torn \subseteq 0..MaxPrs

\* No handler is half way, and no crash came while something was unsaved or in the
\* middle of a write.
Settled == up /\ job.todo = <<>> /\ ~lost

AwardsOf(q) == {a \in DOMAIN src.awards : src.awards[a].quote = q}

OwedFor(q) == {n \in owed : apr[n].quote = q}

WholePr(p) == p \notin torn

\* flush_critical and the snapshot thread write the same two files: between
\* handlers the files hold what memory holds, unless the last flush failed or a
\* snapshot's write did.  A snapshot that began before a handler never overwrites
\* what it flushed.
SavedAtRest ==
    Settled /\ ~unsaved => disk = [src |-> src, apr |-> apr, cut |-> {}]

\* The gate, the decision and the committer together: a quote at or above the
\* threshold is awarded once per decision taken for it, and no decision is
\* without its award, over any crash that cut no handler of its requisition
\* short (ApprovedMaterialises has those).
OneAwardPerDecision ==
    Settled =>
      \A q \in DOMAIN src.quotes :
         WholePr(src.rfqs[src.quotes[q].rfq].pr) =>
            /\ Cardinality(AwardsOf(q)) >= Cardinality(OwedFor(q))
            /\ src.quotes[q].total >= Threshold =>
                  Cardinality(AwardsOf(q)) = Cardinality(OwedFor(q))

\* decide and gate_award find the order they made through the requisition's
\* po_no: the order an approval names is the one its own award made, also when
\* the requisition has been awarded before.
DecisionNamesItsOrder ==
    Settled =>
      \A n \in owed : WholePr(PrOfRfq(apr[n].rfq)) =>
         /\ apr[n].status \in Favourable
         /\ apr[n].result \in DOMAIN src.pos
         /\ src.awards[src.pos[apr[n].result].award].quote = apr[n].quote
         /\ \A m \in owed \ {n} : apr[m].kind \in AwardKinds =>
               apr[m].result # apr[n].result

\* What a client was told survives a crash: the order is still there and the
\* approval still decided, unless a crash came while a flush had failed, or left
\* one of the two files half written or found it so; of what comes after such a
\* crash nothing is said.
AnswersStand ==
    up /\ ~lost =>
      \A told \in answered :
         /\ told.pos # None => told.pos \in DOMAIN src.pos
         /\ told.decision # None =>
               /\ told.decision \in DOMAIN apr
               /\ apr[told.decision].status # "pending"

\* Every order traces back through its award to the quote it was made from,
\* and its requisition names the latest of its orders.
PoTraceable ==
    Settled =>
      \A n \in DOMAIN src.pos : WholePr(src.pos[n].pr) =>
         LET po == src.pos[n]
             aw == src.awards[po.award]
         IN  /\ aw.rfq = po.rfq /\ aw.pr = po.pr
             /\ src.rfqs[po.rfq] = [pr |-> po.pr, status |-> "awarded"]
             /\ src.quotes[aw.quote] =
                  [rfq |-> po.rfq, vendor |-> po.vendor, total |-> po.value]
             /\ \A m \in DOMAIN src.pos \ {n} : src.pos[m].award # po.award
             /\ src.prs[po.pr].po >= n
             /\ src.pos[src.prs[po.pr].po].award = src.prs[po.pr].award

\* approvals.py says of a pending approval that a head "later approves it, the
\* registered committer replays the payload, and the resource (PO, quote)
\* materialises".  approvals.json is written before sourcing.json, so a crash
\* between the two leaves an approval approved that has no order, and deciding
\* it again does nothing.
ApprovedMaterialises ==
    up /\ job.todo = <<>> =>
      \A n \in owed : apr[n].status = "approved" => AwardsOf(apr[n].quote) # {}
=============================================================================
