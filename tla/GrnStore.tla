------------------------------- MODULE GrnStore -------------------------------
(***************************************************************************)
(* The goods-receipt tables of store.db and the photo directory            *)
(* (app/store/db.py), and the transactions app/store/grn.py,               *)
(* app/store/matching.py and app/store/extraction.py run on them.  What a  *)
(* transaction reads from the in-memory purchase orders comes in as the    *)
(* parameter pos.                                                          *)
(***************************************************************************)
EXTENDS PurchaseOrder, FiniteSets, FiniteSetsExt

CONSTANTS
    GrnIds,      \* receipts a field device may capture
    LineNos,     \* line numbers of a receipt
    POs,         \* purchase orders the sourcing store knows
    UnknownPOs,  \* PO numbers a request may name that no store knows
    Devices,     \* capture devices
    SequenceNos, \* per-device sequence numbers
    Photos,      \* photo contents (a digest stands for the content)
    Qtys,        \* quantities a line may carry
    Routes,      \* how receipts of this site are banded, see SyncOutcomes
    None         \* NULL: no line, no PO, no file, no open transaction

\* How the lines of a sync are banded: free-issue material against no PO,
\* keyed lines at once (vision is off), or by the extraction worker.
AllRoutes == {"free_issue", "keyed", "vision"}

ASSUME StoreConstants ==
    /\ LineNos \subseteq Nat
    /\ Qtys \subseteq Nat
    /\ SequenceNos \subseteq Nat
    /\ Routes \subseteq AllRoutes
    /\ POs \cap UnknownPOs = {}
    /\ None \notin GrnIds \cup POs \cup UnknownPOs \cup Devices \cup Photos
    /\ None \notin [po : POs \cup UnknownPOs \cup {None}, qty : Nat, over : BOOLEAN]
    /\ None \notin [po : POs \cup UnknownPOs \cup {None}, qty : Qtys]

\* Line numbers are SQLite integers: there are finitely many.
ASSUME FiniteLines == IsFiniteSet(LineNos)

VARIABLES
    grn,        \* GrnIds -> header row
    lines,      \* GrnIds -> LineNos -> line row or None
    ledger,     \* GrnIds -> LineNos -> quantity the stock ledger holds for it
    deliveries, \* POs -> vendor_deliveries row: none | open | full
    lastSeq,    \* Devices -> capture_devices.last_sequence_no
    photos,     \* GrnIds -> content of media/<tenant>/<grn_id>.jpg
    upload      \* the sync transaction that holds the SQLite write lock

storeVars == <<grn, lines, ledger, deliveries, lastSeq, photos, upload>>

PoRefs == POs \cup UnknownPOs \cup {None}

Banded == {"matched", "suggested", "triage"}
Closed == {"confirmed", "cancelled"}
Statuses == {"none", "captured"} \cup Banded \cup Closed
ExtractionStatuses == {"skipped", "pending", "running", "done", "failed"}

\* grn_lines: the PO the line is posted to, the quantity received, the flag.
Line == [po : PoRefs, qty : Nat, over : BOOLEAN]
LineTable == [LineNos -> Line \cup {None}]

GrnRow == [st : Statuses, ext : ExtractionStatuses, dev : Devices \cup {None},
           seq : Nat, photo : Photos \cup {None}, no : Nat, stamped : BOOLEAN]

NoRow == [st |-> "none", ext |-> "skipped", dev |-> None, seq |-> 0,
          photo |-> None, no |-> 0, stamped |-> FALSE]

StoreInit ==
    /\ grn = [g \in GrnIds |-> NoRow]
    /\ lines = [g \in GrnIds |-> [l \in LineNos |-> None]]
    /\ ledger = [g \in GrnIds |-> [l \in LineNos |-> 0]]
    /\ deliveries = [p \in POs |-> "none"]
    /\ lastSeq = [d \in Devices |-> 0]
    /\ photos = [g \in GrnIds |-> None]
    /\ upload = None

Stored(g) == grn[g].st # "none"

\* Pre-confirm states the extraction worker may still write to.
Active(g) == grn[g].st = "captured"

\* Fault: only a rejected GRN is refused.
NotRejected(g) == grn[g].st \notin {"none", "cancelled"}

\* The header is neither absent nor closed: a confirm or a reject applies.
Awaiting(g) == grn[g].st \in {"captured"} \cup Banded

Present(ls) == {l \in LineNos : ls[l] # None}

\* Lines as captured or extracted: no PO yet, any quantity.
CapturedTables ==
    {ls \in [LineNos -> [po : {None}, qty : Qtys, over : {FALSE}] \cup {None}] :
        \A l \in LineNos : ls[l] # None => \A k \in LineNos : k < l => ls[k] # None}

-----------------------------------------------------------------------------
(* Banding: matching.match_lines and matching.apply_bands                    *)

\* Whether match_lines may post the line to the PO automatically: an open PO
\* with room for the quantity.  The words of the line decide whether it does;
\* a line that received nothing is compared by its challan quantity, which is
\* left to that choice as well.
Matchable(line, po) ==
    /\ IsOpen(po)
    /\ 20 * line.qty <= RemainingTwentieths(po)

\* The header status for lines whose automatic matches are auto: matched when
\* all are, suggested when some are, else as the scores against the pool fall.
BandStatuses(ls, auto, pos) ==
    IF Present(ls) = {} THEN {"triage"}
    ELSE IF auto = Present(ls) THEN {"matched"}
    ELSE IF auto # {} THEN {"suggested"}
    ELSE IF \E p \in POs : IsOpen(pos[p]) THEN {"suggested", "triage"}
    ELSE {"triage"}

\* The best-scoring PO of each line, where the match is automatic.
BestMatches(ls, pos) ==
    {c \in [LineNos -> POs \cup {None}] :
        \A l \in LineNos : c[l] # None => l \in Present(ls) /\ Matchable(ls[l], pos[c[l]])}

Automatic(ls, c) == {l \in Present(ls) : c[l] # None}

BandedLines(ls, c) ==
    [l \in LineNos |-> IF l \in Present(ls) THEN [ls[l] EXCEPT !.po = c[l]] ELSE None]

\* Every (lines, status) the scoring of lines against the PO table can give.
Bandings(ls, pos) ==
    UNION {{[lines |-> BandedLines(ls, c), st |-> s] :
               s \in BandStatuses(ls, Automatic(ls, c), pos)} : c \in BestMatches(ls, pos)}

-----------------------------------------------------------------------------
(* Field sync: create_from_sync runs in a thread; its transaction is open,   *)
(* and the SQLite write lock taken, from the INSERT to the commit.           *)

\* Fault: the photo is written before the duplicate check.
AnyGrn(g) == TRUE

\* ON CONFLICT(grn_id) DO NOTHING, and UNIQUE(device_id, sequence_no): a
\* known GRN is answered as a duplicate and a used number refused with 409.
IsNewGrn(g) == ~Stored(g)
SequenceFree(d, n) ==
    \A g \in GrnIds : ~(Stored(g) /\ grn[g].dev = d /\ grn[g].seq = n)

\* The INSERT succeeded and the photo has been written; nothing is committed.
SyncInsert(d, g, n, photo, ls, route) ==
    /\ upload = None
    /\ IsNewGrn(g)
    /\ SequenceFree(d, n)
    /\ photos' = [photos EXCEPT ![g] = photo]
    /\ upload' = [grn |-> g, dev |-> d, seq |-> n, photo |-> photo,
                  lines |-> ls, route |-> route]
    /\ UNCHANGED <<grn, lines, ledger, deliveries, lastSeq>>

\* The status, extraction status and lines the transaction ends with.
SyncOutcomes(u, pos) ==
    CASE u.route = "free_issue" ->
           {[st |-> IF Present(u.lines) = {} THEN "triage" ELSE "suggested",
             ext |-> "skipped", lines |-> u.lines]}
      [] u.route = "vision" ->
           {[st |-> "captured", ext |-> "pending", lines |-> u.lines]}
      [] u.route = "keyed" ->
           {[st |-> b.st, ext |-> "skipped", lines |-> b.lines] :
              b \in Bandings(u.lines, pos)}

\* Fault: the last number that arrived, not the largest.
LatestNumber(d, n) == n

\* capture_devices.last_sequence_no after a sync.
Watermark(d, n) == Larger(lastSeq[d], n)

SyncCommit(pos) ==
    /\ upload # None
    /\ \E out \in SyncOutcomes(upload, pos) :
          /\ grn' = [grn EXCEPT ![upload.grn] =
                        [st |-> out.st, ext |-> out.ext, dev |-> upload.dev,
                         seq |-> upload.seq, photo |-> upload.photo,
                         no |-> 0, stamped |-> FALSE]]
          /\ lines' = [lines EXCEPT ![upload.grn] = out.lines]
    /\ lastSeq' = [lastSeq EXCEPT ![upload.dev] = Watermark(upload.dev, upload.seq)]
    /\ upload' = None
    /\ UNCHANGED <<ledger, deliveries, photos>>

\* An exception inside the transaction (a repeated line number breaks
\* UNIQUE(grn_id, line_no)): rolled back, the photo file stays.
SyncRollback ==
    /\ upload # None
    /\ upload' = None
    /\ UNCHANGED <<grn, lines, ledger, deliveries, lastSeq, photos>>

-----------------------------------------------------------------------------
(* Confirm and reject                                                        *)

\* What a confirm request may say about a line, and the requests for a GRN.
RequestLine == [po : PoRefs, qty : Qtys]
Requests(g) ==
    {req \in [LineNos -> RequestLine \cup {None}] :
        \A l \in LineNos : req[l] # None => lines[g][l] # None}

\* _confirm_line_values: an omitted line keeps its quantity and loses its PO.
ConfirmedPo(req, l) == IF req[l] = None THEN None ELSE req[l].po
ConfirmedQty(g, req, l) == IF req[l] = None THEN lines[g][l].qty ELSE req[l].qty

\* _submitted_keys and _stored_keys: what a request claims, what is on file.
Claim(g, req) ==
    [l \in Present(lines[g]) |-> <<ConfirmedPo(req, l), ConfirmedQty(g, req, l)>>]
OnFile(g) == [l \in Present(lines[g]) |-> <<lines[g][l].po, lines[g][l].qty>>]

\* Fault: compared with the ordered quantity, whatever was received before.
OverOrdered(po, qty) == 20 * qty > 21 * po.quantity

\* over_receipt: more than the headroom the PO had when the material arrived.
OverReceipt(po, qty) == 20 * qty > RemainingTwentieths(po)

ConfirmedLines(g, req, pos) ==
    [l \in LineNos |->
        IF lines[g][l] = None THEN None
        ELSE LET po == ConfirmedPo(req, l)
                 qty == ConfirmedQty(g, req, l)
             IN [po |-> po, qty |-> qty,
                 over |-> /\ po \in POs /\ Known(pos[po])
                          /\ OverReceipt(pos[po], qty)]]

\* Only a positive received quantity is posted to the ledger and to a PO.
LedgerQty(line) == IF line = None THEN 0 ELSE line.qty
Credits(ls) == {l \in Present(ls) : ls[l].po # None /\ ls[l].qty > 0}

CreditLines(ls, p) == {l \in Credits(ls) : ls[l].po = p}

\* Fault: the last line of a PO replaces what the others add to it.
LastQty(ls, p) ==
    MapThenSumSet(LAMBDA l : ls[l].qty,
                  {l \in CreditLines(ls, p) : \A k \in CreditLines(ls, p) : k <= l})

\* po_qty_totals: what the lines of the GRN add to a PO together.
AddedQty(ls, p) == MapThenSumSet(LAMBDA l : ls[l].qty, CreditLines(ls, p))

\* vendor_deliveries upsert: opened by the first receipt, completed when the
\* predicted total reaches the ordered quantity.
DeliveryRow(p, ls, pos) ==
    IF CreditLines(ls, p) = {} \/ deliveries[p] = "full" \/ ~Known(pos[p])
    THEN deliveries[p]
    ELSE IF WillBeDelivered(pos[p], AddedQty(ls, p)) THEN "full"
    ELSE "open"

\* Fault: the largest number given out is given out again.
LastGrnNos == {n \in {grn[h].no : h \in GrnIds} : \A h \in GrnIds : grn[h].no <= n}

\* _next_grn_no: one more than the largest number given out, over all tenants.
NextGrnNos ==
    {n \in {grn[h].no + 1 : h \in GrnIds} : \A h \in GrnIds : grn[h].no < n}

\* Fault: closing leaves the extraction as it was.
SameExtraction(ext) == ext

\* A closed GRN does not wait for its extraction any more.
ClosedExtraction(ext) == IF ext \in {"pending", "running"} THEN "skipped" ELSE ext

ClosedRow(row, st, no) ==
    [row EXCEPT !.st = st, !.no = no, !.ext = ClosedExtraction(row.ext)]

\* confirm_grn up to its commit.
ConfirmTransaction(g, req, pos) ==
    /\ upload = None
    /\ Awaiting(g)
    /\ lines' = [lines EXCEPT ![g] = ConfirmedLines(g, req, pos)]
    /\ ledger' = [ledger EXCEPT ![g] =
                    [l \in LineNos |-> @[l] + LedgerQty(lines'[g][l])]]
    /\ deliveries' = [p \in POs |-> DeliveryRow(p, lines'[g], pos)]
    /\ \E n \in NextGrnNos :
          grn' = [grn EXCEPT ![g] = ClosedRow(@, "confirmed", n)]
    /\ UNCHANGED <<lastSeq, photos, upload>>

\* Fault: rejection writes the reserved status superseded.
Supersede(g) ==
    /\ upload = None
    /\ Awaiting(g)
    /\ grn' = [grn EXCEPT ![g].st = "superseded"]
    /\ UNCHANGED <<lines, ledger, deliveries, lastSeq, photos, upload>>

\* reject_grn.
RejectTransaction(g) ==
    /\ upload = None
    /\ Awaiting(g)
    /\ grn' = [grn EXCEPT ![g] = ClosedRow(@, "cancelled", @.no)]
    /\ UNCHANGED <<lines, ledger, deliveries, lastSeq, photos, upload>>

\* _stamp_effects_applied.
StampTransaction(g) ==
    /\ upload = None
    /\ grn' = [grn EXCEPT ![g].stamped = TRUE]
    /\ UNCHANGED <<lines, ledger, deliveries, lastSeq, photos, upload>>

-----------------------------------------------------------------------------
(* Extraction worker transactions                                            *)

\* The guarded UPDATE that opens a vision call.
MarkRunning(g) ==
    /\ upload = None
    /\ Active(g)
    /\ grn' = [grn EXCEPT ![g].ext = "running"]
    /\ UNCHANGED <<lines, ledger, deliveries, lastSeq, photos, upload>>

\* Lines end up banded and the extraction with the given status: vision off
\* ("skipped"), or a reply whose lines count only where none were keyed.
BandTransaction(g, ext, extracted, pos) ==
    /\ upload = None
    /\ Active(g)
    /\ \E b \in Bandings(IF Present(lines[g]) = {} THEN extracted ELSE lines[g], pos) :
          /\ grn' = [grn EXCEPT ![g].st = b.st, ![g].ext = ext]
          /\ lines' = [lines EXCEPT ![g] = b.lines]
    /\ UNCHANGED <<ledger, deliveries, lastSeq, photos, upload>>

\* The model answered nothing.
FailTransaction(g) ==
    /\ upload = None
    /\ Active(g)
    /\ grn' = [grn EXCEPT ![g].st = "triage", ![g].ext = "failed"]
    /\ UNCHANGED <<lines, ledger, deliveries, lastSeq, photos, upload>>
=============================================================================
