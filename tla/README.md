# Supply-chain control tower: formal models

TLA+ models, TLC runs and TLAPS proofs for the backend under `app/`. The code
is a single-worker FastAPI process. It keeps most stores as dictionaries in
memory, copies them to JSON files, and keeps the goods receipts of site stores
("Storemark", `app/store/`) in SQLite. Money and stock move where those three
meet; that is where the models began, and they now reach most of the stores.

`PROJECT.json` lists the components, the runs with their properties and
mutants, the map from definitions to source lines, the hazards, the findings
and the theorems.

## 1. Inventory

All routes are `async def` on one event loop, so a handler is atomic between
two `await`s. Concurrency comes from four threads: `create_from_sync` and
`vision_json` (both by `asyncio.to_thread`), `snapshot_all` (every 120 s), and
the agent's chat thread, which reads (and reseeds risks) beside the handlers.
SQLite has one writer at a time; `persistence._lock` excludes flush and
snapshot from each other.

| Component | State | Operations | Interacts with | What makes it hard | What makes it correct |
|---|---|---|---|---|---|
| `store/grn.py` | tables grn, grn_lines, stock_ledger, vendor_deliveries; photo files | sync, confirm, replay, reject, effects, stamp, startup sweep | sourcing POs, audit, logistics, matching | one transaction, then effects on memory and files that a crash can split; retries | posted or voided once; counted once; acknowledged claims stand; PO agrees with ledger |
| `store/matching.py` | none | bands, headroom, scores | sourcing POs | boundaries of the 5% headroom | bands follow the pool; no silent over-receipt |
| `store/extraction.py` | grn.extraction_status, tasks | run, resume | model call, matching | an `await` of seconds inside a read-modify-write | confirm and reject win; nothing stays unresolved |
| `store/devices.py` | devices, invites | invite, enrol, re-enrol, revoke | sync | a request outlives the token it came with | a receipt stays with the store it was taken at; watermark never falls |
| `store/routes.py`, `db.py`, `ledger.py` | none, schema, none | dispatch, create schema, aggregate | all of store | a thread's answer is acted on later | schedule only what is open |
| `sourcing.py` | PRs, RFQs, quotes, awards, POs | issue, quote, compare, award, submit, SAP events, receipts | approvals, audit, SAP adapter | two receipt channels, late events, second awards | every order traces to one award; PO status follows quantities |
| `approvals.py` | approvals per tenant | gate, decide, commit | sourcing, vendors | payload frozen at request, failure swallowed, two files | one award per decision, which names its order |
| `integrations/sap_cpi.py` | SAP's documents | submit, read back | sourcing | lost answers, exceptions, resubmission, lost, reordered and repeated events | a reported receipt is counted on its order, once each time it arrives |
| `persistence.py` | nine JSON files and `.version` | flush_critical, snapshot_all, restore_all | all in-memory stores | non-atomic writes of several files, swallowed errors | what was flushed is not overwritten by older state; what was written out whole survives |
| `audit.py` | ring of 10 000 events | emit, query, chain | persistence, sourcing | the ring forgets; write-through inside every emit | events of finished work are durable and listed |
| `_cache.py` | TTL caches | cached reads, invalidate | every read model | a thread fills while a handler invalidates | nothing older than its time to live; own writes are read |
| `logistics.py`, `process_map.py` | shipment events | add_event, stages | sourcing, store | derived from four sources whose news come in any order | a line with an order is seen, and does not step back |
| `commercial.py` | none | lines, summary | sourcing | walks the store backward, newest first | names the orders the chain names |
| `risk_register.py` | risks | reseed, add, edit | sourcing, planning, persistence | two seeders, reseeding over edits, crash | one row per signal; answered edits survive |
| `planning.py`, `ingest.py` | projects, BOM, staged files | CRUD, preview and commit, plan | sourcing | another tenant's commit between preview and commit; partial commit | a project and its lines stay with a tenant; each line planned once |
| `tbe.py` | criteria, evaluations, weights | set, score, rank | sourcing quotes | stored scores under criteria that change | failing bids rank last; better never scores less |
| `vendor_store.py`, `vendor_intel.py` | vendors added | add, approve, remove, score | approvals | piecewise curves with an edge at every band | a better record never scores less |
| `expediting.py` | follow-ups | log, predict, queue | sourcing | three day counts, each with its boundaries | waiting never helps |
| analytics, simulations, portfolio, weekly plan, alerts | none | derived reads | all | none | - |
| auth, tenants, agent, llm | tokens, keys | checks, external calls | all | external answers | - |
| frontend | session, async hooks | pages | API | answers out of order | latest request wins |

`PROJECT.json` "hazards" lists what is hard to test, each at its line.

## 2. Modules

Goods receipts:

| Module | Models |
|---|---|
| `PurchaseOrder` | a PO record; `remaining_qty`, the matching pool, `apply_ct_receipt`, `_apply_to_po`, the prediction in `confirm_grn` |
| `GrnStore` | the tables and photo files, and each SQLite transaction run on them, as an action parameterised by the POs it reads |
| `GrnReceipt` | the process: composes the transactions with the event loop, the threads, the in-memory POs and audit log, the state files whole and cut, crashes and startup; properties and fairness |
| `ReceiptBook` | the abstract specification: captured, then posted or voided once; credits only from posted lines, never taken back one by one: they go together with the file they are in |
| `MCGrn` | the PO the runs start from and the symmetry set |
| `GrnProofs` | type correctness, the strengthening `Core`, safety theorems; what a stamp promises about the state files, that a receipt counts once, and that all this implements `ReceiptBook` |
| `GrnLedger` | the quantities: PO against stock ledger, over-receipts, predicted deliveries; proofs |
| `Sums` | lemmas about sums over finite sets, for `GrnLedger` and the proofs of the desk |

The commercial chain:

| Module | Models |
|---|---|
| `Sourcing` | the tables of `sourcing.py` and each of its operations, as functions from store to store |
| `Procurement` | the handlers over them: gate, decide, commit, the flushes in their order and their failures, the snapshot thread, files left cut, crash and restart, a late `pr_released` |
| `MCProcurement` | two vendors, one amount below the threshold and one at it, over the budget |
| `ProcurementProofs` | what each operation of `Sourcing` preserves and disturbs, the strengthening `IInv` and all six properties of the run |

The rest of the desk, a module for each component:

| Module | Models |
|---|---|
| `SapLink` | submission with lost and unreadable answers and with exceptions nobody catches, resubmission, SAP's documents, events lost, reordered and repeated, resync |
| `StateFiles` | all files of `persistence.py`: write as truncate and write, flush and snapshot under the lock, writes that fail, restore file by file, files that do not parse |
| `ReadCache` | `ttl_cache` and `invalidates_cache` in front of the shipment list, with the chat thread and `add_event` |
| `RiskRegister` | reseeding by the loop and the chat thread, people's rows and edits, the flush behind an answer and its failure, a file that is lost |
| `Planning` | projects, BOM upload and patch, two-step ingest, the procurement plan |
| `LineProgress` | the steps of one BOM line (`Sourcing` and `PurchaseOrder` again) and the stage the process map gives it |
| `LineViews` | the traceability chain and the commercial lines over the same line |
| `Devices` | invites, enrolment, revocation and the calls under way |
| `VendorMaster` | records, onboarding, the six scores with composite and grade |
| `BidEvaluation` | quote comparison, technical evaluation, combined ranking |
| `Expediting` | slip predictions of both kinds of orders, follow-ups, the queue |
| `AuditTrail` | the ring, its write-through and its failures, and the receipts a chain lists; confirms and the sweep may mix their events, which is more than an event loop lets them |
| `Desk` | all of these with their constants as parameters; a behaviour picks one of the components (`focus`) and takes its steps |
| `MCDesk` | small values of the constants |
| `DeskProofs` | for the cache, the register, the files, the SAP link, planning and devices: what `Desk` promises of them, for all values |
| `ScoreProofs` | the same of the bids, the queue and the vendors: their scores run the right way |
| `TraceProofs` | the same of a line, the views of it and the receipts listed from the audit log |
| `DeskTypes` | the type invariant of `Desk`, from the three |

`Desk` does not interleave components: no property relates two of them, and
each brings its own interleavings. Where components do interact on one state
they are composed: receipts, files and audit in `GrnReceipt`, approvals,
sourcing and files in `Procurement`, sourcing, receipts, evaluations and
shipments in `LineProgress`.

How the state corresponds to the code:

- `grn`, `lines`, `ledger`, `deliveries`, `lastSeq` are rows of `grn`,
  `grn_lines`, `stock_ledger`, `vendor_deliveries` and
  `capture_devices.last_sequence_no`. `photos` is the media directory. `upload`
  is the sync transaction that holds the write lock.
- `mem` is `sourcing._pos` with the set of audited GRNs, `disk` the same in
  `sourcing.json` and `audit.json`, `disk.cut` which of the two does not parse,
  `snap` what the snapshot thread has read. A PO that went with a cut sourcing.json
  has the status `lost`: no store knows its number.
- `job` is the one handler that has committed and goes on: the receipt loop,
  the emits, the flush (audit.json, then sourcing.json), the stamp. The handler
  does not give up the event loop there. It is cut into steps because a crash,
  the snapshot and sync threads can come in between.
- `task` is the extraction of a GRN: reported by its sync thread, queued,
  awaiting the vision call, or dead of an exception.
- `got` inside a PO, and `acked`, `torn`, `lapsed`, `faded`, are history the code
  does not keep: how often a receipt was accumulated, which claims were answered
  200, which GRNs a crash caught flushed but not stamped, which flushes failed,
  whose event the log has pushed out or a restart not read back.
- In `Procurement`, `src` and `apr` are the tables of `sourcing` and
  `approvals` in memory, `disk` their files, `job` the flushes and records a
  handler still has to do, `snap` the snapshot thread. `unsaved` says that the last
  flush failed or a snapshot has left a file cut. `owed` and `answered` are history:
  decisions taken and what clients were told. `lost` ends these histories: a crash
  came while something was unsaved, or left a file cut.
- In `StateFiles`, a store is the set of facts put into it, `file[s]` what its
  file holds or that it is torn, `promised` what a flush or a snapshot has written
  out whole, `cut` the files a crash has found half written.
- `SapLink.ent` is our document with the number it last got from SAP,
  `docs` SAP's own documents, `inbox` the events under way, `repeated` the quantity
  that has arrived again.
- `ReadCache.version` counts changes of what the list shows, so that a cached
  value is the version it was computed from. `chat` is the other thread at its
  clock reading, its computing, or its storing.
- `RiskRegister.seeding` has for each seeder what it has collected; `rows` is
  `_risks`, `riskFile` is risks.json; `told` is what clients were told they had set,
  `kept` as much of it as the file holds.
- `LineProgress.orders` joins to each PO its quantities and status in the
  terms of `PurchaseOrder`; `Stage` is computed, as in the code.
- `Devices.calls` are requests whose token was accepted and whose handler has
  not written yet; `issued` is history.
- `BidEvaluation.under` (the criteria a score was given under) is history; all
  else is `_criteria_by_rfq`, `_evaluations`, `_weights` and the quotes.
- `AuditTrail.events` is `_events`, `effects` where the events of a GRN are;
  `unfiled` and `forgotten` are the GRNs whose events a failed write has kept from
  the file, and those a restart has lost.

Operations that change nothing are not actions: a duplicate upload, a 409 for a
used number, 404 and 422 on confirm, and a confirm or reject that cannot get
the write lock.

### Abstractions

- Quantities are naturals. The 5% headroom is exact, counted in twentieths;
  the code multiplies floats by 1.05.
- Matching scores are nondeterministic among the POs of the pool; the bands
  that follow from them are not. What match_lines reads of the POs it reads at
  once, at the commit; the bands are advice and confirm computes its own.
- Damaged and rejected quantities travel with the received one and are left
  out; a content digest is the content.
- Several emits of one confirm, each with a flush of the same state, are one
  emit and one flush: the later flushes repeat the first. They fail together, before
  a file or half way through it.
- Devices keep their watermark for good in `GrnStore`; `Devices` has the
  re-enrolment, without watermarks.
- Tenants and stores are the guards of 404 answers; a PO of another tenant is
  one no store knows (`UnknownPOs`).
- `in_transit` POs, `extracting` and `superseded` GRNs are named by the code
  and never produced. In `GrnReceipt` SAP events that do not change quantity or
  status (po_blocked, ir_posted) and the admin resync are left out; `SapLink`
  has po_blocked and the resync.
- `StateFiles` has the truncation of a file as a step of its own. The other modules
  write a file in one step, because nothing reads it in between, and give every
  write the outcomes that differ: whole, failed before it, and cut by an error or
  by a crash, with what `restore_all` then makes of a file that does not parse. A
  crash may cut a file also when the component has no write under way, since other
  handlers write the same files.
- In `GrnReceipt` the audit log is a set, from which any append may push events out
  (`PushedOut`); `AuditTrail` has the ring. POs are not created while receipts arrive
  (`LineProgress` has that), so that one lost with sourcing.json is not made again
  under its old number.
- In `Procurement` the histories end with a loss (`lost`): a store that lost rows
  gives their numbers out again, and nothing is claimed of what comes after.
- Which vendor a comparison recommends is nondeterministic in `Procurement` and
  computed in `BidEvaluation`.
- SAP never gives a number out twice (live mode). Its events carry no identity, so
  that one that arrives again counts again: `repeated` in `QuantityConserved`.
- Scores are integers scaled to keep the code's rounding (tenths of a point,
  hundredths of a weight); days and amounts are small numbers, the long-lead
  threshold and the cache's seconds scaled to them.
- `LineProgress` reads the shipments as they are; the process map reads the cached
  list, so that a late store of the chat thread can show a line further back for
  the list's time to live (`ReadCache` says how long).
- A vendor's category is fixed, where its record's can be edited: the peers its
  spend is compared with are then others. `Expediting` has the slip probability and
  not `predicted_slip_days`.
- `EnrolDevice` is one step: the route reads the invite and writes the device without
  an `await` on the event loop. So is the commit of an ingest: rows are checked when
  they are staged, and the loops over them meet nothing that raises; the supplier
  sheet is left out.
- Requests are authenticated; roles and tenants are modelled where a decision
  depends on them (who may approve, whose project).

## 3. Runs

| Run | Properties | Bounds and why they are enough |
|---|---|---|
| `effects` | TypeOK, PoMatchesLedger, DeliveryPrediction, AckedClaimsStand | two GRNs, one line each of 1 or 2 on one PO of 2: part, exactly full and overfull; one SAP event in between; one crash at any step |
| `restarts` | StampedIsDurable, CreditedOnce, BookSpec | two crashes, so that one can fall into the other's sweep; one failed flush or cut snapshot; either file cut at each of them |
| `sync` | PhotoIsTheSyncedOne, WatermarkCoversRows, ClosedIsSettled, GrnNosDistinct | two devices, two numbers, two photos, two GRNs without lines: every collision of id, number and content |
| `lines` | OverReceiptIsFlagged, DeliveryPrediction | two lines of 1 or 2 in two GRNs on one PO of 2 and an unknown PO: a total of 0 to 8 against a headroom of 2.1 |
| `credited` | ConfirmedIsCredited | two GRNs, one crash anywhere, which may cut a file, fairness |
| `settles` | CapturedSettles | two GRNs, endless uploads taking the lock, one crash, fairness |
| `sweep` | SweepIdempotent (violated) | the smallest instance in which it fails |
| `procure` | TypeOK, SavedAtRest, OneAwardPerDecision, DecisionNamesItsOrder, AnswersStand, PoTraceable | one requisition and RFQ, two quotes, two approvals, two awards: a second award, an award of a quote that is not there yet, a stale approval; one crash, failed flush, cut snapshot or late release at any step, the snapshot thread throughout |
| `half_approved` | ApprovedMaterialises (violated) | the same instance |
| `desk` | a type invariant and eighteen more, one or two for each component | below |
| `snapshot` | SnapshotSurvives (violated) | the files, with shipment events among the changing stores |
| `chain` | DeliveredEndsChain (violated) | one line, one order |

The bounds of `desk`, by component:

| Component | Bound, and what it lets happen |
|---|---|
| `SapLink` | one PR, two POs of 2, two SAP documents, two events, one resync, one repeated receipt: a document forgotten after a lost answer or kept after an exception, events of either and of one that was never recorded |
| `StateFiles` | a critical and a non-critical store changing, two facts, two faults: an error or a crash tears a file, a crash comes after the half restore was flushed, or after an answer whose flush failed |
| `ReadCache` | one order, four ticks against a time to live of 2, three versions: an entry is stored late, expires, is replaced |
| `RiskRegister` | two signals that appear and vanish twice, one of a collector that may fail, one change by people, of a row of either kind, two crashes or failed writes: an answer after a failed flush and then a restart, an empty register whose counter starts again |
| `Planning` | two tenants naming each other's projects in three workbooks, two staged, three uploads; rows without id, date, milestone or project |
| `LineProgress`, `LineViews` | two requisitions and RFQs of the line, one order with every mix of receipts and events, or store steps alone, with three orders |
| `Devices` | two invites, devices, stores and calls, one receipt |
| `VendorMaster` | a record in every band of every curve |
| `BidEvaluation` | two bids from three vendors, criteria that change what is mandatory, zero lead times, the weight pairs 60:40 and 0:100 |
| `Expediting` | an order of each kind, every status, a need-date that comes and passes or none, twenty days in spans of four |
| `AuditTrail` | a ring of 2, a query limit of 1, four events of two GRNs that share an order, two crashes or failed writes: a GRN stamped after a failed flush and then a restart, events pushed out by the ring or by the limit |

`desk` has a VIEW, `AsFarAsRead`. It leaves out the components that are not in focus,
which stay at their only initial state, the SAP statuses, which no step of `SapLink`
and no property but the type invariant reads, and of the time a seed was collected
at all but whether it is the present one, which is all that is ever asked of it.

`procure`, `desk` and the three runs over their instances say
`CHECK_DEADLOCK FALSE`: their behaviours end where a bound is used up (no more
documents, days, uploads). The receipt runs check deadlock; there the system can
always snapshot.

Every property of a passing run is broken by a fault: an operator marked
"Fault" beside the definition it would replace, such as a flush that does not
wait for the snapshot, or a sweep that ignores the stamp.

What the properties say beyond the obvious:

- **PoMatchesLedger** relates two stores with separate transactions: the PO in
  memory against the stock ledger in SQLite, in every clean history and
  including crashes the sweep repairs.
- **DeliveryPrediction**: the delivery row is completed before the receipts
  are accumulated, and it is never revised, yet it agrees afterwards.
- **CreditedOnce** pins down the one window in which a receipt counts twice:
  after `sourcing.json` is written and before the stamp is committed. `torn`
  marks exactly the GRNs a crash caught there.
- **StampedIsDurable** is where flush, snapshot and stamp order meet. Its exceptions
  are the code's: a flush that failed unnoticed, a file left half written, a ring
  that forgets. Nothing else takes a stamped receipt or its event out of the files.
- **AckedClaimsStand** quantifies over what callers were told.
- **BookSpec** is refinement: through all phases, threads and crashes the store
  behaves as the receipt book.
- **OneAwardPerDecision** counts awards against decisions, through stale
  payloads, second awards, swallowed failures and crashes that cut no handler of
  the requisition short (those are `ApprovedMaterialises`); the quote's number
  may have been asked for before it was handed out.
- **AnswersStand**: through any number of failed flushes while the process runs, and
  over a crash, if the last flush had gone through and no file is cut.
- **DecisionNamesItsOrder**: the committer returns the order by way of the
  requisition, which a second award has moved.
- **SavedAtRest**: the snapshot reads the tables one after another, while
  handlers change them, and still never leaves an older copy behind.
- **PromisedSurvives** says exactly which torn files cost which stores what, and that
  a failed write costs nothing that an earlier one had written, unless a crash finds
  the file it has torn. What was answered after a failed flush is promised only from
  the next flush or snapshot on.
- **BoundedStaleness** and **ReadsOwnWrites**: the chat thread may store what a
  handler has just invalidated; it is never kept longer than it would have been.
- **OneRowPerSignal** depends on collecting without the lock and upserting with
  it; **AnsweredEditsSurvive** on what reseeding leaves alone, and holds until a crash
  whatever flushes fail, after one as far as the file had come.
- **QuantityConserved** is a balance over SAP's documents, the network and ours: a
  receipt is counted on its own order for each time it arrives. A second document
  for the same order, left by a lost answer or an exception, counts on it too.
- **LineNeverStepsBack** names the only steps after which a line may: a new
  requisition, RFQ or order, a rewritten BOM, goods said not to move any more,
  a delivered order released again.
- **ViewsNameTheSameOrders**: two readers that walk the same store in opposite
  directions agree.
- **BetterBidNeverScoresLess**, **BetterRecordNeverScoresLess** and
  **WaitingNeverHelps** are monotonicity of scores made of pieces: an edge on
  the wrong side of a band breaks them.
- **StampedReceiptIsTraced** is the most the ring can promise, and what failed writes
  take from it: a GRN is stamped also when the flush of its events has failed.

### Findings

- `sweep`: `startup_sweep` is documented as idempotent
  (`app/store/grn.py:592-594`). It is not for a GRN whose receipts had been
  flushed when the process died before the stamp: the receipt is accumulated
  twice.
- `half_approved`: an approved payload "materialises"
  (`app/approvals.py:14-16`), but the files of one flush are written approvals
  first: a crash between the two leaves the approval approved for good and its
  order unmade.
- `snapshot`: "Every in-memory store snapshots" and survives restarts
  (`README.md:161`); the shipment events do not, because `_snap_logistics`
  looks for a store that does not exist (`app/persistence.py:197`).
- `chain`: the traceability chain runs "to delivery" (`app/schemas.py:687`), but
  a delivered order is not in the list its shipment is looked up in
  (`app/logistics.py:324`).

Met while modelling, and visible in the formulas as exceptions or abstractions:

- A crash inside the writing of `sourcing.json` stops the next restore there,
  and vendors and approvals, restored later, start empty
  (`app/persistence.py:361-369`, 436): `Exposed` in `PromisedSurvives`, `disk.cut` in
  `GrnReceipt` and `Procurement`. The next flush then writes the empty stores out.
- A flush that fails is swallowed (`app/persistence.py:390-393`): the handler answers
  and the GRN is stamped, and what they stand for is gone with the next restart
  unless a later write goes through: `lapsed`, `lost`, `kept`, `forgotten`.
- A reply of SAP that is cut short, or is JSON but no object, raises past the
  `except` (`app/integrations/sap_cpi.py:325`) and leaves the document `submitting`
  with its old number: `Raised` in `SapLink`.
- The resync route adds what SAP answers to the order (`app/main.py:1660-1668`)
  rather than setting it: `resynced` in `QuantityConserved`.
- Scores given under criteria that were then changed are not looked at again
  (`app/tbe.py:194`), and with a commercial weight of zero a disqualified bid
  can rank first: the premises of `DisqualifiedRanksLast`.
- One bid with a lead time or price of zero takes that index out of the
  comparison for all bids (`app/sourcing.py:463`).
- A commercial line can show the value of a requisition's oldest order with the
  award of its newest (`app/commercial.py:46`): `ViewsNameTheSameOrders` says no
  more than the two agree on the orders.
- The chain shows the first award of each RFQ only (`app/audit.py:347`).
- Comments on the vendor curves give values the curves do not have
  (`app/vendor_intel.py:66`, 86): 80% on time scores 50, not 40; 5000 ppm
  scores 10, not 0.
- An older invite of a device that was revoked reinstates it, until it expires.
- SAP events do not clear the read caches; they show when those expire.
- `planning` marks a missing specification as blocking
  (`app/planning.py:1114`); `create_pr` does not ask.

### Fairness

`FairSpec` of `GrnReceipt` assumes only what the process owes itself.

- WF: a thread's open transaction ends, a snapshot under way ends, startup
  goes on.
- SF: the current handler's next effect and each extraction task's next step.
  They need the file lock or the write lock, which a snapshot or sync thread
  may take again and again, but both locks are given back every time and the
  waiter polls for them. A step of a task also needs a moment between handlers.

No client request, SAP event, crash or failure is ever owed. A task that raised
is exempt from `CapturedSettles`, since the code leaves it to a restart.
`credited` allows no failed flush: a swallowed failure really can lose the
receipt, which the exemption in its formula and in `StampedIsDurable` records. Its
crash may cut sourcing.json: the receipt's order is then known to nobody, the sweep
passes it over, and the formula exempts it.
The other modules state no fairness: nothing in them runs of its own accord but
the snapshot, and what they promise is safety.

## 4. Proofs

Proved for every set of GRNs, lines, POs, devices, vendors, signals, stores and
so on, and for every bound. Each module names what it assumes of its constants,
and TLC evaluates all of it on the instances:

- `StoreConstants`, `ReceiptConstants`, `NoneIsNoJob`, `AmountsAreNat`,
  `BoundsAreNat`: quantities, amounts, numbers and bounds are naturals; NULL is
  none of the other values, nor a handler's job.
- `FiniteLines`: line numbers are SQLite integers, so there are finitely many
  and what is posted to a PO can be added up.
- `SapConstants`: SAP's documents are numbered.
- `RiskConstants`: the signals of a day are finitely many, and none of them is
  the mark of a row a person made; its bounds are naturals.
- `CacheConstants`: time is counted in whole steps; the list has a version.
- `FileConstants`: the stores that change are stores.
- `VendorConstants`: records are of whole numbers, where the run tries one value
  in every band.
- `QueueConstants`: days are whole numbers, and the number of flags on a vendor
  is not negative. With enough negative flags a slip probability would sink
  under the floor a follow-up takes it to, and waiting could help.
- `FocusConstants`: the components a behaviour may pick are those there are.
- `PlanConstants`: projects to begin with have ids of projects, a tenant and
  finitely many dated milestones; files have rows of the cells a row has, each
  file finitely many, and the ids they name are ids of projects.
- `BidConstants`: amounts, days, scores and weights are whole numbers, criteria
  are finitely many, of weights in 0..100, and their ids are strings.
- `LineConstants`: amounts and the bound on receipts are whole numbers.
- `TrailConstants`: a GRN has a number and a list of orders, and the ring holds
  at least one event, as the code's does.

Two theorems have a premise of their own, which they state: `ViewsAgree` that no
amount is 0, `FailingBidsRankLast` that `ReliabilityCounts`. `TheoremPremises` in
`MCDesk` has TLC check both on the run's instance.

| Theorem | Says |
|---|---|
| `TypeCorrect` | every reachable state is well typed |
| `ClosedStaysSettled` | a closed GRN has no extraction pending or running |
| `GrnNosUnique` | numbers belong to confirmed GRNs, each to one |
| `PhotoStays` | the photo is the one the row was synced with |
| `WatermarkIsSafe` | watermarks cover the rows; numbers of a device are distinct |
| `AckedStands` | acknowledged claims stay on file |
| `StampIsSafe` | stamped effects stay in the state files, unless their flush failed, a file was cut or the ring forgot the event |
| `CountsOnce` | a PO accumulates a receipt once, unless a crash hit the one window |
| `LedgerMatches` | a PO's site quantity is the sum of the stock ledger over the lines posted to it |
| `OverReceiptsShow` | receipts beyond the headroom of a PO are flagged |
| `DeliveriesComeTrue` | a delivery recorded as full is, and a PO that sites filled has one |
| `ImplementsBook` | the receipts, through all threads, failed writes and crashes, are a receipt book |
| `TypesHold` | sourcing store and approvals are well typed, in memory and on disk |
| `RestIsSaved` | between handlers the files hold what memory holds |
| `AnswersHold` | what a client was told stands through failed flushes, and survives a crash that finds it saved and no file cut |
| `AwardsMatchDecisions` | as many awards as decisions |
| `DecisionsNameOrders` | an approval names the order of its own award |
| `OrdersTrace` | every order traces to its award, quote, RFQ and requisition |
| `NothingStaleIsShown` | a hit is never staler than the time to live |
| `WritersSeeTheirWrites` | a hit after a write shows it, but for the one late store |
| `OneRowHolds` | one row of a signal |
| `EditsSurvive` | answered edits survive reseeds and failed flushes, and crashes as far as the file had come |
| `LiveRowsAreSignals` | after a seed the live rows are the day's signals |
| `PromisesKept` | what a flush or snapshot wrote out whole is there, through later failures and crashes, unless a crash found a file cut |
| `NothingCountedElsewhere` | an order shows what SAP posted for its documents, no more and no less, but for events under way, missed or repeated |
| `TimeNeverHelps` | the slip probability of an open order never falls |
| `ProjectsStay` | projects and lines stay with their tenant |
| `EveryLineIsPlaced` | the plan has every line in one package, that of the right milestone, and its counts add up |
| `DevicesTyped` | invites, devices, calls and receipts are well typed |
| `ReceiptsStayAtTheirStore` | a receipt belongs to the device and store its token was issued for |
| `VendorsTyped` | every score of a vendor is in 0..100, every grade one of five |
| `BetterRecords` | a record nowhere worse never scores or grades less |
| `BetterBids` | a bid nowhere worse never has the lower combined score |
| `FailingBidsRankLast` | a failing bid ranks below every qualified one, if no vendor's reliability rounds away |
| `OrdersAreSeen` | a line with an order is shown with it |
| `LinesMoveOn` | a line does not move back on the map by itself |
| `ViewsAgree` | summary, commercial line and chain name the same orders, if no amount is 0 |
| `StampedReceiptsTraced` | a stamped GRN is listed for its orders until newer events push it out, unless a restart did not find its events in the file |
| `DeskTyped` | every component of the desk is well typed, and what the queue and the bid evaluation show is in range |

### Goods receipts

`TypeOK` is not enough: `Core` adds `UploadFresh` (an open upload
is for a GRN and number nobody has, since it holds the write lock) and
`JobOwes` (the effects in progress belong to a confirmed GRN and are lines it
credits). `CoreHolds` proves it invariant. `StepKeeps` says what a step cannot
do to a header, `HeaderStep` lists the four ways a header changes; each theorem
adds its own conjunct to `Core` and goes through those cases.

`StampIsSafe` needs to look ahead. `Durably` adds `Progress` (what has landed
at each phase of the effects), `SnapReads` (a snapshot holds POs only while it
writes sourcing.json) and `StampedInStores`: the event and receipts of a
stamped GRN are in memory, in the files **and in what a snapshot has read**, but
for POs that are lost in that copy and events that are gone from that log.
Without the last part a snapshot could write an old copy; with it
`InStoresStep` shows no step takes anything out, a crash included, because
memory is then read from the files. The flush starts with no snapshot at work
and the snapshot with no flush, which is what makes the third part true at the
stamp.

`CountsOnce` cannot be proved of memory alone, because a crash replaces memory
by the files and a snapshot replaces the files by what it has read: `Counted`
asks the same of all three copies (`CountedOnce`). To show that a receipt about
to be accumulated has not been, it adds `TodoUntouched` (a line the handler has
still to do has no receipt) and, for the handlers startup will begin,
`SweepUntouched`: an unstamped GRN that is not torn has no receipt in memory.
A crash establishes the latter by the very definition of `torn`; the sweep
keeps it because it meets no open upload, so its stamp cannot find the database
locked and leave a GRN accumulated but unstamped behind.

`ImplementsBook` maps a GRN to its page by its status and its credits to what
`sourcing.json` holds. That posted and void are final is `HeaderStep`. A write that
cuts sourcing.json takes all credits together (`LoseCredits` of the book). That no
other step takes one out is not plain: a crash takes nothing from a whole file, but
the flush writes memory and the snapshot what it has read, and each would
take back what the other has just written. `Mirrored` says why they do not:
what the file holds is below what memory holds and below what a snapshot that
is still to write sourcing.json has read (`DiskBelow`); a flush of sourcing.json
and a snapshot are never both under way (`LockOne`). That a credit is of a posted
line is `Counted` with `Unposted`: nothing is in the ledger before the confirm.

The three theorems of `GrnLedger` are about sums. `MapThenSumSet` is a choice
of a recursive function, of which the provers know nothing; `Sums` shows that
such a function exists and that any two agree, and from there what adding,
removing or raising an element does (`TotalRemove`, `TotalMore`, `TotalRaised`,
`TotalPart`, `TotalJoin`). Where one would use induction over sets, it takes a
counterexample none of whose proper subsets is one (`LeastSet`) and shows that
it is none.

- `LedgerMatches`. `Summed` says of memory, files and snapshot alike that `ct`
  is what their receipts brought, each as often as it was counted; it holds in
  every state, torn or not, and of a lost PO, where both are 0. `Posted` ties the
  ledger to the lines and `AllLanded` says that receipts of a confirmed GRN nobody
  works on are in memory, on each PO memory knows. Without torn or lapsed GRNs each
  counts once (`CountsOnce`) and the two sums are the same one.
- `OverReceiptsShow`. The confirm compares with the memory of that moment, which
  a crash may later take back. `WithinHeadroom` therefore sums what memory
  counts **or will count at the sweep** (`Alive`): a crash leaves that sum as
  it is or lowers it. `OrderedStays` has the ordered quantity the same in every copy
  that knows the PO, and no copy knowing one that memory has lost, so that a PO does
  not come back with less counted than was posted to it.
- `DeliveriesComeTrue`. The prediction is written in the confirm's transaction,
  before the receipts. `PredictionsHold` relates it to the ledger, which is
  written with it, or to the SAP quantity **in every copy** that knows the PO
  (`Filled`), because a crash may leave any of them; `Saved` says that between
  handlers the copies of a clean history are the same, or cut.

### The commercial chain

`IInv` has four parts.

- `Stores`: three copies of the two tables, in memory, on disk and in what the
  snapshot thread has read, are each well typed with good references
  (`GoodStore`), and `Consistent`: as many awards as decisions, orders traced,
  approvals naming the order of their award. Consistency is asked outside the
  torn requisitions only, those whose handler a crash cut short.
- `JobOK`: what the handler under way still has to do is the rest of one of the
  two lists of flushes, and what it does in between is one award behind.
- `Lagging`: of each file, how far it is behind memory. As long as everything
  has been saved (`Whole`), disk and snapshot are `Behind` the store and
  `ApprovalsBehind` the approvals: rows are added, never removed, and a row changes
  only forward. With it a crash, which puts the disk in the place of memory, leaves
  `Consistent` what was (`ConsistentBehind`), and `Closed` says which requisitions
  it tears.
- `Truthful`: what was answered is in memory until something is lost, and in the
  files unless the last flush failed or a file is cut. What the snapshot thread has
  read has it too, so that its late write brings back nothing that was answered for.

A write is looked at once (`WrittenFile`), and so is a file that is cut
(`CutStores`): an empty store is a good one, so `Stores` survives, and the rest of
the invariant is under `~unsaved` or `~lost`. The next flush of a handler must make
good all that failed ones have left behind (`FlushSourcingKeeps`); it does because it
writes both files whole.

`ProcurementProofs` begins with what each operation of the store does to these parts
(`Typed`, `Referring`, `Behind`, `Balanced`), so that the proof of a handler is
the operations it calls. `RestIsSaved` then reads the idle cases off `Lagging`.
`AwardsMatchDecisions` is `Balanced`: a count of awards on a quote equals a
count of approvals taken on it, kept by adding to both or to neither; the
hard case is a second award for the same requisition while the payload of the
first is still to be committed.

### The rest of the desk

A behaviour of `Desk` is a behaviour of the component it picks, so each proof is
of `Spec => X!Spec` and then of the component.

- Cache. `CacheInv`: every value that is stored or has been computed and not
  yet stored is `Dated` (it is the list of a version, and that version was
  replaced no earlier than the time it carries), and none is older than the
  last write unless the chat thread was computing when that write came
  (`overlapped`). The property alone says nothing of a value still in the chat
  thread's hands.
- Register. `RiskInv`: `Filed` (ids below the next number, no two rows of one
  signal) for memory and the file, `Keeps` for memory with what clients were told
  (`told`) and for the file with what of it it holds (`kept`), and what a seeder has
  collected since the last change is today's signals. The property would survive a
  seed but not a restart: the file needs its own, which a failed write leaves as it
  was and a cut file has of an empty register.
- Files. `FileInv`: one writer at a time (`Locked`), what it has `Owed` since it
  truncated (`Progress`), torn files that a restart meets are known to be cut
  (`TornIsKnown`), and what is promised is on file and, while the process runs, in
  memory, or exposed (`Kept`). `OnFile` is in what is
  being written and in the file; of a file that an error has torn it says nothing,
  as memory still has what the next write will put there. The restore takes the files in order; the
  induction is over the steps, with `todo` naming the files left.
- SAP link. `Balanced` is the property over sums that can be reasoned about, with
  what arrived again added to what SAP posted. For an event that carries no number of
  ours it needs `Numbered`: a number we hold is of a document SAP made for that very
  entity, however often it was submitted, also when an exception has left the old
  number in place. `Reported` says only receipts have a quantity.
- Queue. From one day to a later one the slip sum can only grow (`SlipGrows`),
  over every pair of bands the days fall in. A recent follow-up lowers it, to no
  less than 5, and then wears off; that cannot help either, because every sum
  is at least 6.
- Planning. `PlanInv`: a project that has lines exists, and they are of its
  tenant (`LinesOf`). Staged previews need no part of it, because the commit
  asks again whose the projects are. `PlanTyped` is the types: lines are finitely
  many (`UpsertedTyped`) and milestones a calendar, which stays so when a commit
  replaces a project. What is left of `EveryLineIsPlaced` concerns a state and no
  step. There is an order of the milestones by date (`SortedListExists`), and
  whichever of them the sort takes, the first that is not before the need is
  the earliest one (`RightFor`, `NearestIsRight`). The packages are the lines by
  milestone, a partition (`PackagesPart`), so that the sizes add up to the number
  of lines, and of any sort of lines (`TotalOfParts`, `PackagesCount`).
- Devices. `Whose`: each copy of a token, in a device's row, in a call and in a
  receipt, agrees with the enrolment that issued it. It is inductive because an
  enrolment draws a token of which there is no copy (`TokenIsNew`), so nobody
  else's agreement can be disturbed; the property alone would not survive the
  step in which a call writes its receipt.
- Vendors. Each curve has its lemma (`DeliveryMonotone` to `RiskMonotone`),
  which shows it monotone within a band and from band to band, and within
  0..100; the composite is a sum of them with positive weights (`WeightedSum`).
  The steps contribute only that what is listed is a record somebody proposed
  or added (`Known`).
- Bids. The comparison divides: an index is the least lead time or price over
  one's own, the total a weighted mean of indices, each rounded. Cross-multiplied,
  every index falls as its number rises (`IndexMono`), and rounding and weighing
  keep the order (`RoundedMono`, `WeighedMono`). A lead time of 0 among the
  offers makes everybody's index the same, so the order of the rest decides. `FailingBidsRankLast` needs more of a
  state (`RankInv`): a bid is out exactly for the criteria it was scored under.
  The table is sorted by the combined score alone, in which a disqualified bid has
  0; a qualified one is above it only by its commercial score
  (`QualifiedAboveZero`), and `ReliabilityCounts` says that this is never rounded
  to 0. Without it an offer far behind the best, from a listed vendor who never
  delivers on time, can tie with a disqualified one. What is ahead of a qualified bid is then ahead of every
  failing bid, and the bid itself is one more.

`TraceProofs` has one invariant for a line, `LineInv`: the tables have their rows,
references go from quote to RFQ to requisition and back, and an award and its
order are made together and carry the same number, so that as many orders as
awards exist.

- `OrdersAreSeen`. The stage is judged by the requisition that got furthest.
  `LineInv` gives a requisition to every order and `LargestThere` that the
  furthest is one with an order, whatever status a late release has put it back
  to (`RankOf`, `Speaks`).
- `LinesMoveOn`. Unless something is judged anew, the document a line is judged
  by only moves on (`Onward`, `StoreMoves`, `OrderMoves`, `RestMoves`); each of
  the three kinds of documents then ranks no less (`RequestRank`, `PrRank`,
  `OrderRank`).
- `ViewsAgree`. The summary adds up awards, the property orders. An award has its
  order's number, so both are sums over one table (`AwardedTotal`, with the lemmas
  of `Sums`), and the order a commercial line takes its savings from is the
  first one made for its requisition (`FirstOrder`, `SavingsTraced`), which the
  chain reaches. The hypothesis `0 \notin ViewTotals` is the code's: it writes
  `award value or PR total`, so that a free order counts as one without a value.

The audit log is not a suffix of what was emitted: a restart restores the file,
and events that had only reached memory are gone from the middle. `Copied` says
what is left of that: the log holds events of the history in their order, and no
more have come since an event than the history has after it (`Shows`). So an
event leaves the ring only after as many later ones as the ring holds
(`ShownInRing`), and a query that does not reach it has found as many later
postings (`PostingsSince`). `TrailInv` is that each posting the current run of a
GRN's effects has made is `Traced` in memory, and, unless its flush is still to
come (`Pending`) or a failed write has kept events of the GRN back (`unfiled`), in
the file. A stamp finds nothing pending, and from there on a restart finds the
posting in the file or, if it is not there to be found, forgets the GRN (`forgotten`).

`DeskTypes` puts the types together. Most components have theirs in the invariant
above. What it adds are the ranges: every sum of slip points is at least 6, is cut
at 95 and is lowered to no less than 5 (`SourcingRange`, `ScenarioRange`,
`FollowupRange`, `QueueShows`); a technical score is a hundredth of at most 100
times 100, criteria keep weights in 0..100 when they are scaled (`NormalisedFits`:
none of them is above the total), and what the heuristic gives is in 35..95 with
one of the four levels (`HeuristicFits`). `BidTyped` needs the criteria a bid was
scored under, which may have been replaced since.

### Only model-checked

Liveness (`ConfirmedIsCredited`, `CapturedSettles`) is outside the prover's reach:
it rests on ENABLED. So are the four properties that the code does not have, which
TLC refutes. Every invariant and every action property of the passing runs is
proved, two of them under the premises named above.

## 5. Not modelled

`PROJECT.json` gives the reason for each component. In short: analytics,
simulations, portfolio and stock reads derive from the other stores and change
nothing; model calls are external, their answers nondeterministic where one is
used; login and tokens of the office are taken as given; wording, e-mails, CSV
export and telemetry carry no state. Ids that ingest and CSV import generate may
collide with ids the file gives; the models give every row the id it ends up
with. The frontend keeps no state of the system, and deployment is
configuration.

## 6. Plan

1. Token scores of `matching.py` as pure operators.
2. The read models of the analytics: what the alerts and the weekly plan take
   from the stores modelled here.

## 7. Running

    tlc -workers 2 -config Effects.cfg MCGrn
    tlc -workers 2 -config Procure.cfg MCProcurement
    tlc -workers 2 -config Desk.cfg MCDesk
    tlapm Sums.tla
    tlapm GrnProofs.tla
    tlapm GrnLedger.tla
    tlapm ProcurementProofs.tla
    tlapm DeskProofs.tla
    tlapm ScoreProofs.tla
    tlapm TraceProofs.tla
    tlapm DeskTypes.tla
