------------------------------- MODULE Desk --------------------------------
(***************************************************************************)
(* The components of the desk, one at a time: a behaviour picks one of     *)
(* them and takes its steps, the variables of the others staying as they   *)
(* are.  No property relates two of them, so their product would show      *)
(* nothing more.                                                           *)
(***************************************************************************)
EXTENDS Integers, Sequences, FiniteSets

CONSTANTS
    Focus,     \* the components a behaviour may pick
    Nothing,   \* NULL
    \* SAP link
    SapPrs, SapPos, SapQty, MaxDocs, MaxSapEvents, MaxResyncs, MaxRepeats,
    \* state files
    ChangingStores, MaxFacts, MaxFileFaults,
    \* read cache
    ShipOrders, TTL, MaxTime, MaxVersion,
    \* risk register
    Signals, Commercial, MaxRows, MaxEdits, MaxShifts, MaxRiskFaults,
    \* planning
    PlanTenants, ProjectIds, OtherSpellings, Workbooks, PlanProjects, MaxStaged,
    MaxUploads,
    \* one line, in the process map and in the two other views
    LineVendors, MaxPrs, MaxRfqs, MaxReceipts,
    LineTotals, LineQty, LinePos, ViewTotals, ViewQty, ViewPos, Budget,
    \* devices
    Codes, DeviceIds, Posts, Receipts, Calls,
    \* vendors
    Records, Proposals, PeerSpend,
    \* bids
    Bids, Suppliers, Template, CriteriaSets, Sheets, WeightPairs, MaxBids,
    \* expediting
    SourcingOrders, VendorFiles, LeadTimes, NeedBys, NoDate, Dues, Spans, MaxDay,
    MaxFollowups,
    \* audit log
    Grns, RingSize, Limit, MaxEmitted, MaxAuditFaults

VARIABLES
    focus,
    ent, docs, sent, inbox, resynced, missed, repeated,
    mem, file, versioned, todo, writer, buffer, request, seen, promised, cut,
    running, fileFaults,
    open, log, version, replacedAt, cache, clock, chat, answer, written, overlapped,
    rows, nextRow, signals, shifts, seeding, unsaved, told, kept, edits, riskFile,
    lastSeed, riskFaults,
    projects, bom, staging, uploads,
    item, store, orders, evaluated, lastEvent,
    invites, devices, issued, calls, receipts,
    seeded, runtime, pending,
    quotes, criteria, evals, weights, under,
    today, dueOrders, scenario, followups,
    events, auditFile, effects, history, unfiled, forgotten, auditFaults

-----------------------------------------------------------------------------
(* The components *)

Sap    == INSTANCE SapLink WITH MaxEvents <- MaxSapEvents
Files  == INSTANCE StateFiles WITH Changing <- ChangingStores
Cache  == INSTANCE ReadCache
Risk   == INSTANCE RiskRegister
Plan   == INSTANCE Planning
Line   == INSTANCE LineProgress WITH Vendors <- LineVendors, Totals <- LineTotals,
             OrderedQty <- LineQty, MaxPos <- LinePos
Views  == INSTANCE LineViews WITH Vendors <- LineVendors, Totals <- ViewTotals,
             OrderedQty <- ViewQty, MaxPos <- ViewPos
Device == INSTANCE Devices WITH None <- Nothing
Vendor == INSTANCE VendorMaster WITH NoRecord <- Nothing
Bid    == INSTANCE BidEvaluation
Queue  == INSTANCE Expediting WITH Vendors <- VendorFiles, orders <- dueOrders
Trail  == INSTANCE AuditTrail WITH MaxEvents <- RingSize

\* The components a behaviour may pick are those there are.
ASSUME FocusConstants ==
    Focus \subseteq {"sap", "files", "cache", "risk", "plan", "line", "views", "device",
                    "vendor", "bid", "queue", "trail"}

\* A signal is never taken for a person's row, and a register has finitely many.
ASSUME RiskConstants ==
    /\ IsFiniteSet(Signals) /\ Risk!Manual \notin Signals
    /\ {MaxRows, MaxEdits, MaxShifts, MaxRiskFaults} \subseteq Nat

\* SAP's documents are numbered.
ASSUME SapConstants == MaxDocs \in Nat

\* Time is counted in whole steps, and the list has been computed once.
ASSUME CacheConstants ==
    /\ {TTL, MaxTime} \subseteq Nat
    /\ MaxVersion \in Nat \ {0}

\* Handlers change stores that there are.
ASSUME FileConstants ==
    /\ ChangingStores \subseteq Files!Stores
    /\ {MaxFacts, MaxFileFaults} \subseteq Nat

\* A vendor's record is of whole numbers.
ASSUME VendorConstants ==
    /\ PeerSpend \in Nat
    /\ Records \cup Proposals \subseteq
          [otd : Nat, ppm : Nat, alternatives : Nat, flags : Nat, spend : Nat]

\* Quotes, scorecards, criteria, scores and weights are in whole units.
ASSUME BidConstants ==
    /\ Bids \subseteq [vendor : DOMAIN Suppliers, total : Nat, lead : Nat,
                       noted : BOOLEAN, delivered : BOOLEAN]
    /\ \A v \in DOMAIN Suppliers :
          Suppliers[v] \in [known : BOOLEAN, otd : Nat, alternatives : Nat, ppm : Nat,
                           flags : Nat, fresh : BOOLEAN, ncr : BOOLEAN, card : Nat]
    /\ \A c \in CriteriaSets \cup {Template} :
          /\ IsFiniteSet(DOMAIN c) /\ DOMAIN c \subseteq STRING
          /\ \A i \in DOMAIN c : c[i] \in Bid!TechnicalCriterion
    /\ Sheets \subseteq Seq(Bid!TechnicalScore)
    /\ WeightPairs \subseteq Nat \X Nat

\* Amounts are whole numbers.
ASSUME LineConstants == LineTotals \cup ViewTotals \subseteq Nat /\ MaxReceipts \in Nat

\* Days, dates and what is on file of a vendor are whole numbers.
ASSUME QueueConstants ==
    /\ MaxDay \in Nat /\ MaxFollowups \in Nat
    /\ Spans \subseteq Nat
    /\ NeedBys \ {NoDate} \subseteq Int /\ LeadTimes \subseteq Int /\ Dues \subseteq Int
    /\ VendorFiles \subseteq [known : BOOLEAN, otd : Int, flags : Nat, ppm : Int]

\* A GRN has a number and a list of lines, and the ring holds an event.
ASSUME TrailConstants ==
    /\ Trail!NoGrn \notin DOMAIN Grns
    /\ \A g \in DOMAIN Grns : Grns[g] \in Seq(Trail!Orders)
    /\ RingSize \in Nat \ {0} /\ Limit \in Nat /\ MaxAuditFaults \in Nat

\* Dates and lead times are whole numbers; the projects there are to begin with,
\* and those a file names, are of the ones there can be.
ASSUME PlanConstants ==
    /\ DOMAIN PlanProjects \subseteq ProjectIds
    /\ \A p \in DOMAIN PlanProjects : /\ PlanProjects[p].tenant \in PlanTenants
                                      /\ Plan!IsCalendar(PlanProjects[p].milestones)
    /\ \A b \in Workbooks : /\ b \in [projects : Seq(STRING), lines : Seq(Plan!Row)]
                            /\ \A n \in DOMAIN b.projects :
                                  Plan!CanonicalId(b.projects[n]) \in ProjectIds
    /\ MaxUploads \in Nat

\* Components with more than one initial state begin in one of them while
\* another component has the focus.
Init ==
    /\ focus \in Focus
    /\ Sap!Init /\ Files!Init /\ Cache!Init /\ Plan!Init /\ Device!Init /\ Bid!Init
    /\ Trail!Init
    /\ Risk!Init /\ (focus # "risk" => signals = {})
    /\ Line!Init /\ (focus # "line" => item = "planned")
    /\ Vendor!Init /\ (focus # "vendor" => seeded = Nothing)
    /\ Queue!Init
    /\ focus # "queue" =>
          /\ dueOrders = CHOOSE o \in [SourcingOrders -> Queue!SourcingPO] :
                            \A x \in SourcingOrders : o[x].status = "draft"
          /\ scenario = CHOOSE s \in Queue!ScenarioPO : TRUE

\* The variables of each component.
sapVars    == <<ent, docs, sent, inbox, resynced, missed, repeated>>
fileVars   == <<mem, file, versioned, todo, writer, buffer, request, seen,
              promised, cut, running, fileFaults>>
cacheVars  == <<open, log, version, replacedAt, cache, clock, chat, answer,
              written, overlapped>>
riskVars   == <<rows, nextRow, signals, shifts, seeding, unsaved, told, kept, edits,
              riskFile, lastSeed, riskFaults>>
planVars   == <<projects, bom, staging, uploads>>
lineVars   == <<item, store, orders, evaluated, lastEvent>>
deviceVars == <<invites, devices, issued, calls, receipts>>
masterVars == <<seeded, runtime, pending>>
bidVars    == <<quotes, criteria, evals, weights, under>>
queueVars  == <<today, dueOrders, scenario, followups>>
auditVars  == <<events, auditFile, effects, history, unfiled, forgotten, auditFaults>>

\* The steps of c leave the others alone.
Rest(c) ==
    /\ IF c = "sap"    THEN TRUE ELSE UNCHANGED sapVars
    /\ IF c = "files"  THEN TRUE ELSE UNCHANGED fileVars
    /\ IF c = "cache"  THEN TRUE ELSE UNCHANGED cacheVars
    /\ IF c = "risk"   THEN TRUE ELSE UNCHANGED riskVars
    /\ IF c = "plan"   THEN TRUE ELSE UNCHANGED planVars
    /\ IF c \in {"line", "views"} THEN TRUE ELSE UNCHANGED lineVars
    /\ IF c = "device" THEN TRUE ELSE UNCHANGED deviceVars
    /\ IF c = "vendor" THEN TRUE ELSE UNCHANGED masterVars
    /\ IF c = "bid"    THEN TRUE ELSE UNCHANGED bidVars
    /\ IF c = "queue"  THEN TRUE ELSE UNCHANGED queueVars
    /\ IF c = "trail"  THEN TRUE ELSE UNCHANGED auditVars
    /\ UNCHANGED focus

Next ==
    \/ focus = "sap"    /\ Sap!Next    /\ Rest("sap")
    \/ focus = "files"  /\ Files!Next  /\ Rest("files")
    \/ focus = "cache"  /\ Cache!Next  /\ Rest("cache")
    \/ focus = "risk"   /\ Risk!Next   /\ Rest("risk")
    \/ focus = "plan"   /\ Plan!Next   /\ Rest("plan")
    \/ focus = "line"   /\ Line!Next   /\ Rest("line")
    \/ focus = "views"  /\ Views!StoreNext /\ Rest("views")
    \/ focus = "device" /\ Device!Next /\ Rest("device")
    \/ focus = "vendor" /\ Vendor!Next /\ Rest("vendor")
    \/ focus = "bid"    /\ Bid!Next    /\ Rest("bid")
    \/ focus = "queue"  /\ Queue!Next  /\ Rest("queue")
    \/ focus = "trail"  /\ Trail!Next  /\ Rest("trail")

deskVars == <<focus, sapVars, fileVars, cacheVars, riskVars,
              planVars, lineVars, deviceVars, masterVars,
              bidVars, queueVars, auditVars>>

Spec == Init /\ [][Next]_deskVars

-----------------------------------------------------------------------------
(* Properties; each is stated and explained in its component's module. *)

\* The variables of the component in focus have their types.
TypeOK ==
    CASE focus = "sap"    -> Sap!TypeOK
      [] focus = "files"  -> Files!TypeOK
      [] focus = "cache"  -> Cache!TypeOK
      [] focus = "risk"   -> Risk!TypeOK
      [] focus = "plan"   -> Plan!TypeOK
      [] focus = "line"   -> Line!TypeOK
      [] focus = "views"  -> Views!TypeOK
      [] focus = "device" -> Device!TypeOK
      [] focus = "vendor" -> Vendor!TypeOK
      [] focus = "bid"    -> Bid!TypeOK
      [] focus = "queue"  -> Queue!TypeOK
      [] focus = "trail"  -> Trail!TypeOK

\* SAP link: a receipt reported by SAP is counted once, on the order it is of.
QuantityConserved == focus = "sap" => Sap!QuantityConserved

\* State files: what was promised is there after a crash.
PromisedSurvives == focus = "files" => Files!PromisedSurvives

\* Read cache: nothing is shown longer than its time to live.
BoundedStaleness == focus = "cache" => Cache!BoundedStaleness

\* Read cache: a read after a write sees it.
ReadsOwnWrites == focus = "cache" => Cache!ReadsOwnWrites

\* Risk register: two seeders make one row of one signal.
OneRowPerSignal == focus = "risk" => Risk!OneRowPerSignal

\* Risk register: what people set survives reseeds and crashes.
AnsweredEditsSurvive == focus = "risk" => Risk!AnsweredEditsSurvive

\* Risk register: the live rows are today's signals.
LiveMatchesSignals == focus = "risk" => Risk!LiveMatchesSignals

\* Planning and ingest: a project and its lines stay with one tenant.
LinesFollowProject == focus = "plan" => Plan!LinesFollowProject

\* Planning: every line is in one package, for the right milestone.
PlanPlacesEveryLine == focus = "plan" => Plan!PlanPlacesEveryLine

\* Process map: a line with an order is shown with it.
OrderIsSeen == focus = "line" => Line!OrderIsSeen

\* Process map: a line does not move back.
LineNeverStepsBack == Line!LineNeverStepsBack

\* Commercial lines and traceability chain: they mean the same orders.
ViewsNameTheSameOrders == focus = "views" => Views!ViewsNameTheSameOrders

\* Traceability chain: a delivered order's chain ends in its delivery.
DeliveredEndsChain == focus = "line" => Views!DeliveredEndsChain

\* Devices: a receipt belongs to the store its token was issued for.
ReceiptsStayWhereTaken == focus = "device" => Device!ReceiptsStayWhereTaken

\* Vendors: a better record never has a lower score.
BetterRecordNeverScoresLess == Vendor!BetterRecordNeverScoresLess

\* Bids: one that fails a mandatory criterion is ranked last.
DisqualifiedRanksLast == focus = "bid" => Bid!DisqualifiedRanksLast

\* Bids: a better one never scores less.
BetterBidNeverScoresLess == focus = "bid" => Bid!BetterBidNeverScoresLess

\* Expediting: time alone never makes an order look safer.
WaitingNeverHelps == Queue!WaitingNeverHelps

\* Audit log: a finished receipt is listed until newer events push it out.
StampedReceiptIsTraced == focus = "trail" => Trail!StampedReceiptIsTraced

\* State files: what a snapshot has covered is there after a restart.
SnapshotSurvives == focus = "files" => Files!SnapshotSurvives
=============================================================================
