------------------------------ MODULE DeskTypes -------------------------------
(***************************************************************************)
(* The type invariant of the desk: whichever component a behaviour picks,  *)
(* its variables keep their types.  Most components have them in the       *)
(* invariant their other theorems rest on; what follows adds the ranges of *)
(* what the expediting queue shows and of what a bid evaluation stores.    *)
(***************************************************************************)
EXTENDS DeskProofs, ScoreProofs, TraceProofs

-----------------------------------------------------------------------------
(* The expediting queue *)

\* What the tables can add up to, cut to a percentage.
LEMMA CappedRange ==
    ASSUME NEW a \in Int, 6 <= a
    PROVE  Queue!Capped(a) \in 6..95
  BY CappedGrows

\* _predict_sourcing_po
LEMMA SourcingRange ==
    ASSUME QueueInv, NEW o \in SourcingOrders
    PROVE  Queue!PredictSourcing(dueOrders[o]) \in 6..95
<1>1. PICK po : po = dueOrders[o]
  OBVIOUS
<1>2. /\ po \in Queue!SourcingPO
      /\ po.lead \in Int /\ po.vendor \in VendorFiles
      /\ po.needBy = NoDate \/ po.needBy \in Int
  BY <1>1, QueueConstants DEF QueueInv, Queue!SourcingPO
<1>3. PICK late \in Nat, flagged \in Nat :
         /\ late = Queue!Late(po.vendor, 28)
         /\ flagged = Queue!Min({18, 5 * po.vendor.flags})
  BY <1>2, VendorPart
<1>4. PICK due \in Int : due = Queue!DaysUntil(po)
  BY <1>2, QueueConstants DEF Queue!DaysUntil, QueueInv
<1> DEFINE points == 6 + (IF po.status = "in_transit" /\ due <= 7 THEN 25 ELSE 0)
                 + (IF po.status = "draft" /\ due <= po.lead THEN 40 ELSE 0)
                 + (IF po.vendor.known THEN late + flagged ELSE 5)
                 + (IF due <= 14 THEN 8 ELSE 0)
<1>5. Queue!PredictSourcing(po) = Queue!Capped(points)
  BY <1>3, <1>4 DEF Queue!PredictSourcing
<1>6. points \in Int /\ 6 <= points
  OBVIOUS
<1> HIDE DEF points
<1> QED
  BY <1>1, <1>5, <1>6, CappedRange

\* _predict_scenario_po
LEMMA ScenarioRange ==
    ASSUME QueueInv
    PROVE  Queue!PredictScenario(scenario) \in 6..95
<1>1. PICK po, v : po = scenario /\ v = po.vendor
  OBVIOUS
<1>2. /\ v \in VendorFiles /\ po.due \in Int /\ v.ppm \in Int
  BY <1>1, QueueConstants DEF QueueInv, Queue!ScenarioPO
<1>3. PICK late \in Nat, flagged \in Nat :
         late = Queue!Late(v, 30) /\ flagged = Queue!Min({20, 5 * v.flags})
  BY <1>2, VendorPart
<1>4. PICK part \in Nat : part = Queue!StatusPart(po)
  BY <1>1 DEF Queue!StatusPart, QueueInv, Queue!ScenarioPO, Queue!ScenarioStatuses
<1> DEFINE points == 8 + part
                 + (IF v.known THEN late + (IF v.ppm > 1000 THEN 6 ELSE 0) + flagged ELSE 0)
                 + (IF po.due <= 14 /\ po.status # "delayed" THEN 10 ELSE 0)
                 + (IF ~po.lever /\ po.status \in {"planned", "released", "in_transit"}
                    THEN 6 ELSE 0)
<1>5. Queue!PredictScenario(po) = Queue!Capped(points)
  BY <1>1, <1>3, <1>4 DEF Queue!PredictScenario
<1>6. points \in Int /\ 6 <= points
  OBVIOUS
<1> HIDE DEF points
<1> QED
  BY <1>1, <1>5, <1>6, CappedRange

\* _apply_followup_context
LEMMA FollowupRange ==
    ASSUME QueueInv, NEW o \in SourcingOrders \cup {Queue!Demo}, NEW p \in 6..95
    PROVE  Queue!WithFollowup(p, o) \in 0..95
<1>1. /\ followups[o].at \in Int /\ followups[o].count \in Nat
      /\ followups[o].at <= today /\ today \in Int
  BY QueueConstants DEF QueueInv
<1>2. PICK n \in Nat : n = Queue!NudgePoints(followups[o])
  BY <1>1 DEF Queue!NudgePoints
<1>3. Queue!WithFollowup(p, o) = IF n = 0 THEN p ELSE Queue!Max({5, p - n})
  BY <1>2 DEF Queue!WithFollowup
<1>4. Queue!Max({5, p - n}) = IF 5 >= p - n THEN 5 ELSE p - n
  BY LargerSmaller
<1> QED
  BY <1>3, <1>4

\* What the queue shows of an order: a percentage, and one of four urgencies.
LEMMA QueueShows ==
    ASSUME QueueInv, NEW o \in Queue!Queue
    PROVE  /\ Queue!Slip(o) \in 0..95
           /\ Queue!Urgency(Queue!Slip(o)) \in {"escalate", "nudge", "watch", "ok"}
<1>1. o \in SourcingOrders \cup {Queue!Demo}
  BY DEF Queue!Queue
<1>2. Queue!Slip(o) \in 0..95
  <2>1. CASE o = Queue!Demo
    BY Zenon, <1>1, <2>1, ScenarioRange, FollowupRange DEF Queue!Slip
  <2>2. CASE o # Queue!Demo
    <3>1. o \in SourcingOrders
      BY <1>1, <2>2
    <3> QED
      BY Zenon, <1>1, <2>2, <3>1, SourcingRange, FollowupRange DEF Queue!Slip
  <2> QED
    BY <2>1, <2>2
<1>3. \A p \in 0..95 : Queue!Urgency(p) \in {"escalate", "nudge", "watch", "ok"}
  BY DEF Queue!Urgency
<1> QED
  BY Zenon, <1>2, <1>3

\* Days, dates and follow-ups have their types, and what is shown its range.
LEMMA QueueTyped == Queue!Spec => []Queue!TypeOK
<1>1. QueueInv => Queue!TypeOK
  BY Zenon, QueueShows DEF QueueInv, Queue!TypeOK
<1> QED
  BY <1>1, InitQueue, StepQueue, PTL DEF Queue!Spec

-----------------------------------------------------------------------------
(* The bids *)

LEMMA Percentage == \A n \in Nat : n <= 100 => n \in 0..100
  OBVIOUS

\* An evaluation, whatever the sets its fields are of.
LEMMA EvaluationRecord ==
    ASSUME NEW Scores, NEW Truth, NEW Answers,
           NEW score \in Scores, NEW out \in Truth, NEW sheet \in Answers
    PROVE  [score |-> score, out |-> out, sheet |-> sheet]
              \in [score : Scores, out : Truth, sheet : Answers]
  OBVIOUS

\* An evaluation says what its sheet says, and its score is a percentage.
LEMMA EvaluationTyped ==
    ASSUME NEW c, CriteriaFit(c), NEW sheet, SheetFits(sheet)
    PROVE  Bid!Evaluation(c, sheet) \in Bid!TechnicalEvaluation
<1>1. PICK e : e = Bid!Evaluation(c, sheet)
  OBVIOUS
<1>2. e.score \in Nat /\ e.score <= 100
  BY <1>1, EvaluationScore
<1>3. PICK out \in BOOLEAN : out = Bid!Missed(c, sheet)
  BY Zenon DEF Bid!Missed
<1>4. PICK score : e = [score |-> score, out |-> out, sheet |-> sheet]
  BY Zenon, <1>1, <1>3 DEF Bid!Evaluation
<1>5. score \in 0..100
  <2>1. e.score = score
    BY <1>4
  <2> QED
    BY Zenon, <1>2, <2>1, Percentage
<1>6. sheet \in Seq(Bid!TechnicalScore)
  BY Zenon DEF SheetFits
<1>7. e \in Bid!TechnicalEvaluation
  BY Zenon, <1>4, <1>5, <1>6, EvaluationRecord DEF Bid!TechnicalEvaluation
<1> QED
  BY Zenon, <1>1, <1>7

\* Criteria that fit are none, or rows.
LEMMA CriteriaTyped == \A c : CriteriaFit(c) => Bid!CriteriaOk(c)
  BY DEF CriteriaFit, Bid!CriteriaOk, Bid!Range

\* A bid that is there has the criteria it was scored under and its evaluation.
Recorded(k) ==
    /\ k \in DOMAIN quotes
    /\ evals[k] \in Bid!TechnicalEvaluation
    /\ CriteriaFit(under[k])

BidTyped == RankInv /\ \A k \in DOMAIN evals : Recorded(k)

LEMMA InitBidTyped == Bid!Init => BidTyped
<1> SUFFICES ASSUME Bid!Init PROVE BidTyped
  OBVIOUS
<1>1. DOMAIN evals = {}
  BY DEF Bid!Init
<1> QED
  BY <1>1, InitRank DEF BidTyped

LEMMA StepBidTyped == BidTyped /\ [Bid!Next]_(Bid!bidVars) => BidTyped'
<1> SUFFICES ASSUME BidTyped, [Bid!Next]_(Bid!bidVars) PROVE BidTyped'
  OBVIOUS
<1>1. RankInv /\ RankInv' /\ BidInv
  BY StepRank DEF BidTyped, RankInv
<1>2. /\ \A k \in DOMAIN quotes : quotes[k] \in Bids
      /\ quotes \in Seq(Bids) /\ CriteriaFit(criteria)
  <2>1. quotes \in Seq(Bids) /\ CriteriaFit(criteria)
    BY <1>1 DEF BidInv
  <2>2. DOMAIN quotes = 1..Len(quotes)
    BY <2>1
  <2> QED
    BY <2>1, <2>2, ElementOfSeq
<1>3. CriteriaFit(Bid!Read)
  BY <1>2, BidConstants DEF Bid!Read, CriteriaFit
<1>4. CASE DOMAIN quotes \subseteq DOMAIN quotes' /\ UNCHANGED <<evals, under>>
  <2>1. ASSUME NEW k \in DOMAIN evals PROVE Recorded(k)'
    BY <1>4, <2>1 DEF BidTyped, Recorded, CriteriaFit, Bid!TechnicalEvaluation,
                      Bid!TechnicalCriterion, Bid!TechnicalScore
  <2> QED
    BY <1>1, <1>4, <2>1 DEF BidTyped
<1>5. CASE \/ UNCHANGED Bid!bidVars
           \/ Bid!ReadCriteria
           \/ \E c \in CriteriaSets : Bid!SetCriteria(c)
           \/ \E pair \in WeightPairs : Bid!SetWeights(pair)
  BY <1>4, <1>5 DEF Bid!bidVars, Bid!ReadCriteria, Bid!SetCriteria, Bid!SetWeights
<1>6. ASSUME NEW bid \in Bids, Bid!AddQuote(bid) PROVE BidTyped'
  <2>1. quotes' = Append(quotes, bid) /\ UNCHANGED <<evals, under>>
    BY <1>6 DEF Bid!AddQuote
  <2>2. DOMAIN quotes \subseteq DOMAIN quotes'
    BY <1>2, <2>1
  <2> QED
    BY <1>4, <2>1, <2>2
<1>7. ASSUME NEW k \in DOMAIN quotes, NEW sheet \in Sheets, Bid!SetEvaluation(k, sheet)
      PROVE  BidTyped'
  <2>1. PICK e \in Bid!TechnicalEvaluation : e = Bid!Evaluation(criteria, sheet)
    BY Zenon, <1>2, SheetsFit, EvaluationTyped
  <2>2. /\ evals' = [i \in DOMAIN evals \cup {k} |-> IF i = k THEN e ELSE evals[i]]
        /\ under' = [i \in DOMAIN under \cup {k} |-> IF i = k THEN criteria ELSE under[i]]
        /\ quotes' = quotes
    BY Zenon, <1>7, <2>1 DEF Bid!SetEvaluation
  <2>3. DOMAIN under = DOMAIN evals
    BY <1>1 DEF RankInv
  <2>4. ASSUME NEW i \in DOMAIN evals' PROVE Recorded(i)'
    <3>1. CASE i = k
      BY <1>2, <2>1, <2>2, <2>3, <3>1 DEF Recorded
    <3>2. CASE i # k
      <4>1. i \in DOMAIN evals /\ evals'[i] = evals[i] /\ under'[i] = under[i]
        BY <2>2, <2>3, <2>4, <3>2
      <4>2. Recorded(i)
        BY <4>1 DEF BidTyped
      <4> QED
        BY <2>2, <4>1, <4>2 DEF Recorded
    <3> QED
      BY <3>1, <3>2
  <2> QED
    BY <1>1, <2>4 DEF BidTyped
<1>8. CASE Bid!AutoEvaluate
  <2>1. PICK answers \in [DOMAIN quotes -> Sheets \cup {<<>>}] :
          evals' = [k \in DOMAIN quotes |->
                      Bid!Evaluation(Bid!Read, IF answers[k] # <<>> THEN answers[k]
                                               ELSE Bid!Heuristic(Bid!Read, quotes[k]))]
    BY <1>8 DEF Bid!AutoEvaluate
  <2>2. under' = [k \in DOMAIN quotes |-> Bid!Read] /\ quotes' = quotes
    BY <1>8 DEF Bid!AutoEvaluate
  <2>3. ASSUME NEW k \in DOMAIN evals' PROVE Recorded(k)'
    <3>1. k \in DOMAIN quotes /\ under'[k] = Bid!Read
      BY <2>1, <2>2, <2>3
    <3>2. PICK sheet : /\ sheet = IF answers[k] # <<>> THEN answers[k]
                                  ELSE Bid!Heuristic(Bid!Read, quotes[k])
                       /\ evals'[k] = Bid!Evaluation(Bid!Read, sheet)
      BY <2>1, <3>1
    <3>3. SheetFits(sheet)
      <4>1. CASE answers[k] # <<>>
        <5>1. answers[k] \in Sheets
          BY <3>1, <4>1
        <5> QED
          BY Zenon, <3>2, <4>1, <5>1, SheetsFit
      <4>2. CASE answers[k] = <<>>
        BY Zenon, <1>2, <1>3, <3>1, <3>2, <4>2, HeuristicFits
      <4> QED
        BY <4>1, <4>2
    <3>4. evals'[k] \in Bid!TechnicalEvaluation
      BY Zenon, <1>3, <3>2, <3>3, EvaluationTyped
    <3> QED
      BY <1>3, <2>2, <3>1, <3>4 DEF Recorded
  <2> QED
    BY <1>1, <2>3 DEF BidTyped
<1> QED
  BY <1>5, <1>6, <1>7, <1>8 DEF Bid!Next

\* Quotes, criteria, evaluations and weights have their types.
LEMMA BidsTyped == Bid!Spec => []Bid!TypeOK
<1>1. BidTyped => Bid!TypeOK
  <2> SUFFICES ASSUME BidTyped PROVE Bid!TypeOK
    OBVIOUS
  <2>1. /\ quotes \in Seq(Bids) /\ weights \in Nat \X Nat
        /\ Bid!CriteriaOk(criteria) /\ DOMAIN under = DOMAIN evals
    BY CriteriaTyped DEF BidTyped, RankInv, BidInv
  <2>2. \A k \in DOMAIN evals : /\ k \in DOMAIN quotes
                                /\ evals[k] \in Bid!TechnicalEvaluation
                                /\ Bid!CriteriaOk(under[k])
    BY CriteriaTyped DEF BidTyped, Recorded
  <2>3. Bid!Range(evals) \subseteq Bid!TechnicalEvaluation
    BY <2>2 DEF Bid!Range
  <2> QED
    BY <2>1, <2>2, <2>3 DEF Bid!TypeOK
<1> QED
  BY <1>1, InitBidTyped, StepBidTyped, PTL DEF Bid!Spec

-----------------------------------------------------------------------------
(* Planning, and the line in its two models *)

\* Projects, lines and staged workbooks have their types.
LEMMA PlansTyped == Plan!Spec => []Plan!TypeOK
<1>1. PlanTyped => Plan!TypeOK
  <2> SUFFICES ASSUME PlanTyped PROVE Plan!TypeOK
    OBVIOUS
  <2>1. ASSUME NEW p \in DOMAIN projects
        PROVE  /\ p \in ProjectIds /\ projects[p].tenant \in PlanTenants
               /\ Plan!IsCalendar(projects[p].milestones)
    BY <2>1 DEF PlanTyped, ProjectTyped
  <2>2. ASSUME NEW p \in ProjectIds PROVE Plan!Range(bom[p]) \subseteq Plan!BOMItem
    BY <2>2 DEF PlanTyped, Typed, Plan!Range
  <2>3. ASSUME NEW s \in DOMAIN staging, staging[s] # Plan!NotStaged
        PROVE  staging[s].tenant \in PlanTenants
    BY <2>3 DEF PlanTyped, SlotTyped
  <2>4. DOMAIN bom = ProjectIds /\ uploads \in 0..MaxUploads
    BY DEF PlanTyped
  <2> QED
    BY Zenon, <2>1, <2>2, <2>3, <2>4 DEF Plan!TypeOK
<1> QED
  BY <1>1, InitPlanTyped, StepPlanTyped, PTL DEF Plan!Spec

\* Both models of a line have the rows of the store.
LEMMA LineTypes ==
    ASSUME LineInv
    PROVE  /\ focus = "line"  => Line!TypeOK
           /\ focus = "views" => Views!TypeOK
<1>1. Rows(store)
  BY DEF LineInv, StoreFits
<1>2. CASE focus = "line"
  BY <1>1, <1>2 DEF LineInv, Rows, Line!TypeOK
<1>3. CASE focus = "views"
  <2>1. /\ Views!PurchaseRequisition = Line!PurchaseRequisition
        /\ Views!RFQ = Line!RFQ /\ Views!Quote = Line!Quote
        /\ Views!AwardRow = Line!AwardRow /\ Views!SourcingPO = Line!SourcingPO
        /\ Views!ItemStatuses = Line!ItemStatuses
        /\ Views!EventStages = Line!EventStages /\ Views!NoEvent = Line!NoEvent
    BY DEF Views!PurchaseRequisition, Line!PurchaseRequisition, Views!RFQ, Line!RFQ,
           Views!Quote, Line!Quote, Views!AwardRow, Line!AwardRow, Views!SourcingPO,
           Line!SourcingPO, Views!ItemStatuses, Line!ItemStatuses, Views!EventStages,
           Line!EventStages, Views!NoEvent, Line!NoEvent, Views!PrStatuses, Line!PrStatuses,
           Views!RfqStatuses, Line!RfqStatuses
  <2> QED
    BY Zenon, <1>1, <1>3, <2>1 DEF LineInv, Rows, Views!TypeOK
<1> QED
  BY <1>2, <1>3

-----------------------------------------------------------------------------
(* The desk *)

\* The types of whichever component a behaviour has picked.
LEMMA AllTyped ==
    ASSUME focus \in Focus, LineInv, Sap!TypeOK, Files!TypeOK, Cache!TypeOK, Risk!TypeOK,
           Plan!TypeOK, Device!TypeOK, Vendor!TypeOK, Bid!TypeOK, Queue!TypeOK, Trail!TypeOK
    PROVE  TypeOK
<1>1. focus \in {"sap", "files", "cache", "risk", "plan", "line", "views", "device",
                 "vendor", "bid", "queue", "trail"}
  BY FocusConstants
<1>2. /\ focus = "line"  => Line!TypeOK
      /\ focus = "views" => Views!TypeOK
  BY LineTypes
<1> QED
  BY <1>1, <1>2 DEF TypeOK

\* Whichever component a behaviour picks, its variables keep their types, for any
\* number of orders, rows, bids, calls and events; what is shown of an order, of
\* a bid and of a vendor stays in its range.
THEOREM DeskTyped == Spec => []TypeOK
<1>1. Spec => [](focus \in Focus)
  <2>1. Init => focus \in Focus
    BY DEF Init
  <2>2. focus \in Focus /\ [Next]_deskVars => (focus \in Focus)'
    BY DEF Next, Rest, deskVars
  <2> QED
    BY <2>1, <2>2, PTL DEF Spec
<1>2. Spec => []Sap!TypeOK
  <2>1. SapInv => Sap!TypeOK
    BY DEF SapInv
  <2> QED
    BY <2>1, SapRuns, InitSap, StepSap, PTL DEF Sap!Spec
<1>3. Spec => []Files!TypeOK
  <2>1. FileInv => Files!TypeOK
    BY DEF FileInv
  <2> QED
    BY <2>1, FilesRun, InitFiles, StepFiles, PTL DEF Files!Spec
<1>4. Spec => []Cache!TypeOK
  <2>1. CacheInv => Cache!TypeOK
    BY DEF CacheInv
  <2> QED
    BY <2>1, CacheRuns, InitCache, StepCache, PTL DEF Cache!Spec
<1>5. Spec => []Risk!TypeOK
  <2>1. RiskInv => Risk!TypeOK
    BY DEF RiskInv
  <2> QED
    BY <2>1, RiskRuns, InitRisk, StepRisk, PTL DEF Risk!Spec
<1>6. Spec => []Trail!TypeOK
  <2>1. TrailInv => Trail!TypeOK
    BY DEF TrailInv
  <2> QED
    BY <2>1, TrailRuns, InitTrail, StepTrail, PTL DEF Trail!Spec
<1>7. Spec => []Plan!TypeOK /\ []Bid!TypeOK /\ []Queue!TypeOK
  BY PlanRuns, BidRuns, QueueRuns, PlansTyped, BidsTyped, QueueTyped, PTL
<1>8. focus \in Focus /\ LineInv /\ Sap!TypeOK /\ Files!TypeOK /\ Cache!TypeOK
        /\ Risk!TypeOK /\ Plan!TypeOK /\ Device!TypeOK /\ Vendor!TypeOK /\ Bid!TypeOK
        /\ Queue!TypeOK /\ Trail!TypeOK => TypeOK
  BY AllTyped
<1> QED
  BY <1>1, <1>2, <1>3, <1>4, <1>5, <1>6, <1>7, <1>8, LineInvHolds, DevicesTyped,
     VendorsTyped, PTL
=============================================================================
