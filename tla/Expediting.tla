------------------------------ MODULE Expediting ------------------------------
(***************************************************************************)
(* The expediting queue (app/expediting.py): the slip probability of every *)
(* open order, in percent, computed at every read from its status, the     *)
(* days left and its vendor, and lowered for a while by a follow-up that   *)
(* was logged.  Sourcing orders count down to their need-by date; those of *)
(* the demo scenario carry a fixed number of days.  How many days an order *)
(* is then predicted to be late is left out: that is the probability's     *)
(* share of a buffer which shrinks with the runway.                        *)
(***************************************************************************)
EXTENDS Integers, FiniteSets, FiniteSetsExt

CONSTANTS
    SourcingOrders, \* sourcing POs
    Vendors,        \* vendor files: [known, otd, flags, ppm]
    LeadTimes,      \* lead times a PO may carry, in days
    NeedBys,        \* need-by days a PO may carry, NoDate included
    NoDate,         \* a PO without a need-by date
    Dues,           \* due_in_days of the scenario order
    Spans,          \* days that may pass between two looks at the queue
    MaxDay, MaxFollowups

VARIABLES
    today,
    orders,    \* sourcing POs: [status, needBy, lead, vendor]
    scenario,  \* the scenario order: [status, due, lever, vendor]
    followups  \* _followups: order -> [at, count]; the scenario order is "demo"

queueVars == <<today, orders, scenario, followups>>

Demo == "demo"
ScenarioStatuses == {"planned", "released", "in_transit", "delayed", "received"}

Init ==
    /\ today = 0
    /\ orders \in [SourcingOrders -> [status : {"draft"}, needBy : NeedBys,
                                      lead : LeadTimes, vendor : Vendors]]
    /\ scenario \in [status : ScenarioStatuses, due : Dues, lever : BOOLEAN,
                     vendor : Vendors]
    /\ followups = [o \in SourcingOrders \cup {Demo} |-> [at |-> 0, count |-> 0]]

-----------------------------------------------------------------------------
(* Predictions *)

\* _days_until
DaysUntil(po) == IF po.needBy = NoDate THEN 60 ELSE po.needBy - today

Capped(base) == Max({0, Min({95, base})})

Late(v, cap) == IF v.otd < 95 THEN Min({cap, 3 * (95 - v.otd)}) ELSE 0

\* _predict_sourcing_po; nothing puts a sourcing PO in transit today.
PredictSourcing(po) ==
    LET due == DaysUntil(po)
        v   == po.vendor
    IN  Capped(6 + (IF po.status = "in_transit" /\ due <= 7 THEN 25 ELSE 0)
                 + (IF po.status = "draft" /\ due <= po.lead THEN 40 ELSE 0)
                 + (IF v.known THEN Late(v, 28) + Min({18, 5 * v.flags}) ELSE 5)
                 + (IF due <= 14 THEN 8 ELSE 0))

\* The part of the status.
StatusPart(po) ==
    CASE po.status = "delayed" -> 55
      [] po.status = "in_transit" /\ po.due <= 7 -> 25
      [] po.status \in {"planned", "released"} /\ po.due <= 7 -> 35
      [] OTHER -> 0

\* _predict_scenario_po
PredictScenario(po) ==
    LET v == po.vendor
    IN  Capped(8 + StatusPart(po)
                 + (IF v.known
                    THEN Late(v, 30) + (IF v.ppm > 1000 THEN 6 ELSE 0)
                           + Min({20, 5 * v.flags})
                    ELSE 0)
                 + (IF po.due <= 14 /\ po.status # "delayed" THEN 10 ELSE 0)
                 + (IF ~po.lever /\ po.status \in {"planned", "released", "in_transit"}
                    THEN 6 ELSE 0))

\* Fault: the older the follow-up, the more it counts.
NudgeByAge(f) ==
    LET age == today - f.at
    IN  CASE f.count = 0 \/ age > 21 -> 0
          [] f.count > 0 /\ age <= 3 -> 8
          [] f.count > 0 /\ age > 3 /\ age <= 7 -> 10
          [] f.count > 0 /\ age > 7 /\ age <= 14 -> 12
          [] f.count > 0 /\ age > 14 /\ age <= 21 -> 15

\* _followup_nudge_points
NudgePoints(f) ==
    LET age == today - f.at
    IN  CASE f.count = 0 \/ age > 21 -> 0
          [] f.count > 0 /\ age <= 3 -> 15
          [] f.count > 0 /\ age > 3 /\ age <= 7 -> 12
          [] f.count > 0 /\ age > 7 /\ age <= 14 -> 10
          [] f.count > 0 /\ age > 14 /\ age <= 21 -> 8

\* _apply_followup_context: the nudge stops at 5.
WithFollowup(prob, o) ==
    IF NudgePoints(followups[o]) = 0 THEN prob
    ELSE Max({5, prob - NudgePoints(followups[o])})

Slip(o) ==
    IF o = Demo THEN WithFollowup(PredictScenario(scenario), o)
    ELSE WithFollowup(PredictSourcing(orders[o]), o)

\* _urgency
Urgency(prob) ==
    CASE prob >= 70              -> "escalate"
      [] prob >= 40 /\ prob < 70 -> "nudge"
      [] prob >= 20 /\ prob < 40 -> "watch"
      [] prob < 20               -> "ok"

\* build_expedite_queue: the open orders.
Queue ==
    {o \in SourcingOrders : orders[o].status # "delivered"}
      \cup {o \in {Demo} : scenario.status # "received"}

-----------------------------------------------------------------------------
(* Steps *)

DaysPass(days) ==
    /\ today + days <= MaxDay
    /\ today' = today + days
    /\ UNCHANGED <<orders, scenario, followups>>

\* SAP released the order, or goods arrived (PurchaseOrder).
ChangeStatus(o, status) ==
    /\ orders' = [orders EXCEPT ![o].status = status]
    /\ UNCHANGED <<today, scenario, followups>>

\* log_followup_sent
LogFollowup(o) ==
    /\ o \in Queue
    /\ followups[o].count < MaxFollowups
    /\ followups' = [followups EXCEPT ![o] = [at |-> today, count |-> @.count + 1]]
    /\ UNCHANGED <<today, orders, scenario>>

\* schemas.SourcingPO and PurchaseOrder, what the queue reads of them.
SourcingPO == [status : {"draft", "released", "delivered"}, needBy : NeedBys,
               lead : LeadTimes, vendor : Vendors]
ScenarioPO == [status : ScenarioStatuses, due : Dues, lever : BOOLEAN,
               vendor : Vendors]

\* What the queue shows is in range as well.
TypeOK ==
    /\ today \in 0..MaxDay
    /\ orders \in [SourcingOrders -> SourcingPO]
    /\ scenario \in ScenarioPO
    /\ followups \in [SourcingOrders \cup {Demo} ->
                         [at : 0..MaxDay, count : 0..MaxFollowups]]
    /\ \A o \in Queue : /\ Slip(o) \in 0..95
                        /\ Urgency(Slip(o)) \in {"escalate", "nudge", "watch", "ok"}

Next ==
    \/ \E days \in Spans : DaysPass(days)
    \/ \E o \in SourcingOrders, s \in {"released", "delivered"} : ChangeStatus(o, s)
    \/ \E o \in SourcingOrders \cup {Demo} : LogFollowup(o)

Spec == Init /\ [][Next]_queueVars

-----------------------------------------------------------------------------
(* Properties *)

\* Time alone never lowers the probability that an order slips: as days pass the
\* runway shrinks and follow-ups wear off, one step of the tables after the other.
WaitingNeverHelps == [][today' > today => \A o \in Queue : Slip(o)' >= Slip(o)]_queueVars
=============================================================================
