------------------------------- MODULE MCDesk -------------------------------
(* Small instances of Desk for TLC: what the rows, bids and records may say. *)
EXTENDS Desk, TLC

CONSTANTS pr1, po1, po2

Row(id, project, milestone, need, lead, spec, status, quantity) ==
    [id |-> id, project |-> project, milestone |-> milestone, need |-> need,
     lead |-> lead, spec |-> spec, supplier |-> FALSE, status |-> status,
     quantity |-> quantity]

\* Rows with and without an id, a project, a milestone, a date; good quantities
\* and others; a milestone that an ingest takes away.
OwnRow     == Row("i1", "p1", "M2", 2, 4, TRUE, "", "positive")
ForeignRow == Row("", "p2", "M3", 4, 0, FALSE, "", "positive")
ZeroRow    == Row("", "", "", 3, 3, FALSE, "ordered", "zero")
BlankRow   == Row("", "P 2", "", 0, 1, TRUE, "delivered", "none")

ThreeWorkbooks ==
    {[projects |-> <<"P 2">>, lines |-> <<OwnRow, ForeignRow>>],
     [projects |-> <<"p1">>, lines |-> <<BlankRow, ZeroRow, ForeignRow>>],
     [projects |-> <<>>, lines |-> <<ForeignRow, OwnRow>>]}

Spellings == "P 2" :> "p2"

OneProject ==
    "p1" :> [tenant |-> "a", milestones |-> ("M1" :> 0 @@ "M2" :> 2 @@ "M3" :> 3)]

SomeBids ==
    {[vendor |-> v, total |-> t, lead |-> l, noted |-> n, delivered |-> n] :
        v \in {"good", "poor"}, t \in {60, 90}, l \in {0, 45}, n \in {TRUE}}
    \cup {[vendor |-> "new", total |-> 75, lead |-> 20, noted |-> FALSE,
           delivered |-> FALSE]}

ThreeSuppliers ==
    "good" :> [known |-> TRUE, otd |-> 96, alternatives |-> 1, ppm |-> 400,
               flags |-> 0, fresh |-> FALSE, ncr |-> TRUE, card |-> 88]
    @@ "poor" :> [known |-> TRUE, otd |-> 85, alternatives |-> 0, ppm |-> 2400,
                  flags |-> 2, fresh |-> TRUE, ncr |-> FALSE, card |-> 48]
    @@ "new" :> [known |-> FALSE, otd |-> 0, alternatives |-> 0, ppm |-> 0,
                 flags |-> 0, fresh |-> FALSE, ncr |-> FALSE, card |-> 0]

Criterion(w, m, c) == [weight |-> w, mandatory |-> m, category |-> c]

TwoCriteria ==
    "C1" :> Criterion(60, TRUE, "materials")
    @@ "C2" :> Criterion(40, FALSE, "experience")

OtherCriteria ==
    "C1" :> Criterion(30, FALSE, "delivery_terms")
    @@ "C2" :> Criterion(30, TRUE, "quality")

OneOtherSet == {OtherCriteria}

Weights == {<<6, 4>>, <<0, 1>>}

Score(i, s, l) == [id |-> i, score |-> s, level |-> l]

TwoSheets ==
    {<<Score("C1", 90, "full"), Score("C2", 70, "partial")>>,
     <<Score("C1", 20, "non_compliant"), Score("C2", 95, "full")>>}

ThreeFiles ==
    {[known |-> FALSE, otd |-> 0, flags |-> 0, ppm |-> 0],
     [known |-> TRUE, otd |-> 92, flags |-> 1, ppm |-> 400],
     [known |-> TRUE, otd |-> 80, flags |-> 4, ppm |-> 2000]}

\* One value in every band of every curve.
BandRecords ==
    [otd : {79, 94, 95, 100}, ppm : {250, 1000, 1001, 3001},
     alternatives : {0, 1}, flags : {0, 4}, spend : {0, 1000000}]

PoorProposals == {r \in BandRecords : r.otd = 79 /\ r.ppm = 3001 /\ r.flags = 4
                                      /\ r.alternatives = 0 /\ r.spend = 0}

\* A GRN with two lines on one order, and one with lines on two.
TwoGrns == "g1" :> <<"o1">> @@ "g2" :> <<"o1", "o2">>

\* The states that steps and properties tell apart: those of the component in focus,
\* as the others stay at their only initial state.  Nothing in SapLink reads a
\* status; the time a seed of the risk register was collected at matters only as far
\* as it is the present one.
AsFarAsRead ==
    LET documents == [x \in DOMAIN ent |-> <<ent[x].doc, ent[x].gr>>]
        seeds     == [s \in DOMAIN seeding |-> [seeding[s] EXCEPT !.at = @ = shifts]]
    IN  <<focus,
          CASE focus = "sap"    -> <<documents, docs, sent, inbox, resynced, missed,
                                     repeated>>
            [] focus = "files"  -> fileVars
            [] focus = "cache"  -> cacheVars
            [] focus = "risk"   -> <<rows, nextRow, signals, shifts, seeds, unsaved,
                                     told, kept, edits, riskFile, lastSeed = shifts,
                                     riskFaults>>
            [] focus = "plan"   -> planVars
            [] focus \in {"line", "views"} -> lineVars
            [] focus = "device" -> deviceVars
            [] focus = "vendor" -> masterVars
            [] focus = "bid"    -> bidVars
            [] focus = "queue"  -> queueVars
            [] focus = "trail"  -> auditVars>>

\* The premises of ViewsAgree and of FailingBidsRankLast hold here.
ASSUME TheoremPremises == 0 \notin ViewTotals /\ Bid!ReliabilityCounts
=============================================================================
