---------------------------- MODULE BidEvaluation ----------------------------
(***************************************************************************)
(* The evaluation of one RFQ's quotes: the commercial comparison           *)
(* (sourcing.compare_quotes) and the technical bid evaluation              *)
(* (app/tbe.py).  Criteria, evaluations and weights are stored; scores,    *)
(* ranks and the recommendation are computed at every read.  Commercial    *)
(* and combined scores are in tenths of a point, criterion weights in      *)
(* hundredths.                                                             *)
(***************************************************************************)
EXTENDS Integers, SequencesExt

CONSTANTS
    Bids,          \* what a quote may say: [vendor, total, lead, noted, delivered]
    Suppliers,     \* vendor -> [known, otd, alternatives, ppm, flags, fresh, ncr, card]
    Template,      \* criteria tbe.suggest_criteria picks for this RFQ
    CriteriaSets,  \* criteria a user may set: id -> [weight, mandatory, category]
    Sheets,        \* scores a user or the model may give: <<[id, score, level], ...>>
    WeightPairs,   \* <<commercial, technical>> a user may set
    MaxBids

Unset == <<>>

VARIABLES
    quotes,    \* the quotes in the order they came in
    criteria,  \* _criteria_by_rfq, or Unset
    evals,     \* _evaluations: quote -> [score, out, sheet]
    weights,   \* _weights
    under      \* history: quote -> the criteria it was scored under

bidVars == <<quotes, criteria, evals, weights, under>>

Init ==
    /\ quotes = <<>>
    /\ criteria = Unset
    /\ evals = <<>>
    /\ weights = <<6, 4>>
    /\ under = <<>>

\* round, for numbers that are not negative.
Rounded(num, den) == (2 * num + den) \div (2 * den)

-----------------------------------------------------------------------------
(* compare_quotes *)

Lowest   == Min({quotes[k].total : k \in DOMAIN quotes})
Shortest == Min({quotes[k].lead : k \in DOMAIN quotes})

\* 0.25 of the reliability, in tenths, times 32: OTD, an approved alternative
\* and quality, cut to 0..100; 55 for a vendor who is not on the list.
ReliabilityShare(v) ==
    LET s   == Suppliers[v]
        raw == 48 * s.otd + (IF s.alternatives >= 1 THEN 1600 ELSE 0)
                 + Max({0, 2000 - s.ppm})
    IN  IF s.known THEN Min({8000, raw}) ELSE 55 * 80

\* Fault: the ratio is upside down.
DearestFirst(best, value) == IF best = 0 THEN <<0, 1>> ELSE <<value, best>>

\* price_index and lead_time_index: best over own, and 0 for a quote of 0.
Index(best, value) == IF value = 0 THEN <<0, 1>> ELSE <<best, value>>

\* composite_score
Composite(k) ==
    LET price == Index(Lowest, quotes[k].total)
        lead  == Index(Shortest, quotes[k].lead)
    IN  Rounded(450 * 32 * price[1] * lead[2] + 300 * 32 * lead[1] * price[2]
                  + ReliabilityShare(quotes[k].vendor) * price[2] * lead[2],
                32 * price[2] * lead[2])

-----------------------------------------------------------------------------
(* tbe *)

\* get_criteria stores the template at the first read.
Read == IF criteria = Unset THEN Template ELSE criteria

Total(c) == MapThenSumSet(LAMBDA i : c[i].weight, DOMAIN c)

\* set_criteria: weights are scaled to sum to one.
Normalised(c) ==
    IF Total(c) \in {0, 100} THEN c
    ELSE [i \in DOMAIN c |-> [c[i] EXCEPT !.weight = Rounded(100 * @, Total(c))]]

Counted(c, sheet) == {n \in DOMAIN sheet : sheet[n].id \in DOMAIN c}

\* Fault: what the last score says stands for all of them.
LastMissed(c, sheet) ==
    \E n \in Counted(c, sheet) :
       /\ n = Len(sheet)
       /\ c[sheet[n].id].mandatory /\ sheet[n].level = "non_compliant"

Missed(c, sheet) ==
    \E n \in Counted(c, sheet) :
       c[sheet[n].id].mandatory /\ sheet[n].level = "non_compliant"

\* _compute_technical_score; scores for unknown criteria are passed over.
Evaluation(c, sheet) ==
    [score |-> Rounded(Min({100 * 100, MapThenSumSet(
                   LAMBDA n : c[sheet[n].id].weight * sheet[n].score,
                   Counted(c, sheet))}), 100),
     out   |-> Missed(c, sheet),
     sheet |-> sheet]

\* auto_evaluate without the model: one score per criterion from the scorecard
\* (65 without one), biased by the category, cut to 35..95.
Bias(bid, category) ==
    LET s == Suppliers[bid.vendor]
    IN  CASE category = "materials"      -> IF s.known /\ s.ncr THEN 2 ELSE 0
          [] category = "quality"        -> IF s.known THEN -2 * s.flags ELSE 0
          [] category = "warranty"       -> IF s.known /\ s.fresh THEN -2 ELSE 0
          [] category = "experience"     -> IF s.known /\ s.fresh THEN -8 ELSE 4
          [] category = "documentation"  -> IF bid.noted THEN 2 ELSE -3
          [] category = "delivery_terms" -> IF bid.delivered THEN 2 ELSE -2
          [] category = "spares_service" -> IF s.known THEN 0 ELSE -3
          [] OTHER                       -> 0

Level(raw) ==
    CASE raw >= 85              -> "full"
      [] raw >= 70 /\ raw < 85  -> "partial"
      [] raw >= 50 /\ raw < 70  -> "deviation"
      [] raw < 50               -> "non_compliant"

HeuristicScore(bid, category) ==
    LET s == Suppliers[bid.vendor]
    IN  Max({35, Min({95, (IF s.known THEN s.card ELSE 65) + Bias(bid, category)})})

Heuristic(c, bid) ==
    LET order == SetToSeq(DOMAIN c)
    IN  [n \in DOMAIN order |->
           LET raw == HeuristicScore(bid, c[order[n]].category)
           IN  [id |-> order[n], score |-> raw, level |-> Level(raw)]]

-----------------------------------------------------------------------------
(* Operations *)

AddQuote(bid) ==
    /\ Len(quotes) < MaxBids
    /\ quotes' = Append(quotes, bid)
    /\ UNCHANGED <<criteria, evals, weights, under>>

\* Every read of the criteria or of the evaluation.
ReadCriteria ==
    /\ criteria' = Read
    /\ UNCHANGED <<quotes, evals, weights, under>>

SetCriteria(c) ==
    /\ criteria' = Normalised(c)
    /\ UNCHANGED <<quotes, evals, weights, under>>

\* The evaluation is made with the criteria that are stored: none, when
\* nobody has read them yet.
SetEvaluation(k, sheet) ==
    /\ evals' = [i \in DOMAIN evals \cup {k} |->
                   IF i = k THEN Evaluation(criteria, sheet) ELSE evals[i]]
    /\ under' = [i \in DOMAIN under \cup {k} |-> IF i = k THEN criteria ELSE under[i]]
    /\ UNCHANGED <<quotes, criteria, weights>>

\* Every quote is scored, by the model where it answers with scores.
AutoEvaluate ==
    /\ quotes # <<>>
    /\ criteria' = Read
    /\ \E answers \in [DOMAIN quotes -> Sheets \cup {<<>>}] :
          evals' = [k \in DOMAIN quotes |->
                      Evaluation(Read, IF answers[k] # <<>> THEN answers[k]
                                       ELSE Heuristic(Read, quotes[k]))]
    /\ under' = [k \in DOMAIN quotes |-> Read]
    /\ UNCHANGED <<quotes, weights>>

SetWeights(pair) ==
    /\ weights' = pair
    /\ UNCHANGED <<quotes, criteria, evals, under>>

\* schemas.TechnicalCriterion, TechnicalScore, TechnicalEvaluation.
TechnicalCriterion  == [weight : 0..100, mandatory : BOOLEAN, category : STRING]
TechnicalScore      == [id : STRING, score : 0..100,
                        level : {"full", "partial", "deviation", "non_compliant"}]
TechnicalEvaluation == [score : 0..100, out : BOOLEAN, sheet : Seq(TechnicalScore)]

CriteriaOk(c) == c = Unset \/ Range(c) \subseteq TechnicalCriterion

TypeOK ==
    /\ quotes \in Seq(Bids)
    /\ CriteriaOk(criteria)
    /\ DOMAIN evals \subseteq DOMAIN quotes /\ DOMAIN under = DOMAIN evals
    /\ Range(evals) \subseteq TechnicalEvaluation
    /\ \A k \in DOMAIN under : CriteriaOk(under[k])
    /\ weights \in Nat \X Nat

Next ==
    \/ \E bid \in Bids : AddQuote(bid)
    \/ ReadCriteria
    \/ \E c \in CriteriaSets : SetCriteria(c)
    \/ \E k \in DOMAIN quotes, sheet \in Sheets : SetEvaluation(k, sheet)
    \/ AutoEvaluate
    \/ \E pair \in WeightPairs : SetWeights(pair)

Spec == Init /\ [][Next]_bidVars

-----------------------------------------------------------------------------
(* build_tbe *)

Out(k)   == k \in DOMAIN evals /\ evals[k].out
Score(k) == IF k \in DOMAIN evals THEN evals[k].score ELSE 0

\* Fault: a disqualified bid keeps its score.
Blend(k) ==
    LET sum == Max({1, weights[1] + weights[2]})
    IN  Rounded(weights[1] * Composite(k) + weights[2] * 10 * Score(k), sum)

Combined(k) ==
    IF Out(k) THEN 0
    ELSE LET sum == Max({1, weights[1] + weights[2]})
         IN  Rounded(weights[1] * Composite(k) + weights[2] * 10 * Score(k), sum)

\* combined_rank: a stable sort, the highest first.
Ahead(k, j) == Combined(k) > Combined(j) \/ (Combined(k) = Combined(j) /\ k < j)
CombinedRank(k) == 1 + Cardinality({j \in DOMAIN quotes : Ahead(j, k)})

\* recommended_vendor: the first of the best among the qualified.
Qualified == {k \in DOMAIN quotes : ~Out(k)}
Recommended ==
    {k \in Qualified : \A j \in Qualified \ {k} : Ahead(k, j)}

-----------------------------------------------------------------------------
(* Properties *)

\* No vendor's reliability is lost in the rounding: weighed, what it brings to
\* the commercial score comes to half a tenth of a point or more.
ReliabilityCounts ==
    \A pair \in WeightPairs \cup {<<6, 4>>}, v \in DOMAIN Suppliers :
       pair[1] > 0 =>
          2 * pair[1] * Rounded(ReliabilityShare(v), 32) >= pair[1] + pair[2]

\* A score on record says that the bid fails a criterion that was mandatory when
\* it was scored and is so today.
Failing(k) ==
    /\ k \in DOMAIN evals /\ under[k] = criteria
    /\ \E n \in DOMAIN evals[k].sheet :
          LET s == evals[k].sheet[n]
          IN  /\ s.id \in DOMAIN criteria /\ criteria[s.id].mandatory
              /\ s.level = "non_compliant"

\* While the commercial score counts, a bid that fails a mandatory criterion is
\* ranked below every qualified bid and never recommended, in whatever order its
\* scores and the weights were set, and the recommended bid is at the top of the
\* table.  (With a commercial weight of zero an unevaluated bid scores zero as
\* well; and scores given under other criteria are not looked at again.)
DisqualifiedRanksLast ==
    weights[1] > 0 =>
       /\ \A j \in DOMAIN quotes : Out(j) \/ Failing(j) =>
             /\ j \notin Recommended
             /\ \A k \in Qualified : CombinedRank(k) < CombinedRank(j)
       /\ \A k \in Recommended : CombinedRank(k) = 1

\* No dearer and no slower, from a vendor no less reliable, and technically no
\* worse.
NoWorse(k, j) ==
    /\ quotes[k].total <= quotes[j].total
    /\ quotes[k].lead <= quotes[j].lead
    /\ ReliabilityShare(quotes[k].vendor) >= ReliabilityShare(quotes[j].vendor)
    /\ Score(k) >= Score(j)

\* A bid that is no worse than another in anything the comparison looks at never
\* scores less, whatever the other bids are and with lead times of zero, which
\* take the lead time out of the comparison.
BetterBidNeverScoresLess ==
    \A k, j \in Qualified : NoWorse(k, j) => Combined(k) >= Combined(j)
=============================================================================
