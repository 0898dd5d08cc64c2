---------------------------- MODULE ScoreProofs -----------------------------
(***************************************************************************)
(* The three scores of the desk, proved to run the right way for whatever  *)
(* numbers the records, the quotes and the dates hold: the comparison of   *)
(* bids, the urgency of an order and a vendor's scorecard.  Each is a sum  *)
(* of curves, so each curve gets its lemma.                                *)
(***************************************************************************)
EXTENDS Desk, FiniteSetTheorems, SequenceTheorems, Sums, TLAPS

\* A step of the desk is a step of the bids, or leaves them alone.
LEMMA BidRuns == Spec => Bid!Spec
<1>1. Init => Bid!Init
  BY DEF Init
<1>2. [Next]_deskVars => [Bid!Next]_(Bid!bidVars)
  BY DEF Next, Rest, deskVars, bidVars, Bid!bidVars
<1> QED
  BY <1>1, <1>2, PTL DEF Spec, Bid!Spec

\* The same of the expediting queue.
LEMMA QueueRuns == Spec => Queue!Spec
<1>1. Init => Queue!Init
  BY DEF Init
<1>2. [Next]_deskVars => [Queue!Next]_(Queue!queueVars)
  BY DEF Next, Rest, deskVars, queueVars, Queue!queueVars
<1> QED
  BY <1>1, <1>2, PTL DEF Spec, Queue!Spec

-----------------------------------------------------------------------------
(* The bids *)

\* Products of natural numbers.
LEMMA TimesNat == \A a, b \in Nat : a * b \in Nat
  OBVIOUS

LEMMA TimesMono == \A a, b, c \in Nat : a >= b => a * c >= b * c
  OBVIOUS

LEMMA TimesCancels == \A a, b \in Int, c \in Nat \ {0} : a * c >= b * c => a >= b
  OBVIOUS

\* The larger and the smaller of two.
LEMMA MaxOfTwo ==
    ASSUME NEW a \in Int, NEW b \in Int
    PROVE  Bid!Max({a, b}) = IF a >= b THEN a ELSE b
  BY DEF Bid!Max

LEMMA MinOfTwo ==
    ASSUME NEW a \in Int, NEW b \in Int
    PROVE  Bid!Min({a, b}) = IF a <= b THEN a ELSE b
  BY DEF Bid!Min

LEMMA LeastOfMany ==
    ASSUME NEW T \in SUBSET Nat, T # {}
    PROVE  Bid!Min(T) \in T /\ \A n \in T : Bid!Min(T) <= n
<1>1. \E m \in T : \A n \in T : m <= n
  BY LeastNat
<1> QED
  BY <1>1 DEF Bid!Min

\* Rounding to the nearest, and that it keeps the order of two fractions.
LEMMA RoundedBounds ==
    ASSUME NEW n \in Nat, NEW d \in Nat \ {0}
    PROVE  /\ Bid!Rounded(n, d) \in Nat
           /\ 2 * d * Bid!Rounded(n, d) <= 2 * n + d
           /\ 2 * n + d < 2 * d * (Bid!Rounded(n, d) + 1)
<1> DEFINE a == 2 * n + d
           b == 2 * d
<1>1. a \in Nat /\ b \in Nat \ {0}
  OBVIOUS
<1> HIDE DEF a, b
<1>2. (a \div b) \in Nat /\ b * (a \div b) <= a /\ a < b * ((a \div b) + 1)
  BY <1>1
<1> QED
  BY <1>2 DEF Bid!Rounded, a, b

\* A hundredth of what is no more than 100 times 100.
LEMMA PercentRounded ==
    ASSUME NEW m \in Nat, m <= 100 * 100
    PROVE  Bid!Rounded(m, 100) \in Nat /\ Bid!Rounded(m, 100) <= 100
<1>1. PICK d \in Nat \ {0} : d = 100
  OBVIOUS
<1>2. Bid!Rounded(m, d) \in Nat /\ 2 * d * Bid!Rounded(m, d) <= 2 * m + d
  BY RoundedBounds
<1>3. PICK q \in Nat : q = Bid!Rounded(m, d) /\ 2 * d * q <= 2 * m + d
  BY Zenon, <1>2
<1>4. q <= 100
  BY <1>1, <1>3
<1> QED
  BY Zenon, <1>1, <1>3, <1>4

LEMMA RoundedMono ==
    ASSUME NEW n \in Nat, NEW d \in Nat \ {0}, NEW m \in Nat, NEW e \in Nat \ {0},
           n * e >= m * d
    PROVE  Bid!Rounded(n, d) >= Bid!Rounded(m, e)
<1> DEFINE r == Bid!Rounded(n, d)
           q == Bid!Rounded(m, e)
<1>1. /\ r \in Nat /\ 2 * n + d < 2 * d * (r + 1)
      /\ q \in Nat /\ 2 * e * q <= 2 * m + e
  BY RoundedBounds
<1> HIDE DEF r, q
<1> SUFFICES ASSUME q > r PROVE FALSE
  BY <1>1 DEF r, q
<1>2. 2 * n + d < 2 * d * q
  <2>1. q >= r + 1
    BY <1>1
  <2>2. q * (2 * d) >= (r + 1) * (2 * d)
    BY <1>1, <2>1, TimesMono
  <2> QED
    BY <1>1, <2>2
<1>3. (2 * n + d) * e < (2 * d * q) * e
  <2>1. 2 * n + d \in Nat /\ 2 * d * q \in Nat
    BY <1>1, TimesNat
  <2> QED
    BY <1>2, <2>1, TimesCancels
<1>4. (2 * e * q) * d <= (2 * m + e) * d
  <2>1. 2 * e * q \in Nat /\ 2 * m + e \in Nat
    BY <1>1, TimesNat
  <2> QED
    BY <1>1, <2>1, TimesMono
<1>5. (2 * n + d) * e = 2 * (n * e) + d * e /\ (2 * m + e) * d = 2 * (m * d) + d * e
  OBVIOUS
<1>6. (2 * d * q) * e = (2 * e * q) * d
  BY <1>1
<1>7. n * e \in Nat /\ m * d \in Nat /\ d * e \in Nat
  BY TimesNat
<1>8. (2 * e * q) * d \in Nat
  BY <1>1, TimesNat
<1> QED
  BY <1>3, <1>4, <1>5, <1>6, <1>7, <1>8
\* An index is a fraction, and does not fall when the value does.
LEMMA IndexMono ==
    ASSUME NEW best \in Nat, NEW v \in Nat, NEW u \in Nat, best <= v, v <= u
    PROVE  /\ Bid!Index(best, v)[1] \in Nat /\ Bid!Index(best, v)[2] \in Nat \ {0}
           /\ Bid!Index(best, u)[1] \in Nat /\ Bid!Index(best, u)[2] \in Nat \ {0}
           /\ Bid!Index(best, v)[1] * Bid!Index(best, u)[2]
                >= Bid!Index(best, u)[1] * Bid!Index(best, v)[2]
<1>1. CASE v = 0
  <2>1. Bid!Index(best, v) = <<0, 1>> /\ best = 0
    BY <1>1 DEF Bid!Index
  <2>2. Bid!Index(best, u)[1] = 0 /\ Bid!Index(best, u)[2] \in Nat \ {0}
    BY <2>1 DEF Bid!Index
  <2> QED
    BY <2>1, <2>2
<1>2. CASE v # 0
  <2>1. Bid!Index(best, v) = <<best, v>> /\ Bid!Index(best, u) = <<best, u>>
    BY <1>2 DEF Bid!Index
  <2>2. u * best >= v * best
    BY TimesMono
  <2> QED
    BY <1>2, <2>1, <2>2
<1> QED
  BY <1>1, <1>2

\* Two indices and a share, weighed; it keeps the order of all three.
Weighed(p1, p2, l1, l2, r) ==
    Bid!Rounded(450 * 32 * p1 * l2 + 300 * 32 * l1 * p2 + r * p2 * l2, 32 * p2 * l2)

LEMMA WeighedMono ==
    ASSUME NEW p1 \in Nat, NEW p2 \in Nat \ {0}, NEW q1 \in Nat, NEW q2 \in Nat \ {0},
           NEW l1 \in Nat, NEW l2 \in Nat \ {0}, NEW m1 \in Nat, NEW m2 \in Nat \ {0},
           NEW r \in Nat, NEW s \in Nat, p1 * q2 >= q1 * p2, l1 * m2 >= m1 * l2, r >= s
    PROVE  Weighed(p1, p2, l1, l2, r) >= Weighed(q1, q2, m1, m2, s)
<1> DEFINE n == 450 * 32 * p1 * l2 + 300 * 32 * l1 * p2 + r * p2 * l2
           d == 32 * p2 * l2
           m == 450 * 32 * q1 * m2 + 300 * 32 * m1 * q2 + s * q2 * m2
           e == 32 * q2 * m2
           pp == p2 * q2
           ll == l2 * m2
<1>1. /\ p1 * l2 \in Nat /\ l1 * p2 \in Nat /\ r * p2 * l2 \in Nat
      /\ q1 * m2 \in Nat /\ m1 * q2 \in Nat /\ s * q2 * m2 \in Nat
  BY TimesNat
<1>2. n \in Nat /\ m \in Nat
  BY <1>1
<1>3. d \in Nat \ {0} /\ e \in Nat \ {0}
  <2>1. \A a, b \in Nat \ {0} : a * b \in Nat \ {0}
    OBVIOUS
  <2> QED
    BY <2>1
<1>4. pp \in Nat /\ ll \in Nat
  BY TimesNat
<1>5. (p1 * q2) * ll >= (q1 * p2) * ll
  <2>1. p1 * q2 \in Nat /\ q1 * p2 \in Nat
    BY TimesNat
  <2> QED
    BY <1>4, <2>1, TimesMono
<1>6. (l1 * m2) * pp >= (m1 * l2) * pp
  <2>1. l1 * m2 \in Nat /\ m1 * l2 \in Nat
    BY TimesNat
  <2> QED
    BY <1>4, <2>1, TimesMono
<1>7. r * (pp * ll) >= s * (pp * ll)
  BY <1>4, TimesNat, TimesMono
<1>8. n * e = 32 * (14400 * ((p1 * q2) * ll) + 9600 * ((l1 * m2) * pp) + r * (pp * ll))
  OBVIOUS
<1>9. m * d = 32 * (14400 * ((q1 * p2) * ll) + 9600 * ((m1 * l2) * pp) + s * (pp * ll))
  OBVIOUS
<1>10. n * e >= m * d
  <2> DEFINE x1 == (p1 * q2) * ll
             y1 == (q1 * p2) * ll
             x2 == (l1 * m2) * pp
             y2 == (m1 * l2) * pp
             x3 == r * (pp * ll)
             y3 == s * (pp * ll)
  <2>1. /\ x1 \in Nat /\ y1 \in Nat /\ x2 \in Nat /\ y2 \in Nat /\ x3 \in Nat /\ y3 \in Nat
    BY <1>4, TimesNat
  <2>2. /\ x1 >= y1 /\ x2 >= y2 /\ x3 >= y3
        /\ n * e = 32 * (14400 * x1 + 9600 * x2 + x3)
        /\ m * d = 32 * (14400 * y1 + 9600 * y2 + y3)
    BY <1>5, <1>6, <1>7, <1>8, <1>9
  <2> HIDE DEF x1, y1, x2, y2, x3, y3, n, e, m, d
  <2> QED
    BY <2>1, <2>2
<1> HIDE DEF n, d, m, e
<1>11. Bid!Rounded(n, d) >= Bid!Rounded(m, e)
  BY <1>2, <1>3, <1>10, RoundedMono
<1> QED
  BY <1>11 DEF n, d, m, e, Weighed

LEMMA WeighedNat ==
    ASSUME NEW p1 \in Nat, NEW p2 \in Nat \ {0}, NEW l1 \in Nat, NEW l2 \in Nat \ {0},
           NEW r \in Nat
    PROVE  Weighed(p1, p2, l1, l2, r) \in Nat
<1> DEFINE n == 450 * 32 * p1 * l2 + 300 * 32 * l1 * p2 + r * p2 * l2
           d == 32 * p2 * l2
<1>1. n \in Nat
  <2>1. p1 * l2 \in Nat /\ l1 * p2 \in Nat /\ r * p2 * l2 \in Nat
    BY TimesNat
  <2> QED
    BY <2>1
<1>2. d \in Nat \ {0}
  <2>1. \A a, b \in Nat \ {0} : a * b \in Nat \ {0}
    OBVIOUS
  <2> QED
    BY <2>1
<1> HIDE DEF n, d
<1>3. Bid!Rounded(n, d) \in Nat
  BY <1>1, <1>2, RoundedBounds
<1> QED
  BY <1>3 DEF n, d, Weighed

LEMMA ReliabilityNat ==
    ASSUME NEW v \in DOMAIN Suppliers
    PROVE  Bid!ReliabilityShare(v) \in Nat
<1> DEFINE s == Suppliers[v]
           q == Bid!Max({0, 2000 - s.ppm})
           raw == 48 * s.otd + (IF s.alternatives >= 1 THEN 1600 ELSE 0) + q
<1>1. s.otd \in Nat /\ s.ppm \in Nat /\ s.alternatives \in Nat
  BY BidConstants
<1>2. q \in Nat
  <2>1. 2000 - s.ppm \in Int
    BY <1>1
  <2> HIDE DEF s
  <2> QED
    BY <2>1, MaxOfTwo
<1>3. raw \in Nat
  <2> HIDE DEF q, s
  <2> QED
    BY <1>1, <1>2
<1>4. Bid!Min({8000, raw}) \in Nat
  <2> HIDE DEF raw
  <2> QED
    BY <1>3, MinOfTwo
<1> QED
  BY <1>4 DEF Bid!ReliabilityShare

\* Criteria and scores there can be.
CriteriaFit(c) ==
    /\ IsFiniteSet(DOMAIN c) /\ DOMAIN c \subseteq STRING
    /\ \A i \in DOMAIN c : c[i] \in Bid!TechnicalCriterion
SheetFits(sheet) ==
    /\ sheet \in Seq(Bid!TechnicalScore)
    /\ IsFiniteSet(DOMAIN sheet) /\ \A n \in DOMAIN sheet : sheet[n].score \in Nat

BidInv ==
    /\ quotes \in Seq(Bids)
    /\ CriteriaFit(criteria)
    /\ \A k \in DOMAIN evals : evals[k].score \in Nat
    /\ weights \in Nat \X Nat

LEMMA CriterionWeight == \A x \in Bid!TechnicalCriterion : x.weight \in Nat
  BY DEF Bid!TechnicalCriterion

\* The total of the weights, as BidEvaluation writes it.
LEMMA WeightsSum ==
    ASSUME NEW c, CriteriaFit(c)
    PROVE  Bid!Total(c) \in Nat /\ \A i \in DOMAIN c : c[i].weight <= Bid!Total(c)
<1> DEFINE S == DOMAIN c
           w == [i \in S |-> c[i].weight]
           Table(g) ==
        g = [s \in SUBSET S |->
               IF s = {} THEN 0
               ELSE c[CHOOSE y \in s : TRUE].weight + g[s \ {CHOOSE y \in s : TRUE}]]
<1>1. Bid!Total(c) = (CHOOSE g : Table(g))[S]
  BY DEF Bid!Total, Bid!MapThenSumSet, Bid!MapThenFoldSet
<1>2. ASSUME NEW s \in SUBSET S, s # {}
      PROVE  c[CHOOSE y \in s : TRUE].weight = w[CHOOSE y \in s : TRUE]
  <2>1. (CHOOSE y \in s : TRUE) \in s
    BY <1>2
  <2> QED
    BY <2>1
<1>3. \A g : Table(g) <=> SumTable(w, g, S)
  BY <1>2 DEF SumTable, SumAt
<1>4. (CHOOSE g : Table(g)) = (CHOOSE g : SumTable(w, g, S))
  <2> HIDE DEF Table
  <2> QED
    BY <1>3
<1>5. IsFiniteSet(S) /\ \A i \in S : c[i].weight \in Nat /\ w[i] = c[i].weight
  BY DEF CriteriaFit, Bid!TechnicalCriterion
<1> HIDE DEF S, w, Table
<1>6. Bid!Total(c) = Total(w, S)
  BY <1>1, <1>4, TotalDef
<1>7. Total(w, S) \in Nat
  BY <1>5, TotalType
<1>8. ASSUME NEW i \in S PROVE w[i] <= Total(w, S)
  <2>1. Total(w, S) = w[i] + Total(w, S \ {i})
    BY <1>5, TotalRemove
  <2>2. Total(w, S \ {i}) \in Nat
    <3>1. IsFiniteSet(S \ {i}) /\ \A x \in S \ {i} : w[x] \in Nat
      BY <1>5, FS_RemoveElement
    <3> QED
      BY <3>1, TotalType
  <2> QED
    BY <1>5, <2>1, <2>2
<1> QED
  BY <1>5, <1>6, <1>7, <1>8 DEF S

\* set_criteria.
LEMMA NormalisedFits ==
    ASSUME NEW c, CriteriaFit(c)
    PROVE  CriteriaFit(Bid!Normalised(c))
<1> DEFINE t == Bid!Total(c)
<1>1. t \in Nat /\ \A i \in DOMAIN c : c[i].weight <= t
  BY WeightsSum
<1>2. CASE t \in {0, 100}
  BY <1>2 DEF Bid!Normalised
<1>3. CASE t \notin {0, 100}
  <2>1. Bid!Normalised(c) = [i \in DOMAIN c |->
                               [c[i] EXCEPT !.weight = Bid!Rounded(100 * @, t)]]
    BY <1>3 DEF Bid!Normalised
  <2> HIDE DEF t
  <2>2. ASSUME NEW i \in DOMAIN c
        PROVE  [c[i] EXCEPT !.weight = Bid!Rounded(100 * @, t)] \in Bid!TechnicalCriterion
    <3>1. c[i] \in Bid!TechnicalCriterion /\ c[i].weight \in Nat /\ c[i].weight <= t
      BY <1>1 DEF CriteriaFit, Bid!TechnicalCriterion
    <3> DEFINE q == Bid!Rounded(100 * c[i].weight, t)
    <3>2. q \in Nat /\ 2 * t * q <= 2 * (100 * c[i].weight) + t
      <4>1. 100 * c[i].weight \in Nat /\ t \in Nat \ {0}
        BY <1>1, <1>3, <3>1
      <4> QED
        BY <4>1, RoundedBounds
    <3> HIDE DEF q
    <3>3. q <= 100
      <4> SUFFICES ASSUME q >= 101 PROVE FALSE
        BY <3>2
      <4>1. q * (2 * t) >= 101 * (2 * t)
        BY <1>1, <3>2, TimesMono
      <4> QED
        BY <1>1, <1>3, <3>1, <3>2, <4>1
    <3>4. q \in 0..100
      BY <3>2, <3>3
    <3>5. [c[i] EXCEPT !.weight = q] \in Bid!TechnicalCriterion
      BY <3>1, <3>4 DEF Bid!TechnicalCriterion
    <3> QED
      BY <3>5 DEF q
  <2> QED
    BY <2>1, <2>2 DEF CriteriaFit
<1> QED
  BY <1>2, <1>3

\* _compute_technical_score.
LEMMA EvaluationScore ==
    ASSUME NEW c, CriteriaFit(c), NEW sheet, SheetFits(sheet)
    PROVE  Bid!Evaluation(c, sheet).score \in Nat /\ Bid!Evaluation(c, sheet).score <= 100
<1> DEFINE S == Bid!Counted(c, sheet)
           w == [n \in S |-> c[sheet[n].id].weight * sheet[n].score]
           Table(g) ==
        g = [s \in SUBSET S |->
               IF s = {} THEN 0
               ELSE c[sheet[CHOOSE y \in s : TRUE].id].weight
                       * sheet[CHOOSE y \in s : TRUE].score
                     + g[s \ {CHOOSE y \in s : TRUE}]]
           sum == (CHOOSE g : Table(g))[S]
<1>1. Bid!Evaluation(c, sheet).score = Bid!Rounded(Bid!Min({100 * 100, sum}), 100)
  BY DEF Bid!Evaluation, Bid!MapThenSumSet, Bid!MapThenFoldSet
<1>2. ASSUME NEW s \in SUBSET S, s # {}
      PROVE  c[sheet[CHOOSE y \in s : TRUE].id].weight * sheet[CHOOSE y \in s : TRUE].score
                = w[CHOOSE y \in s : TRUE]
  <2>1. (CHOOSE y \in s : TRUE) \in s
    BY <1>2
  <2> HIDE DEF S
  <2> QED
    BY <2>1
<1>3. \A g : Table(g) <=> SumTable(w, g, S)
  <2> HIDE DEF S, w
  <2> QED
    BY <1>2 DEF SumTable, SumAt
<1>4. (CHOOSE g : Table(g)) = (CHOOSE g : SumTable(w, g, S))
  <2> HIDE DEF Table
  <2> QED
    BY <1>3
<1>5. S \subseteq DOMAIN sheet /\ \A n \in S : sheet[n].id \in DOMAIN c
  BY DEF Bid!Counted
<1>6. \A n \in S : w[n] \in Nat
  <2> SUFFICES ASSUME NEW n \in S PROVE c[sheet[n].id].weight * sheet[n].score \in Nat
    OBVIOUS
  <2>1. c[sheet[n].id].weight \in Nat /\ sheet[n].score \in Nat
    <3> HIDE DEF S
    <3> QED
      BY SMTT(60), <1>5, CriterionWeight DEF CriteriaFit, SheetFits
  <2> QED
    BY <2>1, TimesNat
<1>7. IsFiniteSet(S)
  <2> HIDE DEF S
  <2> QED
    BY <1>5, FS_Subset DEF SheetFits
<1> HIDE DEF S, w, Table
<1>8. sum = Total(w, S)
  BY <1>4, TotalDef
<1>9. sum \in Nat
  BY <1>6, <1>7, <1>8, TotalType
<1> HIDE DEF sum
<1>10. PICK m \in Nat : m = Bid!Min({100 * 100, sum}) /\ m <= 100 * 100
  <2>1. PICK cap \in Nat : cap = 100 * 100
    OBVIOUS
  <2>2. Bid!Min({cap, sum}) \in Nat /\ Bid!Min({cap, sum}) <= cap
    BY <1>9, MinOfTwo
  <2> QED
    BY Zenon, <2>1, <2>2
<1>11. Bid!Evaluation(c, sheet).score = Bid!Rounded(m, 100)
  BY Zenon, <1>1, <1>10
<1>12. Bid!Rounded(m, 100) \in Nat /\ Bid!Rounded(m, 100) <= 100
  BY <1>10, PercentRounded
<1> QED
  BY Zenon, <1>11, <1>12

\* A heuristic score.
LEMMA HeuristicScores ==
    ASSUME NEW bid \in Bids, NEW category
    PROVE  Bid!HeuristicScore(bid, category) \in 35..95
<1> DEFINE s == Suppliers[bid.vendor]
           x == (IF s.known THEN s.card ELSE 65) + Bid!Bias(bid, category)
<1>1. s.card \in Nat /\ s.flags \in Nat
  BY BidConstants
<1>2. Bid!Bias(bid, category) \in Int
  BY <1>1 DEF Bid!Bias
<1>3. x \in Int
  <2> HIDE DEF s
  <2> QED
    BY <1>1, <1>2
<1>4. Bid!HeuristicScore(bid, category) = Bid!Max({35, Bid!Min({95, x})})
  BY DEF Bid!HeuristicScore
<1> HIDE DEF x
<1>5. PICK y \in Int : y = Bid!Min({95, x}) /\ y <= 95
  BY <1>3, MinOfTwo
<1>6. Bid!Max({35, y}) = IF 35 >= y THEN 35 ELSE y
  BY MaxOfTwo
<1>7. Bid!Max({35, y}) \in 35..95
  BY <1>5, <1>6
<1> QED
  BY Zenon, <1>4, <1>5, <1>7

\* How far a bid complies with a criterion.
Levels == {"full", "partial", "deviation", "non_compliant"}

LEMMA HeuristicFits ==
    ASSUME NEW c, CriteriaFit(c), NEW bid \in Bids
    PROVE  SheetFits(Bid!Heuristic(c, bid))
<1> DEFINE S == DOMAIN c
           order == Bid!SetToSeq(S)
           N == 1..Cardinality(S)
<1>1. Bid!Cardinality(S) = Cardinality(S)
  BY DEF Bid!Cardinality, Cardinality
<1>2. Cardinality(S) \in Nat /\ ExistsBijection(N, S)
  BY FS_CardinalityType DEF CriteriaFit
<1>3. \E f \in [N -> S] : Bid!IsInjective(f)
  <2>1. PICK f : f \in Bijection(N, S)
    BY <1>2 DEF ExistsBijection
  <2>2. f \in [N -> S] /\ \A a, b \in N : f[a] = f[b] => a = b
    <3> HIDE DEF N, S
    <3> QED
      BY <2>1 DEF Bijection, Injection, IsInjective
  <2>3. Bid!IsInjective(f)
    <3> HIDE DEF N, S
    <3> QED
      BY <2>2 DEF Bid!IsInjective
  <2> QED
    BY <2>2, <2>3
<1>4. order \in [N -> S]
  <2> HIDE DEF S
  <2> QED
    BY <1>1, <1>3 DEF Bid!SetToSeq
<1>5. Bid!Heuristic(c, bid) = [n \in DOMAIN order |->
         LET raw == Bid!HeuristicScore(bid, c[order[n]].category)
         IN  [id |-> order[n], score |-> raw, level |-> Bid!Level(raw)]]
  BY DEF Bid!Heuristic
<1>6. IsFiniteSet(N)
  BY <1>2, FS_Interval
<1> HIDE DEF order, N
<1>7. \A raw \in 35..95 : raw \in 0..100 /\ Bid!Level(raw) \in Levels
  BY DEF Bid!Level, Levels
<1>8. ASSUME NEW n \in N
      PROVE  /\ Bid!Heuristic(c, bid)[n] \in Bid!TechnicalScore
             /\ Bid!Heuristic(c, bid)[n].score \in Nat
  <2>1. PICK raw \in 35..95 : raw = Bid!HeuristicScore(bid, c[order[n]].category)
    BY HeuristicScores
  <2>2. order[n] \in STRING
    BY <1>4 DEF CriteriaFit
  <2>3. Bid!Heuristic(c, bid)[n] = [id |-> order[n], score |-> raw, level |-> Bid!Level(raw)]
    BY <1>4, <1>5, <2>1
  <2> QED
    BY <1>7, <2>2, <2>3 DEF Bid!TechnicalScore, Levels
<1>9. DOMAIN Bid!Heuristic(c, bid) = N
  BY <1>4, <1>5
<1>10. Bid!Heuristic(c, bid) \in Seq(Bid!TechnicalScore)
  <2>1. PICK n \in Nat : N = 1..n
    BY <1>2 DEF N
  <2>2. PICK sheet : sheet = Bid!Heuristic(c, bid)
    OBVIOUS
  <2>3. sheet = [k \in N |-> sheet[k]]
    BY <1>5, <1>9, <2>2
  <2>4. sheet \in [1..n -> Bid!TechnicalScore]
    BY <1>8, <2>1, <2>2, <2>3
  <2>5. sheet \in Seq(Bid!TechnicalScore)
    BY <2>4, SeqDef
  <2> QED
    BY <2>2, <2>5
<1> QED
  BY <1>6, <1>8, <1>9, <1>10 DEF SheetFits

\* What a user or the model may answer.
LEMMA SheetsFit == \A sheet \in Sheets : SheetFits(sheet)
<1> SUFFICES ASSUME NEW sheet \in Sheets PROVE SheetFits(sheet)
  OBVIOUS
<1>1. sheet \in Seq(Bid!TechnicalScore)
  BY BidConstants
<1>2. Len(sheet) \in Nat /\ DOMAIN sheet = 1..Len(sheet)
  BY <1>1
<1>3. IsFiniteSet(DOMAIN sheet)
  BY <1>2, FS_Interval
<1>4. \A n \in 1..Len(sheet) : sheet[n] \in Bid!TechnicalScore
  BY <1>1, ElementOfSeq
<1>5. \A x \in Bid!TechnicalScore : x.score \in Nat
  BY DEF Bid!TechnicalScore
<1>6. \A n \in DOMAIN sheet : sheet[n].score \in Nat
  BY <1>2, <1>4, <1>5
<1> QED
  BY <1>1, <1>3, <1>6 DEF SheetFits

LEMMA InitBid == Bid!Init => BidInv
<1> SUFFICES ASSUME Bid!Init PROVE BidInv
  OBVIOUS
<1>1. quotes = <<>> /\ criteria = <<>> /\ evals = <<>> /\ weights = <<6, 4>>
  BY DEF Bid!Init, Bid!Unset
<1>2. quotes \in Seq(Bids)
  BY <1>1, EmptySeq
<1>3. CriteriaFit(criteria)
  <2>1. DOMAIN criteria = {}
    BY <1>1
  <2> QED
    BY <2>1, FS_EmptySet DEF CriteriaFit
<1>4. DOMAIN evals = {} /\ weights \in Nat \X Nat
  BY <1>1
<1> QED
  BY <1>2, <1>3, <1>4 DEF BidInv

LEMMA StepBid == BidInv /\ [Bid!Next]_(Bid!bidVars) => BidInv'
<1> SUFFICES ASSUME BidInv, [Bid!Next]_(Bid!bidVars) PROVE BidInv'
  OBVIOUS
<1>1. CASE UNCHANGED Bid!bidVars
  BY <1>1 DEF BidInv, Bid!bidVars
<1>2. ASSUME NEW bid \in Bids, Bid!AddQuote(bid) PROVE BidInv'
  <2>1. quotes' \in Seq(Bids)
    BY <1>2, AppendProperties DEF Bid!AddQuote, BidInv
  <2> QED
    BY <1>2, <2>1 DEF Bid!AddQuote, BidInv
<1>3. CriteriaFit(Bid!Read)
  BY BidConstants DEF BidInv, Bid!Read, CriteriaFit
<1>4. CASE Bid!ReadCriteria
  BY <1>3, <1>4 DEF Bid!ReadCriteria, BidInv
<1>5. ASSUME NEW c \in CriteriaSets, Bid!SetCriteria(c) PROVE BidInv'
  <2>1. CriteriaFit(c)
    BY BidConstants DEF CriteriaFit
  <2>2. CriteriaFit(criteria')
    BY <1>5, <2>1, NormalisedFits DEF Bid!SetCriteria
  <2> QED
    BY <1>5, <2>2 DEF Bid!SetCriteria, BidInv
<1>6. \A sheet \in Sheets : SheetFits(sheet)
  BY SheetsFit
<1>7. ASSUME NEW k \in DOMAIN quotes, NEW sheet \in Sheets, Bid!SetEvaluation(k, sheet)
      PROVE  BidInv'
  <2>1. Bid!Evaluation(criteria, sheet).score \in Nat
    BY <1>6, EvaluationScore DEF BidInv
  <2>2. \A i \in DOMAIN evals' : evals'[i].score \in Nat
    BY <1>7, <2>1 DEF Bid!SetEvaluation, BidInv
  <2> QED
    BY <1>7, <2>2 DEF Bid!SetEvaluation, BidInv
<1>8. CASE Bid!AutoEvaluate
  <2>1. PICK answers \in [DOMAIN quotes -> Sheets \cup {<<>>}] :
          evals' = [k \in DOMAIN quotes |->
                      Bid!Evaluation(Bid!Read, IF answers[k] # <<>> THEN answers[k]
                                               ELSE Bid!Heuristic(Bid!Read, quotes[k]))]
    BY <1>8 DEF Bid!AutoEvaluate
  <2>2. ASSUME NEW k \in DOMAIN quotes PROVE evals'[k].score \in Nat
    <3>1. quotes[k] \in Bids
      <4>1. quotes \in Seq(Bids) /\ DOMAIN quotes = 1..Len(quotes)
        BY DEF BidInv
      <4> QED
        BY <4>1, ElementOfSeq
    <3>2. CASE answers[k] # <<>>
      <4>1. SheetFits(answers[k])
        BY <1>6, <3>2
      <4> QED
        BY <1>3, <2>1, <3>2, <4>1, EvaluationScore
    <3>3. CASE answers[k] = <<>>
      <4>1. SheetFits(Bid!Heuristic(Bid!Read, quotes[k]))
        BY <1>3, <3>1, HeuristicFits
      <4> QED
        BY <1>3, <2>1, <3>3, <4>1, EvaluationScore
    <3> QED
      BY <3>2, <3>3
  <2>3. DOMAIN evals' = DOMAIN quotes
    BY <2>1
  <2>4. criteria' = Bid!Read /\ UNCHANGED <<quotes, weights>>
    BY <1>8 DEF Bid!AutoEvaluate
  <2> QED
    BY <1>3, <2>2, <2>3, <2>4 DEF BidInv
<1>9. ASSUME NEW pair \in WeightPairs, Bid!SetWeights(pair) PROVE BidInv'
  BY <1>9, BidConstants DEF Bid!SetWeights, BidInv
<1> QED
  BY <1>1, <1>2, <1>4, <1>5, <1>7, <1>8, <1>9 DEF Bid!Next

\* The figures of every quote, and the lowest of them.
LEMMA BestFigures ==
    ASSUME BidInv, NEW k \in DOMAIN quotes
    PROVE  /\ \A n \in DOMAIN quotes : /\ quotes[n].total \in Nat /\ quotes[n].lead \in Nat
                                       /\ quotes[n].vendor \in DOMAIN Suppliers
           /\ Bid!Lowest \in Nat /\ \A n \in DOMAIN quotes : Bid!Lowest <= quotes[n].total
           /\ Bid!Shortest \in Nat /\ \A n \in DOMAIN quotes : Bid!Shortest <= quotes[n].lead
<1>1. \A n \in DOMAIN quotes : quotes[n] \in Bids
  <2>1. quotes \in Seq(Bids) /\ DOMAIN quotes = 1..Len(quotes)
    BY DEF BidInv
  <2> QED
    BY <2>1, ElementOfSeq
<1>2. \A n \in DOMAIN quotes : /\ quotes[n].total \in Nat /\ quotes[n].lead \in Nat
                               /\ quotes[n].vendor \in DOMAIN Suppliers
  BY <1>1, BidConstants
<1>3. Bid!Lowest \in Nat /\ \A n \in DOMAIN quotes : Bid!Lowest <= quotes[n].total
  <2> DEFINE T == {quotes[n].total : n \in DOMAIN quotes}
  <2>1. T \in SUBSET Nat /\ T # {}
    BY <1>2
  <2> HIDE DEF T
  <2>2. Bid!Min(T) \in T /\ \A n \in T : Bid!Min(T) <= n
    BY <2>1, LeastOfMany
  <2> QED
    BY <2>1, <2>2 DEF Bid!Lowest, T
<1>4. Bid!Shortest \in Nat /\ \A n \in DOMAIN quotes : Bid!Shortest <= quotes[n].lead
  <2> DEFINE T == {quotes[n].lead : n \in DOMAIN quotes}
  <2>1. T \in SUBSET Nat /\ T # {}
    BY <1>2
  <2> HIDE DEF T
  <2>2. Bid!Min(T) \in T /\ \A n \in T : Bid!Min(T) <= n
    BY <2>1, LeastOfMany
  <2> QED
    BY <2>1, <2>2 DEF Bid!Shortest, T
<1> QED
  BY <1>2, <1>3, <1>4

\* The commercial score of a bid that is no worse.
LEMMA CompositeMono ==
    ASSUME BidInv, NEW k \in DOMAIN quotes, NEW j \in DOMAIN quotes,
           quotes[k].total <= quotes[j].total, quotes[k].lead <= quotes[j].lead,
           Bid!ReliabilityShare(quotes[k].vendor) >= Bid!ReliabilityShare(quotes[j].vendor)
    PROVE  /\ Bid!Composite(k) >= Bid!Composite(j)
           /\ Bid!Composite(k) \in Nat /\ Bid!Composite(j) \in Nat
<1>2. \A n \in DOMAIN quotes : /\ quotes[n].total \in Nat /\ quotes[n].lead \in Nat
                               /\ quotes[n].vendor \in DOMAIN Suppliers
  BY BestFigures
<1>3. Bid!Lowest \in Nat /\ \A n \in DOMAIN quotes : Bid!Lowest <= quotes[n].total
  BY BestFigures
<1>4. Bid!Shortest \in Nat /\ \A n \in DOMAIN quotes : Bid!Shortest <= quotes[n].lead
  BY BestFigures
<1> DEFINE p == Bid!Index(Bid!Lowest, quotes[k].total)
           q == Bid!Index(Bid!Lowest, quotes[j].total)
           l == Bid!Index(Bid!Shortest, quotes[k].lead)
           m == Bid!Index(Bid!Shortest, quotes[j].lead)
           r == Bid!ReliabilityShare(quotes[k].vendor)
           s == Bid!ReliabilityShare(quotes[j].vendor)
<1>5. /\ p[1] \in Nat /\ p[2] \in Nat \ {0} /\ q[1] \in Nat /\ q[2] \in Nat \ {0}
      /\ p[1] * q[2] >= q[1] * p[2]
  BY <1>2, <1>3, IndexMono
<1>6. /\ l[1] \in Nat /\ l[2] \in Nat \ {0} /\ m[1] \in Nat /\ m[2] \in Nat \ {0}
      /\ l[1] * m[2] >= m[1] * l[2]
  BY <1>2, <1>4, IndexMono
<1>7. r \in Nat /\ s \in Nat /\ r >= s
  BY <1>2, ReliabilityNat
<1>8. /\ Bid!Composite(k) = Weighed(p[1], p[2], l[1], l[2], r)
      /\ Bid!Composite(j) = Weighed(q[1], q[2], m[1], m[2], s)
  BY DEF Bid!Composite, Weighed
<1> HIDE DEF p, q, l, m, r, s
<1>9. PICK p1 \in Nat, p2 \in Nat \ {0}, q1 \in Nat, q2 \in Nat \ {0} :
         p1 = p[1] /\ p2 = p[2] /\ q1 = q[1] /\ q2 = q[2]
  BY <1>5
<1>10. PICK l1 \in Nat, l2 \in Nat \ {0}, m1 \in Nat, m2 \in Nat \ {0} :
          l1 = l[1] /\ l2 = l[2] /\ m1 = m[1] /\ m2 = m[2]
  BY <1>6
<1>11. PICK r1 \in Nat, s1 \in Nat : r1 = r /\ s1 = s /\ r1 >= s1
  BY <1>7
<1>12. p1 * q2 >= q1 * p2 /\ l1 * m2 >= m1 * l2
  BY <1>5, <1>6, <1>9, <1>10
<1>13. Weighed(p1, p2, l1, l2, r1) \in Nat /\ Weighed(q1, q2, m1, m2, s1) \in Nat
  BY WeighedNat
<1>14. Weighed(p1, p2, l1, l2, r1) >= Weighed(q1, q2, m1, m2, s1)
  BY <1>11, <1>12, WeighedMono
<1>15. Bid!Composite(k) = Weighed(p1, p2, l1, l2, r1)
       /\ Bid!Composite(j) = Weighed(q1, q2, m1, m2, s1)
  BY <1>8, <1>9, <1>10, <1>11
<1> QED
  BY <1>13, <1>14, <1>15

\* A bid no dearer, no slower, of a vendor no less reliable and technically no
\* worse than another never scores less, for every price, lead time, record and
\* weight, and whatever other bids come in between (compare_quotes, build_tbe).
THEOREM BetterBids == Spec => []BetterBidNeverScoresLess
<1>1. BidInv => BetterBidNeverScoresLess
  <2> SUFFICES ASSUME BidInv, NEW k \in Bid!Qualified, NEW j \in Bid!Qualified,
                      Bid!NoWorse(k, j)
               PROVE  Bid!Combined(k) >= Bid!Combined(j)
    BY DEF BetterBidNeverScoresLess, Bid!BetterBidNeverScoresLess
  <2>1. /\ k \in DOMAIN quotes /\ ~Bid!Out(k)
        /\ j \in DOMAIN quotes /\ ~Bid!Out(j)
    BY DEF Bid!Qualified
  <2>2. /\ Bid!Composite(k) >= Bid!Composite(j)
        /\ Bid!Composite(k) \in Nat /\ Bid!Composite(j) \in Nat
    BY <2>1, CompositeMono DEF Bid!NoWorse
  <2>3. /\ Bid!Score(k) >= Bid!Score(j)
        /\ Bid!Score(k) \in Nat /\ Bid!Score(j) \in Nat
    BY DEF Bid!NoWorse, Bid!Score, BidInv
  <2>4. weights[1] \in Nat /\ weights[2] \in Nat
    BY DEF BidInv
  <2> DEFINE sum == Bid!Max({1, weights[1] + weights[2]})
             n == weights[1] * Bid!Composite(k) + weights[2] * 10 * Bid!Score(k)
             m == weights[1] * Bid!Composite(j) + weights[2] * 10 * Bid!Score(j)
  <2>5. sum \in Nat \ {0}
    BY <2>4, MaxOfTwo
  <2>6. n \in Nat /\ m \in Nat /\ n >= m
    <3>1. /\ Bid!Composite(k) * weights[1] >= Bid!Composite(j) * weights[1]
          /\ Bid!Score(k) * weights[2] >= Bid!Score(j) * weights[2]
      BY <2>2, <2>3, <2>4, TimesMono
    <3>2. /\ Bid!Composite(k) * weights[1] \in Nat /\ Bid!Composite(j) * weights[1] \in Nat
          /\ Bid!Score(k) * weights[2] \in Nat /\ Bid!Score(j) * weights[2] \in Nat
      BY <2>2, <2>3, <2>4, TimesNat
    <3>3. /\ n = Bid!Composite(k) * weights[1] + 10 * (Bid!Score(k) * weights[2])
          /\ m = Bid!Composite(j) * weights[1] + 10 * (Bid!Score(j) * weights[2])
      BY <2>2, <2>3, <2>4
    <3> HIDE DEF n, m
    <3> QED
      BY <3>1, <3>2, <3>3
  <2>7. Bid!Combined(k) = Bid!Rounded(n, sum) /\ Bid!Combined(j) = Bid!Rounded(m, sum)
    BY <2>1 DEF Bid!Combined
  <2> HIDE DEF sum, n, m
  <2>8. n * sum >= m * sum
    BY <2>5, <2>6, TimesMono
  <2> QED
    BY <2>5, <2>6, <2>7, <2>8, RoundedMono
<1> QED
  BY <1>1, BidRuns, InitBid, StepBid, PTL DEF Bid!Spec

\* A bid is out for the criteria it was scored under, whatever they are now.
RankInv ==
    /\ BidInv
    /\ DOMAIN under = DOMAIN evals
    /\ \A k \in DOMAIN evals : evals[k].out = Bid!Missed(under[k], evals[k].sheet)
    /\ weights \in WeightPairs \cup {<<6, 4>>}

LEMMA InitRank == Bid!Init => RankInv
<1> SUFFICES ASSUME Bid!Init PROVE RankInv
  OBVIOUS
<1>1. BidInv
  BY InitBid
<1>2. evals = <<>> /\ under = <<>> /\ weights = <<6, 4>>
  BY DEF Bid!Init
<1>3. DOMAIN evals = {}
  BY <1>2
<1> QED
  BY <1>1, <1>2, <1>3 DEF RankInv

LEMMA StepRank == RankInv /\ [Bid!Next]_(Bid!bidVars) => RankInv'
<1> SUFFICES ASSUME RankInv, [Bid!Next]_(Bid!bidVars) PROVE RankInv'
  OBVIOUS
<1>1. BidInv'
  BY StepBid DEF RankInv
<1>2. CASE UNCHANGED <<evals, under, weights>>
  BY <1>1, <1>2 DEF RankInv
<1>3. CASE \/ UNCHANGED Bid!bidVars
           \/ \E bid \in Bids : Bid!AddQuote(bid)
           \/ Bid!ReadCriteria
           \/ \E c \in CriteriaSets : Bid!SetCriteria(c)
  <2>1. UNCHANGED <<evals, under, weights>>
    BY <1>3 DEF Bid!AddQuote, Bid!ReadCriteria, Bid!SetCriteria, Bid!bidVars
  <2> QED
    BY <1>2, <2>1
<1>4. \A c, sheet : /\ Bid!Evaluation(c, sheet).out = Bid!Missed(c, sheet)
                    /\ Bid!Evaluation(c, sheet).sheet = sheet
  <2> SUFFICES ASSUME NEW c, NEW sheet
               PROVE  /\ Bid!Evaluation(c, sheet).out = Bid!Missed(c, sheet)
                      /\ Bid!Evaluation(c, sheet).sheet = sheet
    OBVIOUS
  <2> DEFINE score == Bid!Rounded(Bid!Min({100 * 100, Bid!MapThenSumSet(
                          LAMBDA n : c[sheet[n].id].weight * sheet[n].score,
                          Bid!Counted(c, sheet))}), 100)
  <2>1. Bid!Evaluation(c, sheet)
           = [score |-> score, out |-> Bid!Missed(c, sheet), sheet |-> sheet]
    BY Zenon DEF Bid!Evaluation
  <2> HIDE DEF score
  <2> QED
    BY <2>1
<1>5. ASSUME NEW k \in DOMAIN quotes, NEW sheet \in Sheets, Bid!SetEvaluation(k, sheet)
      PROVE  RankInv'
  <2>1. /\ evals' = [i \in DOMAIN evals \cup {k} |->
                       IF i = k THEN Bid!Evaluation(criteria, sheet) ELSE evals[i]]
        /\ under' = [i \in DOMAIN under \cup {k} |->
                       IF i = k THEN criteria ELSE under[i]]
        /\ weights' = weights
    BY <1>5 DEF Bid!SetEvaluation
  <2>2. ASSUME NEW i \in DOMAIN evals'
        PROVE  evals'[i].out = Bid!Missed(under'[i], evals'[i].sheet)
    <3>1. CASE i = k
      <4>1. evals'[i] = Bid!Evaluation(criteria, sheet) /\ under'[i] = criteria
        BY <2>1, <2>2, <3>1 DEF RankInv
      <4> QED
        BY <1>4, <4>1
    <3>2. CASE i # k
      <4>1. /\ i \in DOMAIN evals /\ evals'[i] = evals[i] /\ under'[i] = under[i]
        BY <2>1, <2>2, <3>2 DEF RankInv
      <4> QED
        BY <4>1 DEF RankInv
    <3> QED
      BY <3>1, <3>2
  <2>3. DOMAIN under' = DOMAIN evals'
    BY <2>1 DEF RankInv
  <2>4. weights' \in WeightPairs \cup {<<6, 4>>}
    BY <2>1 DEF RankInv
  <2>5. (\A i \in DOMAIN evals : evals[i].out = Bid!Missed(under[i], evals[i].sheet))'
    BY <2>2 DEF Bid!Missed, Bid!Counted
  <2> QED
    BY <1>1, <2>3, <2>4, <2>5 DEF RankInv
<1>6. CASE Bid!AutoEvaluate
  <2>1. PICK answers \in [DOMAIN quotes -> Sheets \cup {<<>>}] :
          evals' = [k \in DOMAIN quotes |->
                      Bid!Evaluation(Bid!Read, IF answers[k] # <<>> THEN answers[k]
                                               ELSE Bid!Heuristic(Bid!Read, quotes[k]))]
    BY <1>6 DEF Bid!AutoEvaluate
  <2>2. under' = [k \in DOMAIN quotes |-> Bid!Read] /\ weights' = weights
    BY <1>6 DEF Bid!AutoEvaluate
  <2>3. ASSUME NEW i \in DOMAIN evals'
        PROVE  evals'[i].out = Bid!Missed(under'[i], evals'[i].sheet)
    <3> DEFINE sheet == IF answers[i] # <<>> THEN answers[i]
                        ELSE Bid!Heuristic(Bid!Read, quotes[i])
    <3>1. evals'[i] = Bid!Evaluation(Bid!Read, sheet) /\ under'[i] = Bid!Read
      BY <2>1, <2>2, <2>3
    <3> HIDE DEF sheet
    <3> QED
      BY <1>4, <3>1
  <2>4. DOMAIN under' = DOMAIN evals'
    BY <2>1, <2>2
  <2>5. weights' \in WeightPairs \cup {<<6, 4>>}
    BY <2>2 DEF RankInv
  <2>6. (\A i \in DOMAIN evals : evals[i].out = Bid!Missed(under[i], evals[i].sheet))'
    BY <2>3 DEF Bid!Missed, Bid!Counted
  <2> QED
    BY <1>1, <2>4, <2>5, <2>6 DEF RankInv
<1>7. ASSUME NEW pair \in WeightPairs, Bid!SetWeights(pair) PROVE RankInv'
  BY <1>1, <1>7 DEF Bid!SetWeights, RankInv
<1> QED
  BY <1>3, <1>5, <1>6, <1>7 DEF Bid!Next

\* A commercial score is at least what the reliability brings.
LEMMA CompositeAbove ==
    ASSUME BidInv, NEW k \in DOMAIN quotes
    PROVE  /\ quotes[k].vendor \in DOMAIN Suppliers
           /\ Bid!Rounded(Bid!ReliabilityShare(quotes[k].vendor), 32) \in Nat
           /\ Bid!Composite(k) \in Nat
           /\ Bid!Composite(k) >= Bid!Rounded(Bid!ReliabilityShare(quotes[k].vendor), 32)
<1> DEFINE p == Bid!Index(Bid!Lowest, quotes[k].total)
           l == Bid!Index(Bid!Shortest, quotes[k].lead)
           r == Bid!ReliabilityShare(quotes[k].vendor)
<1>1. /\ quotes[k].total \in Nat /\ quotes[k].lead \in Nat
      /\ quotes[k].vendor \in DOMAIN Suppliers
      /\ Bid!Lowest \in Nat /\ Bid!Lowest <= quotes[k].total
      /\ Bid!Shortest \in Nat /\ Bid!Shortest <= quotes[k].lead
  BY BestFigures
<1>2. p[1] \in Nat /\ p[2] \in Nat \ {0}
  BY <1>1, IndexMono
<1>3. l[1] \in Nat /\ l[2] \in Nat \ {0}
  BY <1>1, IndexMono
<1>4. r \in Nat
  BY <1>1, ReliabilityNat
<1>5. Bid!Composite(k) = Weighed(p[1], p[2], l[1], l[2], r)
  BY DEF Bid!Composite, Weighed
<1> HIDE DEF p, l, r
<1>6. PICK p1 \in Nat, p2 \in Nat \ {0}, l1 \in Nat, l2 \in Nat \ {0}, r1 \in Nat :
         p1 = p[1] /\ p2 = p[2] /\ l1 = l[1] /\ l2 = l[2] /\ r1 = r
  BY <1>2, <1>3, <1>4
<1>7. Weighed(0, 1, 0, 1, r1) = Bid!Rounded(r1, 32)
  <2>1. 450 * 32 * 0 * 1 + 300 * 32 * 0 * 1 + r1 * 1 * 1 = r1 /\ 32 * 1 * 1 = 32
    OBVIOUS
  <2> QED
    BY <2>1 DEF Weighed
<1>8. Weighed(p1, p2, l1, l2, r1) >= Weighed(0, 1, 0, 1, r1)
  <2>1. PICK z \in Nat, o \in Nat \ {0} : z = 0 /\ o = 1
    OBVIOUS
  <2>2. p1 * o >= z * p2 /\ l1 * o >= z * l2 /\ r1 >= r1
    BY <2>1
  <2>3. Weighed(p1, p2, l1, l2, r1) >= Weighed(z, o, z, o, r1)
    BY <2>2, WeighedMono
  <2> QED
    BY <2>1, <2>3
<1>9. Weighed(p1, p2, l1, l2, r1) \in Nat
  BY WeighedNat
<1>10. Bid!Rounded(r1, 32) \in Nat
  BY RoundedBounds
<1> QED
  BY <1>1, <1>5, <1>6, <1>7, <1>8, <1>9, <1>10 DEF r

\* What a bid is ranked by: zero when it is out, and more than zero otherwise.
LEMMA QualifiedAboveZero ==
    ASSUME RankInv, Bid!ReliabilityCounts, weights[1] > 0, NEW k \in DOMAIN quotes
    PROVE  /\ Bid!Combined(k) \in Nat
           /\ Bid!Out(k) => Bid!Combined(k) = 0
           /\ ~Bid!Out(k) => Bid!Combined(k) > 0
<1>1. CASE Bid!Out(k)
  BY <1>1 DEF Bid!Combined
<1>2. CASE ~Bid!Out(k)
  <2> DEFINE c == Bid!Composite(k)
             s == Bid!Score(k)
             base == Bid!Rounded(Bid!ReliabilityShare(quotes[k].vendor), 32)
             w == weights[1]
             t == weights[2]
             sum == Bid!Max({1, weights[1] + weights[2]})
             n == w * c + t * 10 * s
  <2>1. c \in Nat /\ base \in Nat /\ c >= base /\ quotes[k].vendor \in DOMAIN Suppliers
    BY CompositeAbove DEF RankInv
  <2>2. s \in Nat
    BY DEF Bid!Score, RankInv, BidInv
  <2>3. w \in Nat \ {0} /\ t \in Nat
    BY DEF RankInv, BidInv
  <2>4. 2 * w * base >= w + t
    BY <2>1 DEF Bid!ReliabilityCounts, RankInv
  <2>5. sum = w + t
    <3>1. w + t \in Int /\ w + t >= 1
      BY <2>3
    <3> QED
      BY <3>1, MaxOfTwo
  <2>6. Bid!Combined(k) = Bid!Rounded(n, sum)
    BY <1>2 DEF Bid!Combined
  <2> HIDE DEF c, s, base, w, t, sum
  <2>7. n \in Nat /\ 2 * n >= w + t
    <3> DEFINE x == w * c
               y == w * base
               z == t * s
    <3>1. x \in Nat /\ y \in Nat /\ z \in Nat
      BY <2>1, <2>2, <2>3, TimesNat
    <3>2. x >= y
      <4>1. c * w >= base * w
        BY <2>1, <2>3, TimesMono
      <4>2. c * w = w * c /\ base * w = w * base
        BY <2>1, <2>3
      <4> QED
        BY <4>1, <4>2
    <3>3. n = x + 10 * z
      BY <2>1, <2>2, <2>3
    <3>4. 2 * y >= w + t
      <4>1. 2 * w * base = 2 * y
        BY <2>1, <2>3
      <4> QED
        BY <2>4, <4>1
    <3> HIDE DEF n, x, y, z
    <3> QED
      BY <2>3, <3>1, <3>2, <3>3, <3>4
  <2> HIDE DEF n
  <2>8. sum \in Nat \ {0} /\ n \in Nat /\ 2 * n >= sum
    BY <2>3, <2>5, <2>7
  <2>9. /\ Bid!Rounded(n, sum) \in Nat
        /\ 2 * n + sum < 2 * sum * (Bid!Rounded(n, sum) + 1)
    BY <2>8, RoundedBounds
  <2>10. Bid!Rounded(n, sum) # 0
    BY <2>8, <2>9
  <2> QED
    BY <1>2, <2>6, <2>9, <2>10
<1> QED
  BY <1>1, <1>2

\* While the commercial score counts, a bid that fails a mandatory criterion, or
\* did when it was scored, is ranked below every qualified bid and never
\* recommended, and the recommended bid leads the table (build_tbe).  A bid is
\* told from one that is out by its score alone, so this is so only where no
\* vendor's reliability is lost in the rounding.
THEOREM FailingBidsRankLast == Bid!ReliabilityCounts => (Spec => []DisqualifiedRanksLast)
<1> SUFFICES ASSUME Bid!ReliabilityCounts PROVE Spec => []DisqualifiedRanksLast
  OBVIOUS
<1>1. RankInv => DisqualifiedRanksLast
  <2> SUFFICES ASSUME RankInv, weights[1] > 0 PROVE Bid!DisqualifiedRanksLast
    BY DEF DisqualifiedRanksLast, Bid!DisqualifiedRanksLast
  <2> DEFINE C(k) == Bid!Combined(k)
             A(k) == {i \in DOMAIN quotes : Bid!Ahead(i, k)}
  <2>1. \A k \in DOMAIN quotes : /\ C(k) \in Nat
                                 /\ Bid!Out(k) => C(k) = 0
                                 /\ ~Bid!Out(k) => C(k) > 0
    BY QualifiedAboveZero
  <2>2. DOMAIN quotes = 1..Len(quotes) /\ Len(quotes) \in Nat
    BY DEF RankInv, BidInv
  <2>3. \A k, j \in DOMAIN quotes :
           Bid!Ahead(k, j) <=> (C(k) > C(j) \/ (C(k) = C(j) /\ k < j))
    BY DEF Bid!Ahead
  <2>4. \A k : Bid!CombinedRank(k) = 1 + Cardinality(A(k))
    BY DEF Bid!CombinedRank, Bid!Cardinality, Cardinality
  <2>5. \A k : IsFiniteSet(A(k)) /\ Cardinality(A(k)) \in Nat
    <3>1. IsFiniteSet(DOMAIN quotes)
      BY <2>2, FS_Interval
    <3>2. \A k : A(k) \in SUBSET DOMAIN quotes
      OBVIOUS
    <3> QED
      BY <3>1, <3>2, FS_Subset, FS_CardinalityType
  <2>6. ASSUME NEW j \in DOMAIN quotes, Bid!Failing(j) PROVE Bid!Out(j)
    BY <2>6 DEF Bid!Failing, Bid!Out, Bid!Missed, Bid!Counted, RankInv
  <2>7. ASSUME NEW j \in DOMAIN quotes, Bid!Out(j), NEW k \in Bid!Qualified
        PROVE  Bid!CombinedRank(k) < Bid!CombinedRank(j)
    <3>1. k \in DOMAIN quotes /\ ~Bid!Out(k)
      BY DEF Bid!Qualified
    <3>2. C(k) \in Nat /\ C(k) > 0 /\ C(j) = 0
      BY <2>1, <2>7, <3>1
    <3> HIDE DEF C
    <3>3. A(k) \subseteq A(j)
      <4> SUFFICES ASSUME NEW i \in DOMAIN quotes, Bid!Ahead(i, k) PROVE Bid!Ahead(i, j)
        OBVIOUS
      <4>1. C(i) \in Nat /\ (C(i) > C(k) \/ C(i) = C(k))
        BY <2>1, <2>3, <3>1
      <4> QED
        BY <2>3, <3>2, <4>1
    <3>4. k \in A(j) /\ k \notin A(k)
      <4>1. k \in Int
        BY <2>2, <3>1
      <4>2. Bid!Ahead(k, j)
        BY <2>3, <3>1, <3>2
      <4>3. ~Bid!Ahead(k, k)
        BY <2>3, <3>1, <3>2, <4>1
      <4> QED
        BY <3>1, <4>2, <4>3
    <3> HIDE DEF A
    <3>5. Cardinality(A(k)) < Cardinality(A(j))
      BY <2>5, <3>3, <3>4, FS_Subset
    <3> QED
      BY <2>4, <2>5, <3>5
  <2>8. ASSUME NEW k \in Bid!Recommended PROVE Bid!CombinedRank(k) = 1
    <3>1. /\ k \in DOMAIN quotes /\ ~Bid!Out(k)
          /\ \A j \in Bid!Qualified \ {k} : Bid!Ahead(k, j)
      BY DEF Bid!Recommended, Bid!Qualified
    <3>2. ASSUME NEW i \in DOMAIN quotes PROVE ~Bid!Ahead(i, k)
      <4>1. /\ C(i) \in Nat /\ C(k) \in Nat /\ C(k) > 0 /\ i \in Int /\ k \in Int
            /\ Bid!Out(i) => C(i) = 0
        BY <2>1, <2>2, <3>1
      <4>2. Bid!Ahead(i, k) <=> (C(i) > C(k) \/ (C(i) = C(k) /\ i < k))
        BY <2>3, <3>1
      <4>3. ~Bid!Out(i) /\ i # k => C(k) > C(i) \/ (C(k) = C(i) /\ k < i)
        BY <2>3, <3>1 DEF Bid!Qualified
      <4> HIDE DEF C
      <4> QED
        BY <4>1, <4>2, <4>3
    <3>3. A(k) = {}
      BY <3>2
    <3> HIDE DEF A
    <3> QED
      BY <2>4, <3>3, FS_EmptySet
  <2>9. ASSUME NEW j \in DOMAIN quotes, Bid!Out(j) PROVE j \notin Bid!Recommended
    BY <2>9 DEF Bid!Recommended, Bid!Qualified
  <2> QED
    BY <2>6, <2>7, <2>8, <2>9 DEF Bid!DisqualifiedRanksLast
<1>2. Bid!Spec => []RankInv
  BY InitRank, StepRank, PTL DEF Bid!Spec
<1> QED
  BY <1>1, <1>2, BidRuns, PTL

-----------------------------------------------------------------------------
(* The expediting queue *)

\* The queue and its follow-ups have their types, and none is of a later day.
QueueInv ==
    /\ today \in 0..MaxDay
    /\ dueOrders \in [SourcingOrders -> Queue!SourcingPO]
    /\ scenario \in Queue!ScenarioPO
    /\ followups \in [SourcingOrders \cup {Queue!Demo} ->
                         [at : 0..MaxDay, count : 0..MaxFollowups]]
    /\ \A o \in SourcingOrders \cup {Queue!Demo} : followups[o].at <= today

\* The larger and the smaller of two numbers.
LEMMA LargerSmaller ==
    ASSUME NEW a \in Int, NEW b \in Int
    PROVE  /\ Queue!Max({a, b}) = IF a >= b THEN a ELSE b
           /\ Queue!Min({a, b}) = IF a <= b THEN a ELSE b
<1>1. ASSUME NEW m \in {a, b}, \A x \in {a, b} : m >= x
      PROVE  Queue!Max({a, b}) = m
  BY <1>1 DEF Queue!Max
<1>2. ASSUME NEW m \in {a, b}, \A x \in {a, b} : m <= x
      PROVE  Queue!Min({a, b}) = m
  BY <1>2 DEF Queue!Min
<1>3. CASE a >= b
  BY <1>1, <1>2, <1>3
<1>4. CASE a < b
  BY <1>1, <1>2, <1>4
<1> QED
  BY <1>3, <1>4

\* A capped sum of points is a percentage, and grows with the sum.  Every sum
\* begins at 6 or 8 points, so that none is below the 5 at which a nudge stops:
\* else a follow-up would raise it, and waiting would then help.
LEMMA CappedGrows ==
    ASSUME NEW a \in Int, NEW b \in Int, 6 <= a, a <= b
    PROVE  /\ Queue!Capped(a) \in 6..95 /\ Queue!Capped(b) \in 6..95
           /\ Queue!Capped(a) <= Queue!Capped(b)
<1>1. \A x \in Int : Queue!Capped(x) = IF x <= 0 THEN 0 ELSE IF x >= 95 THEN 95 ELSE x
  <2> SUFFICES ASSUME NEW x \in Int
               PROVE  Queue!Capped(x) = IF x <= 0 THEN 0 ELSE IF x >= 95 THEN 95 ELSE x
    OBVIOUS
  <2>1. Queue!Min({95, x}) = IF 95 <= x THEN 95 ELSE x
    <3>1. PICK cap \in Int : cap = 95
      OBVIOUS
    <3>2. Queue!Min({cap, x}) = IF cap <= x THEN cap ELSE x
      BY LargerSmaller
    <3> QED
      BY Zenon, <3>1, <3>2
  <2>2. Queue!Max({0, Queue!Min({95, x})}) =
          IF 0 >= Queue!Min({95, x}) THEN 0 ELSE Queue!Min({95, x})
    BY <2>1, LargerSmaller
  <2> QED
    BY <2>1, <2>2 DEF Queue!Capped
<1> QED
  BY <1>1

\* A vendor's parts of the points are numbers, and never take any away.
LEMMA VendorPart ==
    ASSUME NEW v \in VendorFiles, NEW cap \in Nat
    PROVE  Queue!Late(v, cap) \in Nat /\ Queue!Min({cap, 5 * v.flags}) \in Nat
<1>1. v.otd \in Int /\ v.flags \in Nat
  BY QueueConstants
<1>2. Queue!Min({cap, 5 * v.flags}) \in Nat
  <2> DEFINE k == 5 * v.flags
  <2>1. k \in Nat
    BY <1>1
  <2> HIDE DEF k
  <2>2. Queue!Min({cap, k}) \in Nat
    BY <2>1, LargerSmaller
  <2> QED
    BY <2>2 DEF k
<1>3. CASE v.otd < 95
  <2> DEFINE k == 3 * (95 - v.otd)
  <2>1. k \in Nat
    BY <1>1, <1>3
  <2> HIDE DEF k
  <2>2. Queue!Min({cap, k}) \in Nat
    BY <2>1, LargerSmaller
  <2> QED
    BY <1>2, <1>3, <2>2 DEF k, Queue!Late
<1> QED
  BY <1>1, <1>2, <1>3 DEF Queue!Late

\* The days left of an order, and how many points its runway adds.
LEMMA SourcingGrows ==
    ASSUME QueueInv, NEW o \in SourcingOrders, today' \in Int, today' >= today,
           UNCHANGED dueOrders
    PROVE  /\ Queue!PredictSourcing(dueOrders[o]) \in 6..95
           /\ Queue!PredictSourcing(dueOrders[o])' \in 6..95
           /\ Queue!PredictSourcing(dueOrders[o]) <= Queue!PredictSourcing(dueOrders[o])'
<1> DEFINE po == dueOrders[o]
           Points(due) == 6 + (IF po.status = "in_transit" /\ due <= 7 THEN 25 ELSE 0)
                 + (IF po.status = "draft" /\ due <= po.lead THEN 40 ELSE 0)
                 + (IF po.vendor.known THEN Queue!Late(po.vendor, 28)
                      + Queue!Min({18, 5 * po.vendor.flags}) ELSE 5)
                 + (IF due <= 14 THEN 8 ELSE 0)
<1>1. /\ po \in Queue!SourcingPO /\ po' = po
      /\ po.lead \in Int /\ po.vendor \in VendorFiles
      /\ po.needBy = NoDate \/ po.needBy \in Int
  BY QueueConstants DEF QueueInv, Queue!SourcingPO
<1>2. /\ Queue!Late(po.vendor, 28) \in Nat
      /\ Queue!Min({18, 5 * po.vendor.flags}) \in Nat
  BY <1>1, VendorPart
<1>3. /\ Queue!DaysUntil(po) \in Int /\ Queue!DaysUntil(po)' \in Int
      /\ Queue!DaysUntil(po)' <= Queue!DaysUntil(po)
  BY <1>1, QueueConstants DEF Queue!DaysUntil, QueueInv
<1>4. /\ Queue!PredictSourcing(po) = Queue!Capped(Points(Queue!DaysUntil(po)))
      /\ Queue!PredictSourcing(po)' = Queue!Capped(Points(Queue!DaysUntil(po)'))
  <2>1. Queue!PredictSourcing(po) = Queue!Capped(Points(Queue!DaysUntil(po)))
    BY DEF Queue!PredictSourcing
  <2> QED
    BY <2>1, <1>1 DEF Queue!PredictSourcing, Queue!Capped, Queue!Late, Queue!Max, Queue!Min
<1>5. ASSUME NEW c \in Int, NEW d \in Int, d <= c
      PROVE  Points(c) \in Int /\ Points(d) \in Int /\ 6 <= Points(c) /\ Points(c) <= Points(d)
  BY <1>1, <1>2, <1>5
<1> HIDE DEF po, Points
<1> QED
  <2>1. /\ Points(Queue!DaysUntil(po)) \in Int /\ Points(Queue!DaysUntil(po)') \in Int
        /\ 6 <= Points(Queue!DaysUntil(po))
        /\ Points(Queue!DaysUntil(po)) <= Points(Queue!DaysUntil(po)')
    BY <1>3, <1>5
  <2> QED
    BY <1>4, <2>1, CappedGrows DEF po

\* The scenario order's points do not depend on the day.
LEMMA ScenarioStays ==
    ASSUME QueueInv, UNCHANGED scenario
    PROVE  /\ Queue!PredictScenario(scenario) \in 6..95
           /\ Queue!PredictScenario(scenario)' = Queue!PredictScenario(scenario)
<1> DEFINE v == scenario.vendor
<1>1. /\ scenario.vendor \in VendorFiles /\ scenario.due \in Int /\ scenario.vendor.ppm \in Int
  BY QueueConstants DEF QueueInv, Queue!ScenarioPO
<1>2. /\ Queue!Late(v, 30) \in Nat /\ Queue!Min({20, 5 * v.flags}) \in Nat
  BY <1>1, VendorPart
<1>3. Queue!StatusPart(scenario) \in Nat
  BY <1>1 DEF Queue!StatusPart, QueueInv, Queue!ScenarioPO, Queue!ScenarioStatuses
<1> DEFINE points == 8 + Queue!StatusPart(scenario)
                 + (IF v.known
                    THEN Queue!Late(v, 30) + (IF v.ppm > 1000 THEN 6 ELSE 0)
                           + Queue!Min({20, 5 * v.flags})
                    ELSE 0)
                 + (IF scenario.due <= 14 /\ scenario.status # "delayed" THEN 10 ELSE 0)
                 + (IF ~scenario.lever /\ scenario.status \in {"planned", "released", "in_transit"}
                    THEN 6 ELSE 0)
<1>4. points \in Int /\ 6 <= points
  BY <1>1, <1>2, <1>3
<1>5. Queue!PredictScenario(scenario) = Queue!Capped(points)
  BY DEF Queue!PredictScenario
<1> HIDE DEF points
<1>6. Queue!PredictScenario(scenario) \in 6..95
  BY <1>4, <1>5, CappedGrows
<1>7. Queue!PredictScenario(scenario)' = Queue!PredictScenario(scenario)
  BY DEF Queue!PredictScenario, Queue!Capped, Queue!Late, Queue!StatusPart, Queue!Max, Queue!Min
<1> QED
  BY <1>6, <1>7

\* Follow-ups wear off with the days, and what they leave is a percentage.
LEMMA NudgeWears ==
    ASSUME QueueInv, NEW o \in SourcingOrders \cup {Queue!Demo},
           today' \in Int, today' >= today, UNCHANGED followups,
           NEW p \in 6..95, NEW q \in 6..95, p <= q
    PROVE  /\ Queue!WithFollowup(p, o) \in 0..95
           /\ (Queue!WithFollowup(q, o))' >= Queue!WithFollowup(p, o)
<1> DEFINE n == Queue!NudgePoints(followups[o])
           m == Queue!NudgePoints(followups[o])'
<1>1. /\ followups[o].at \in Int /\ followups[o].count \in Nat
      /\ followups[o].at <= today /\ today \in Int
  BY QueueConstants DEF QueueInv
<1>2. n \in Nat /\ m \in Nat /\ m <= n
  BY <1>1 DEF Queue!NudgePoints
<1>3. /\ Queue!WithFollowup(p, o) = IF n = 0 THEN p ELSE Queue!Max({5, p - n})
      /\ (Queue!WithFollowup(q, o))' = IF m = 0 THEN q ELSE Queue!Max({5, q - m})
  BY DEF Queue!WithFollowup, Queue!Max
<1> HIDE DEF n, m
<1>4. /\ Queue!Max({5, p - n}) = IF 5 >= p - n THEN 5 ELSE p - n
      /\ Queue!Max({5, q - m}) = IF 5 >= q - m THEN 5 ELSE q - m
  BY <1>2, LargerSmaller
<1>5. Queue!WithFollowup(p, o) = IF n = 0 THEN p ELSE IF 5 >= p - n THEN 5 ELSE p - n
  BY <1>3, <1>4
<1>6. (Queue!WithFollowup(q, o))' = IF m = 0 THEN q ELSE IF 5 >= q - m THEN 5 ELSE q - m
  BY <1>3, <1>4
<1>7. Queue!WithFollowup(p, o) \in 0..95
  BY <1>2, <1>5
<1> QED
  BY <1>2, <1>5, <1>6, <1>7

\* The queue of a day, and of a later one.
LEMMA SlipGrows ==
    ASSUME QueueInv, NEW o \in SourcingOrders \cup {Queue!Demo},
           today' \in Int, today' >= today, UNCHANGED <<dueOrders, scenario, followups>>
    PROVE  Queue!Slip(o) \in 0..95 /\ Queue!Slip(o)' >= Queue!Slip(o)
<1>1. CASE o = Queue!Demo
  <2>1. PICK p \in 6..95 : /\ p = Queue!PredictScenario(scenario)
                           /\ p = Queue!PredictScenario(scenario)'
    BY ScenarioStays
  <2>2. /\ Queue!Slip(o) = Queue!WithFollowup(p, o)
        /\ Queue!Slip(o)' = (Queue!WithFollowup(p, o))'
    BY <1>1, <2>1 DEF Queue!Slip, Queue!WithFollowup, Queue!Demo
  <2>3. p <= p
    OBVIOUS
  <2>4. /\ Queue!WithFollowup(p, o) \in 0..95
        /\ (Queue!WithFollowup(p, o))' >= Queue!WithFollowup(p, o)
    BY ZenonT(60), <2>3, NudgeWears
  <2> QED
    BY <2>2, <2>4
<1>2. CASE o \in SourcingOrders /\ o # Queue!Demo
  <2>1. PICK p \in 6..95, q \in 6..95 :
           /\ p = Queue!PredictSourcing(dueOrders[o])
           /\ q = Queue!PredictSourcing(dueOrders[o])' /\ p <= q
    BY ZenonT(60), <1>2, SourcingGrows
  <2>2. /\ Queue!Slip(o) = Queue!WithFollowup(p, o)
        /\ Queue!Slip(o)' = (Queue!WithFollowup(q, o))'
    BY <1>2, <2>1 DEF Queue!Slip, Queue!WithFollowup, Queue!Demo
  <2> QED
    BY ZenonT(60), <2>1, <2>2, NudgeWears
<1> QED
  BY <1>1, <1>2

\* Nothing is followed up, and every order is a draft.
LEMMA InitQueue == Queue!Init => QueueInv
  BY QueueConstants DEF Queue!Init, QueueInv, Queue!SourcingPO, Queue!ScenarioPO

\* Every step of the queue keeps its invariant.
LEMMA StepQueue == QueueInv /\ [Queue!Next]_(Queue!queueVars) => QueueInv'
<1> SUFFICES ASSUME QueueInv, [Queue!Next]_(Queue!queueVars) PROVE QueueInv'
  OBVIOUS
<1> USE QueueConstants DEF QueueInv
<1>1. ASSUME NEW days \in Spans, Queue!DaysPass(days) PROVE QueueInv'
  <2>1. days \in Nat /\ today + days <= MaxDay /\ today' = today + days
    BY <1>1 DEF Queue!DaysPass
  <2> QED
    BY <1>1, <2>1 DEF Queue!DaysPass, Queue!SourcingPO, Queue!ScenarioPO, Queue!Demo
<1>2. ASSUME NEW o \in SourcingOrders, NEW s \in {"released", "delivered"},
             Queue!ChangeStatus(o, s)
      PROVE  QueueInv'
  <2>1. dueOrders' \in [SourcingOrders -> Queue!SourcingPO]
    BY ZenonT(60), <1>2 DEF Queue!ChangeStatus, Queue!SourcingPO
  <2> QED
    BY <1>2, <2>1 DEF Queue!ChangeStatus, Queue!SourcingPO, Queue!ScenarioPO, Queue!Demo
<1>3. ASSUME NEW o \in SourcingOrders \cup {Queue!Demo}, Queue!LogFollowup(o)
      PROVE  QueueInv'
  <2>1. followups'[o] = [at |-> today, count |-> followups[o].count + 1]
    BY <1>3 DEF Queue!LogFollowup
  <2>2. \A q \in (SourcingOrders \cup {Queue!Demo}) \ {o} : followups'[q] = followups[q]
    BY <1>3 DEF Queue!LogFollowup
  <2>3. followups[o].count + 1 \in 0..MaxFollowups
    BY <1>3 DEF Queue!LogFollowup
  <2>4. /\ followups' \in [SourcingOrders \cup {Queue!Demo} ->
                             [at : 0..MaxDay, count : 0..MaxFollowups]]
        /\ \A q \in SourcingOrders \cup {Queue!Demo} : followups'[q].at <= today
    <3>1. followups'[o] \in [at : 0..MaxDay, count : 0..MaxFollowups]
          /\ followups'[o].at <= today
      BY <2>1, <2>3
    <3>2. /\ followups' = [followups EXCEPT ![o] = followups'[o]]
          /\ DOMAIN followups' = SourcingOrders \cup {Queue!Demo}
      BY <2>1, <1>3 DEF Queue!LogFollowup
    <3> QED
      BY <2>2, <3>1, <3>2
  <2> QED
    BY <1>3, <2>4 DEF Queue!LogFollowup, Queue!SourcingPO, Queue!ScenarioPO, Queue!Demo
<1>4. CASE UNCHANGED Queue!queueVars
  BY <1>4 DEF Queue!queueVars, Queue!SourcingPO, Queue!ScenarioPO, Queue!Demo
<1> QED
  BY <1>1, <1>2, <1>3, <1>4 DEF Queue!Next

\* Time alone never lowers the probability that an order slips: the runway shrinks
\* and follow-ups wear off (expediting._predict_sourcing_po, _apply_followup_context).
THEOREM TimeNeverHelps == Spec => WaitingNeverHelps
<1> DEFINE A == today' > today => \A o \in Queue!Queue : Queue!Slip(o)' >= Queue!Slip(o)
<1>1. QueueInv /\ [Queue!Next]_(Queue!queueVars) => [A]_(Queue!queueVars)
  <2> SUFFICES ASSUME QueueInv, Queue!Next, today' > today PROVE A
    OBVIOUS
  <2>1. PICK days \in Spans : Queue!DaysPass(days)
    <3>1. today \in Int
      BY QueueConstants DEF QueueInv
    <3> QED
      BY <3>1 DEF Queue!Next, Queue!ChangeStatus, Queue!LogFollowup
  <2>2. /\ today' \in Int /\ today' >= today
        /\ UNCHANGED <<dueOrders, scenario, followups>>
    BY <2>1, QueueConstants DEF Queue!DaysPass, QueueInv
  <2>3. Queue!Queue \subseteq SourcingOrders \cup {Queue!Demo}
    BY DEF Queue!Queue
  <2> QED
    BY <2>2, <2>3, SlipGrows
<1>2. QueueInv /\ [Queue!Next]_(Queue!queueVars) => QueueInv'
  BY StepQueue
<1>3. Queue!Spec => [][A]_(Queue!queueVars)
  BY <1>1, <1>2, InitQueue, PTL DEF Queue!Spec
<1> QED
  BY <1>3, QueueRuns DEF WaitingNeverHelps, Queue!WaitingNeverHelps

-----------------------------------------------------------------------------
(* The vendors *)

\* schemas.SupplierRecord, in whole numbers.
VendorRecord == [otd : Nat, ppm : Nat, alternatives : Nat, flags : Nat, spend : Nat]

\* The larger and the smaller of two numbers.
LEMMA LargerOfTwo ==
    ASSUME NEW a \in Int, NEW b \in Int
    PROVE  Vendor!Max({a, b}) = IF a >= b THEN a ELSE b
<1>1. PICK m \in {a, b} : \A y \in {a, b} : m >= y
  OBVIOUS
<1>2. /\ Vendor!Max({a, b}) \in {a, b}
      /\ \A y \in {a, b} : Vendor!Max({a, b}) >= y
  BY <1>1 DEF Vendor!Max
<1> QED
  BY <1>2

LEMMA SmallerOfTwo ==
    ASSUME NEW a \in Int, NEW b \in Int
    PROVE  Vendor!Min({a, b}) = IF a <= b THEN a ELSE b
<1>1. PICK m \in {a, b} : \A y \in {a, b} : m <= y
  OBVIOUS
<1>2. /\ Vendor!Min({a, b}) \in {a, b}
      /\ \A y \in {a, b} : Vendor!Min({a, b}) <= y
  BY <1>1 DEF Vendor!Min
<1> QED
  BY <1>2

\* _clamp keeps to 0..100 and to the order of its arguments.
LEMMA ClampValue ==
    ASSUME NEW x \in Int
    PROVE  Vendor!Clamp(x) = IF x > 100 THEN 100 ELSE IF x < 0 THEN 0 ELSE x
<1>1. Vendor!Min({100, x}) = IF 100 <= x THEN 100 ELSE x
  BY SmallerOfTwo
<1>2. Vendor!Min({100, x}) \in Int
  BY <1>1
<1>3. Vendor!Max({0, Vendor!Min({100, x})}) = IF 0 >= Vendor!Min({100, x}) THEN 0 ELSE Vendor!Min({100, x})
  BY <1>2, LargerOfTwo
<1> QED
  BY <1>1, <1>3 DEF Vendor!Clamp

LEMMA ClampMonotone ==
    ASSUME NEW x \in Int, NEW y \in Int, x >= y
    PROVE  Vendor!Clamp(x) >= Vendor!Clamp(y) /\ Vendor!Clamp(x) \in 0..100 /\ Vendor!Clamp(y) \in 0..100
  BY ClampValue

\* Division by a positive number keeps the order.
LEMMA DivMonotone ==
    ASSUME NEW x \in Int, NEW y \in Int, x >= y
    PROVE  /\ x \div 40 >= y \div 40 /\ x \div 100 >= y \div 100
           /\ x \div 750 >= y \div 750 /\ x \div 2000 >= y \div 2000
           /\ {x \div 40, x \div 100, x \div 750, x \div 2000} \subseteq Int
  OBVIOUS

\* _score_delivery
LEMMA DeliveryMonotone ==
    ASSUME NEW r \in VendorRecord, NEW s \in VendorRecord, Vendor!NoWorse(r, s)
    PROVE  Vendor!Delivery(r) >= Vendor!Delivery(s) /\ Vendor!Delivery(r) \in 0..100 /\ Vendor!Delivery(s) \in 0..100
<1>1. (r.otd - 80) * 5 + 50 >= (s.otd - 80) * 5 + 50
  BY DEF VendorRecord, Vendor!NoWorse
<1>2. (r.otd - 80) * 5 + 50 \in Int /\ (s.otd - 80) * 5 + 50 \in Int
  BY DEF VendorRecord
<1> QED
  BY <1>1, <1>2, ClampMonotone DEF Vendor!Delivery

\* _score_quality, within a band and from band to band.
LEMMA QualityMonotone ==
    ASSUME NEW r \in VendorRecord, NEW s \in VendorRecord, Vendor!NoWorse(r, s)
    PROVE  Vendor!Quality(r) >= Vendor!Quality(s) /\ Vendor!Quality(r) \in 0..100 /\ Vendor!Quality(s) \in 0..100
<1> DEFINE Curve(p) == IF p <= 250 THEN 100
                       ELSE IF p <= 1000 THEN 75 + ((1000 - p) * 25) \div 750
                       ELSE IF p <= 3000 THEN 30 + ((3000 - p) * 45) \div 2000
                       ELSE IF p >= 6000 THEN 0 ELSE (6000 - p) \div 100
<1>1. ASSUME NEW v \in VendorRecord PROVE Vendor!Quality(v) = Curve(v.ppm) /\ v.ppm \in Nat
  <2>1. v.ppm \in Nat
    BY DEF VendorRecord
  <2>2. Vendor!Max({0, (6000 - v.ppm) \div 100}) =
           IF 0 >= (6000 - v.ppm) \div 100 THEN 0 ELSE (6000 - v.ppm) \div 100
    BY <2>1, LargerOfTwo
  <2> QED
    BY <2>1, <2>2 DEF Vendor!Quality
<1>2. ASSUME NEW p \in Nat, NEW q \in Nat, p <= q
      PROVE  Curve(p) >= Curve(q) /\ Curve(p) \in 0..100 /\ Curve(q) \in 0..100
  BY <1>2
<1>3. r.ppm <= s.ppm
  BY DEF Vendor!NoWorse
<1> HIDE DEF Curve
<1> QED
  BY <1>1, <1>2, <1>3

\* _score_price: for the same spend only the number of alternatives matters.
LEMMA PriceMonotone ==
    ASSUME PeerSpend \in Nat,
           NEW r \in VendorRecord, NEW s \in VendorRecord, Vendor!NoWorse(r, s)
    PROVE  Vendor!Price(r) >= Vendor!Price(s) /\ Vendor!Price(r) \in 0..100 /\ Vendor!Price(s) \in 0..100
<1> DEFINE spend == s.spend
           total == Vendor!CategorySpend(s)
           share == (30 * (total - spend)) \div total
<1>1. r.spend = spend /\ spend \in Nat
  BY DEF Vendor!NoWorse, VendorRecord
<1>2. Vendor!CategorySpend(r) = total
  BY <1>1 DEF Vendor!CategorySpend
<1>3. total \in Nat /\ total > 0
  <2>1. spend + PeerSpend \in Nat
    BY <1>1
  <2> QED
    BY <2>1, LargerOfTwo DEF Vendor!CategorySpend
<1> HIDE DEF total, spend
<1>4. share \in Int
  <2>1. 30 * (total - spend) \in Int
    BY <1>1, <1>3
  <2> QED
    BY <2>1, <1>3
<1> HIDE DEF share
<1>5. /\ r.alternatives \in Nat /\ s.alternatives \in Nat
      /\ r.alternatives >= s.alternatives
  BY DEF Vendor!NoWorse, VendorRecord
<1>6. ASSUME NEW a \in Nat
      PROVE  Vendor!Min({15, 7 * a}) = IF 15 <= 7 * a THEN 15 ELSE 7 * a
  BY SmallerOfTwo
<1>7. /\ Vendor!Price(r) = Vendor!Clamp(60 + Vendor!Min({15, 7 * r.alternatives}) + share)
      /\ Vendor!Price(s) = Vendor!Clamp(60 + Vendor!Min({15, 7 * s.alternatives}) + share)
  BY <1>1, <1>2 DEF Vendor!Price, share, total, spend
<1>8. /\ 60 + Vendor!Min({15, 7 * r.alternatives}) + share \in Int
      /\ 60 + Vendor!Min({15, 7 * s.alternatives}) + share \in Int
      /\ 60 + Vendor!Min({15, 7 * r.alternatives}) + share >=
            60 + Vendor!Min({15, 7 * s.alternatives}) + share
  BY <1>4, <1>5, <1>6
<1> QED
  BY <1>7, <1>8, ClampMonotone

\* _score_responsiveness
LEMMA ResponsivenessMonotone ==
    ASSUME NEW r \in VendorRecord, NEW s \in VendorRecord, Vendor!NoWorse(r, s)
    PROVE  /\ Vendor!Responsiveness(r) >= Vendor!Responsiveness(s)
           /\ Vendor!Responsiveness(r) \in 0..100 /\ Vendor!Responsiveness(s) \in 0..100
<1> DEFINE Sum(v) == 80 - 10 * v.flags + (IF v.otd >= 95 THEN 10 ELSE 0)
<1>1. Sum(r) \in Int /\ Sum(s) \in Int /\ Sum(r) >= Sum(s)
  BY DEF VendorRecord, Vendor!NoWorse
<1>2. Vendor!Responsiveness(r) = Vendor!Clamp(Sum(r)) /\ Vendor!Responsiveness(s) = Vendor!Clamp(Sum(s))
  BY DEF Vendor!Responsiveness
<1> HIDE DEF Sum
<1> QED
  BY <1>1, <1>2, ClampMonotone

\* _score_claims
LEMMA ClaimsMonotone ==
    ASSUME NEW r \in VendorRecord, NEW s \in VendorRecord, Vendor!NoWorse(r, s)
    PROVE  Vendor!Claims(r) >= Vendor!Claims(s) /\ Vendor!Claims(r) \in 0..100 /\ Vendor!Claims(s) \in 0..100
<1> DEFINE Over(v)  == Vendor!Max({0, v.ppm - 500})
           Under(v) == Vendor!Max({0, 95 - v.otd})
           Sum(v)   == 3800 - Over(v) - 80 * Under(v)
<1>1. ASSUME NEW v \in VendorRecord
      PROVE  /\ Over(v) = IF 0 >= v.ppm - 500 THEN 0 ELSE v.ppm - 500
             /\ Under(v) = IF 0 >= 95 - v.otd THEN 0 ELSE 95 - v.otd
             /\ v.ppm \in Nat /\ v.otd \in Nat
  <2>1. v.ppm \in Nat /\ v.otd \in Nat
    BY DEF VendorRecord
  <2>2. v.ppm - 500 \in Int /\ 95 - v.otd \in Int
    BY <2>1
  <2> QED
    BY <2>1, <2>2, LargerOfTwo
<1>2. /\ Vendor!Claims(r) = Vendor!Clamp(Sum(r) \div 40) /\ Vendor!Claims(s) = Vendor!Clamp(Sum(s) \div 40)
  BY DEF Vendor!Claims
<1> HIDE DEF Over, Under
<1>3. Sum(r) \in Int /\ Sum(s) \in Int /\ Sum(r) >= Sum(s)
  BY <1>1 DEF Vendor!NoWorse
<1> HIDE DEF Sum
<1>4. /\ Sum(r) \div 40 \in Int /\ Sum(s) \div 40 \in Int
      /\ Sum(r) \div 40 >= Sum(s) \div 40
  BY <1>3, DivMonotone
<1> QED
  BY <1>2, <1>4, ClampMonotone

\* _score_risk
LEMMA RiskMonotone ==
    ASSUME NEW r \in VendorRecord, NEW s \in VendorRecord, Vendor!NoWorse(r, s)
    PROVE  Vendor!Risk(r) >= Vendor!Risk(s) /\ Vendor!Risk(r) \in 0..100 /\ Vendor!Risk(s) \in 0..100
<1> DEFINE Flags(v) == Vendor!Min({30, 8 * v.flags})
           Sum(v)   == 95 - (IF v.alternatives = 0 THEN 25 ELSE 0)
                          - (IF v.spend >= 1000000 THEN 10 ELSE 0) - Flags(v)
<1>1. ASSUME NEW v \in VendorRecord
      PROVE  /\ Flags(v) = IF 30 <= 8 * v.flags THEN 30 ELSE 8 * v.flags
             /\ v.flags \in Nat /\ v.alternatives \in Nat /\ v.spend \in Nat
  <2>1. v.flags \in Nat /\ v.alternatives \in Nat /\ v.spend \in Nat
    BY DEF VendorRecord
  <2>2. 8 * v.flags \in Int
    BY <2>1
  <2> QED
    BY <2>1, <2>2, SmallerOfTwo
<1>2. Vendor!Risk(r) = Vendor!Clamp(Sum(r)) /\ Vendor!Risk(s) = Vendor!Clamp(Sum(s))
  BY DEF Vendor!Risk
<1> HIDE DEF Flags
<1>3. Sum(r) \in Int /\ Sum(s) \in Int /\ Sum(r) >= Sum(s)
  BY <1>1 DEF Vendor!NoWorse
<1> HIDE DEF Sum
<1> QED
  BY <1>2, <1>3, ClampMonotone

\* A sum with positive weights keeps the order of its six parts.
LEMMA WeightedSum ==
    ASSUME NEW a \in Int, NEW b \in Int, NEW c \in Int, NEW d \in Int, NEW e \in Int,
           NEW f \in Int, NEW t \in Int, NEW u \in Int, NEW v \in Int, NEW w \in Int,
           NEW x \in Int, NEW y \in Int,
           a >= t, b >= u, c >= v, d >= w, e >= x, f >= y
    PROVE  /\ 25 * a + 20 * b + 15 * c + 15 * d + 10 * e + 15 * f \in Int
           /\ 25 * t + 20 * u + 15 * v + 15 * w + 10 * x + 15 * y \in Int
           /\ 25 * a + 20 * b + 15 * c + 15 * d + 10 * e + 15 * f >=
                 25 * t + 20 * u + 15 * v + 15 * w + 10 * x + 15 * y
  OBVIOUS

\* _composite and _grade: what is at least as good in every measure scores and
\* grades at least as well, and every score is in range.
LEMMA ScorecardMonotone ==
    ASSUME PeerSpend \in Nat,
           NEW r \in VendorRecord, NEW s \in VendorRecord, Vendor!NoWorse(r, s)
    PROVE  /\ Vendor!Composite(r) >= Vendor!Composite(s)
           /\ Vendor!Grade(Vendor!Composite(r)) >= Vendor!Grade(Vendor!Composite(s))
           /\ Vendor!Scored(r)
<1> DEFINE Sum(v) == 25 * Vendor!Delivery(v) + 20 * Vendor!Quality(v) + 15 * Vendor!Price(v)
                     + 15 * Vendor!Responsiveness(v) + 10 * Vendor!Claims(v) + 15 * Vendor!Risk(v)
<1>1. Sum(r) \in Int /\ Sum(s) \in Int /\ Sum(r) >= Sum(s)
  <2>1. Vendor!Delivery(r) \in Int /\ Vendor!Delivery(s) \in Int /\ Vendor!Delivery(r) >= Vendor!Delivery(s)
    BY DeliveryMonotone
  <2>2. Vendor!Quality(r) \in Int /\ Vendor!Quality(s) \in Int /\ Vendor!Quality(r) >= Vendor!Quality(s)
    BY QualityMonotone
  <2>3. Vendor!Price(r) \in Int /\ Vendor!Price(s) \in Int /\ Vendor!Price(r) >= Vendor!Price(s)
    BY PriceMonotone
  <2>4. Vendor!Responsiveness(r) \in Int /\ Vendor!Responsiveness(s) \in Int /\ Vendor!Responsiveness(r) >= Vendor!Responsiveness(s)
    BY ResponsivenessMonotone
  <2>5. Vendor!Claims(r) \in Int /\ Vendor!Claims(s) \in Int /\ Vendor!Claims(r) >= Vendor!Claims(s)
    BY ClaimsMonotone
  <2>6. Vendor!Risk(r) \in Int /\ Vendor!Risk(s) \in Int /\ Vendor!Risk(r) >= Vendor!Risk(s)
    BY RiskMonotone
  <2> QED
    BY <2>1, <2>2, <2>3, <2>4, <2>5, <2>6, WeightedSum
<1>2. /\ Vendor!Composite(r) = Vendor!Clamp(Sum(r) \div 100)
      /\ Vendor!Composite(s) = Vendor!Clamp(Sum(s) \div 100)
  BY DEF Vendor!Composite
<1> HIDE DEF Sum
<1>3. /\ Sum(r) \div 100 \in Int /\ Sum(s) \div 100 \in Int
      /\ Sum(r) \div 100 >= Sum(s) \div 100
  BY <1>1, DivMonotone
<1>4. /\ Vendor!Composite(r) >= Vendor!Composite(s)
      /\ Vendor!Composite(r) \in 0..100 /\ Vendor!Composite(s) \in 0..100
  BY <1>2, <1>3, ClampMonotone
<1>5. ASSUME NEW x \in 0..100, NEW y \in 0..100, x >= y
      PROVE  Vendor!Grade(x) >= Vendor!Grade(y) /\ Vendor!Grade(x) \in 0..4
  BY <1>5 DEF Vendor!Grade
<1>6. /\ Vendor!Delivery(r) \in 0..100 /\ Vendor!Quality(r) \in 0..100
      /\ Vendor!Price(r) \in 0..100
  BY ZenonT(60), DeliveryMonotone, QualityMonotone, PriceMonotone
<1>7. /\ Vendor!Responsiveness(r) \in 0..100 /\ Vendor!Claims(r) \in 0..100
      /\ Vendor!Risk(r) \in 0..100
  BY ZenonT(60), ResponsivenessMonotone, ClaimsMonotone, RiskMonotone
<1>8. Vendor!Scored(r)
  BY <1>4, <1>5, <1>6, <1>7 DEF Vendor!Scored
<1> QED
  BY Zenon, <1>4, <1>5, <1>8

\* What the name is filed under is a record someone proposed or added.
Known == {seeded, runtime, pending} \subseteq Records \cup Proposals \cup {Nothing}

LEMMA KnownInductive ==
    /\ Vendor!Init => Known
    /\ Known /\ [Vendor!Next]_(Vendor!masterVars) => Known'
<1>1. Vendor!Init => Known
  BY DEF Vendor!Init, Known
<1>2. ASSUME Known, [Vendor!Next]_(Vendor!masterVars) PROVE Known'
  <2>1. ASSUME NEW r \in Records, Vendor!Onboard(r) PROVE Known'
    BY <1>2, <2>1 DEF Known, Vendor!Onboard
  <2>2. ASSUME NEW r \in Proposals, Vendor!Propose(r) PROVE Known'
    BY <1>2, <2>2 DEF Known, Vendor!Propose
  <2>3. CASE Vendor!Approve
    BY <1>2, <2>3 DEF Known, Vendor!Approve
  <2>4. CASE Vendor!Reject
    BY <1>2, <2>4 DEF Known, Vendor!Reject
  <2>5. CASE Vendor!Remove
    BY <1>2, <2>5 DEF Known, Vendor!Remove
  <2>6. CASE UNCHANGED Vendor!masterVars
    BY <1>2, <2>6 DEF Known, Vendor!masterVars
  <2> QED
    BY <1>2, <2>1, <2>2, <2>3, <2>4, <2>5, <2>6 DEF Vendor!Next
<1> QED
  BY <1>1, <1>2

LEMMA RecordScored ==
    ASSUME PeerSpend \in Nat, NEW r \in VendorRecord
    PROVE  Vendor!Scored(r)
<1>1. Vendor!NoWorse(r, r)
  BY DEF Vendor!NoWorse, VendorRecord
<1> QED
  BY <1>1, ScorecardMonotone

\* A step of the desk is a step of the vendor master, or leaves it alone.
LEMMA VendorRuns == Spec => Vendor!Spec
<1>1. Init => Vendor!Init
  BY DEF Init
<1>2. [Next]_deskVars => [Vendor!Next]_(Vendor!masterVars)
  BY DEF Next, Rest, deskVars, masterVars, Vendor!masterVars
<1> QED
  BY <1>1, <1>2, PTL DEF Spec, Vendor!Spec

\* Every score of the vendor that is listed lies in 0..100 and its grade is one
\* of the five (vendor_intel.build_one).
THEOREM VendorsTyped == Spec => []Vendor!TypeOK
<1>1. Known => Vendor!TypeOK
  <2>1. ASSUME Known, Vendor!Listed # Nothing PROVE Vendor!Scored(Vendor!Listed)
    <3>1. Vendor!Listed \in VendorRecord
      BY <2>1, VendorConstants DEF Known, Vendor!Listed, VendorRecord
    <3> QED
      BY <3>1, VendorConstants, RecordScored
  <2> QED
    BY <2>1 DEF Vendor!TypeOK, Known
<1> QED
  BY <1>1, VendorRuns, KnownInductive, PTL DEF Vendor!Spec

\* Whatever whole numbers the records hold and however a record comes to be
\* listed, replacing it by one that is no worse in any field never lowers the
\* composite or the grade (vendor_intel._score_* and _composite).
THEOREM BetterRecords == Spec => BetterRecordNeverScoresLess
<1> DEFINE Better == Vendor!Listed # Nothing /\ Vendor!Listed' # Nothing
                       /\ Vendor!NoWorse(Vendor!Listed', Vendor!Listed) =>
                       /\ Vendor!Composite(Vendor!Listed') >= Vendor!Composite(Vendor!Listed)
                       /\ Vendor!Grade(Vendor!Composite(Vendor!Listed'))
                             >= Vendor!Grade(Vendor!Composite(Vendor!Listed))
<1>1. Known /\ Known' => Better
  <2> SUFFICES ASSUME Known, Known', Vendor!Listed # Nothing, Vendor!Listed' # Nothing,
                      Vendor!NoWorse(Vendor!Listed', Vendor!Listed)
               PROVE  /\ Vendor!Composite(Vendor!Listed') >= Vendor!Composite(Vendor!Listed)
                      /\ Vendor!Grade(Vendor!Composite(Vendor!Listed'))
                            >= Vendor!Grade(Vendor!Composite(Vendor!Listed))
    OBVIOUS
  <2>1. Vendor!Listed \in VendorRecord
    BY VendorConstants DEF Known, Vendor!Listed, VendorRecord
  <2>2. Vendor!Listed' \in VendorRecord
    BY VendorConstants DEF Known, Vendor!Listed, VendorRecord
  <2> QED
    BY <2>1, <2>2, VendorConstants, ScorecardMonotone
<1>2. Vendor!Spec => []Known
  BY KnownInductive, PTL DEF Vendor!Spec
<1>3. Known /\ Known' => [Better]_(Vendor!masterVars)
  BY <1>1
<1>4. []Known => [][Better]_(Vendor!masterVars)
  BY <1>3, PTL
<1> QED
  BY <1>2, <1>4, VendorRuns DEF BetterRecordNeverScoresLess, Vendor!BetterRecordNeverScoresLess
=============================================================================
