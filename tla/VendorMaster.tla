----------------------------- MODULE VendorMaster -----------------------------
(***************************************************************************)
(* One vendor of the master list (app/vendor_store.py), its onboarding     *)
(* (approvals.gate_vendor, _commit_vendor) and its scorecard               *)
(* (app/vendor_intel.py).  A record is [otd, ppm, spend, alternatives,     *)
(* flags]; flags is how many risk flags it carries.                        *)
(***************************************************************************)
EXTENDS Integers, FiniteSetsExt

CONSTANTS
    Records,    \* what a vendor's record may say
    Proposals,  \* those of them a buyer proposes
    PeerSpend,  \* yearly spend with the other vendors of the category
    NoRecord

VARIABLES
    seeded,   \* the record of the sample data, or NoRecord
    runtime,  \* the record people added under the name, or NoRecord
    pending   \* the proposal that waits for approval, or NoRecord

masterVars == <<seeded, runtime, pending>>

Init ==
    /\ seeded \in {NoRecord} \cup Proposals
    /\ runtime = NoRecord
    /\ pending = NoRecord

\* _suppliers: what was added hides what was seeded under the same name.
Listed == IF runtime # NoRecord THEN runtime ELSE seeded

-----------------------------------------------------------------------------
(* Scorecard: _score_* and _composite *)

\* _clamp
Clamp(x) == Max({0, Min({100, x})})

Delivery(r) == Clamp((r.otd - 80) * 5 + 50)

\* Fault: the middle band starts where the better one does.
QualityJump(r) ==
    CASE r.ppm <= 250                   -> 100
      [] r.ppm > 250 /\ r.ppm <= 1000   -> 30 + ((1000 - r.ppm) * 45) \div 2000
      [] r.ppm > 1000 /\ r.ppm <= 3000  -> Clamp(75 + ((3000 - r.ppm) * 25) \div 750)
      [] r.ppm > 3000                   -> Max({0, (6000 - r.ppm) \div 100})

Quality(r) ==
    CASE r.ppm <= 250                   -> 100
      [] r.ppm > 250 /\ r.ppm <= 1000   -> 75 + ((1000 - r.ppm) * 25) \div 750
      [] r.ppm > 1000 /\ r.ppm <= 3000  -> 30 + ((3000 - r.ppm) * 45) \div 2000
      [] r.ppm > 3000                   -> Max({0, (6000 - r.ppm) \div 100})

\* A vendor stays in its category here, and its peers as they are.  The category's
\* spend is never nothing: one is what the code divides by.
CategorySpend(r) == Max({1, r.spend + PeerSpend})

Price(r) ==
    Clamp(60 + Min({15, 7 * r.alternatives})
             + (30 * (CategorySpend(r) - r.spend)) \div CategorySpend(r))

Responsiveness(r) == Clamp(80 - 10 * r.flags + (IF r.otd >= 95 THEN 10 ELSE 0))

Claims(r) ==
    Clamp((3800 - Max({0, r.ppm - 500}) - 80 * Max({0, 95 - r.otd})) \div 40)

Risk(r) ==
    Clamp(95 - (IF r.alternatives = 0 THEN 25 ELSE 0)
             - (IF r.spend >= 1000000 THEN 10 ELSE 0) - Min({30, 8 * r.flags}))

Composite(r) ==
    Clamp((25 * Delivery(r) + 20 * Quality(r) + 15 * Price(r) + 15 * Responsiveness(r)
             + 10 * Claims(r) + 15 * Risk(r)) \div 100)

\* _grade, as a number: A is 4.
Grade(score) ==
    CASE score >= 90                  -> 4
      [] score >= 75 /\ score < 90    -> 3
      [] score >= 60 /\ score < 75    -> 2
      [] score >= 45 /\ score < 60    -> 1
      [] score < 45                   -> 0

-----------------------------------------------------------------------------
(* Steps *)

\* gate_vendor by someone who may approve it: in place at once.
Onboard(r) ==
    /\ runtime' = r
    /\ UNCHANGED <<seeded, pending>>

\* gate_vendor by a buyer.
Propose(r) ==
    /\ pending = NoRecord
    /\ pending' = r
    /\ UNCHANGED <<seeded, runtime>>

\* _commit_vendor: the proposal as it was made.
Approve ==
    /\ pending # NoRecord
    /\ runtime' = pending
    /\ pending' = NoRecord
    /\ UNCHANGED seeded

Reject ==
    /\ pending # NoRecord
    /\ pending' = NoRecord
    /\ UNCHANGED <<seeded, runtime>>

\* remove_supplier: a seeded record of the name shows again.
Remove ==
    /\ runtime # NoRecord
    /\ runtime' = NoRecord
    /\ UNCHANGED <<seeded, pending>>

\* schemas.VendorScorecard: every component and the grade are in range.
Scored(r) ==
    /\ {Delivery(r), Quality(r), Price(r), Responsiveness(r), Claims(r), Risk(r),
        Composite(r)} \subseteq 0..100
    /\ Grade(Composite(r)) \in 0..4

TypeOK ==
    /\ {seeded, runtime, pending} \subseteq Records \cup Proposals \cup {NoRecord}
    /\ Listed # NoRecord => Scored(Listed)

Next ==
    \/ \E r \in Records : Onboard(r)
    \/ \E r \in Proposals : Propose(r)
    \/ Approve \/ Reject \/ Remove

Spec == Init /\ [][Next]_masterVars

-----------------------------------------------------------------------------
(* Property *)

\* At least as good in every measure, for the same spend.
NoWorse(r, s) ==
    /\ r.otd >= s.otd /\ r.ppm <= s.ppm /\ r.flags <= s.flags
    /\ r.alternatives >= s.alternatives
    /\ r.spend = s.spend

\* A change of a vendor's record that is nowhere for the worse, by whatever way
\* it comes into the list, never lowers its composite score or its grade: six
\* curves with their own bands and cuts all run the same way.
BetterRecordNeverScoresLess ==
    [][ Listed # NoRecord /\ Listed' # NoRecord /\ NoWorse(Listed', Listed) =>
           /\ Composite(Listed') >= Composite(Listed)
           /\ Grade(Composite(Listed')) >= Grade(Composite(Listed)) ]_masterVars
=============================================================================
