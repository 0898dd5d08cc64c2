\* Quotes, awards and approvals of one requisition.
SPECIFICATION Spec
CONSTANTS
    va = va
    vb = vb
    Vendors <- MCVendors
    Totals <- MCTotals
    Budget = 10
    Threshold = 12
    MaxPrs = 1
    MaxRfqs = 1
    MaxQuotes = 2
    MaxApprovals = 2
    MaxAwards = 2
    MaxFaults = 1
SYMMETRY Symmetry
INVARIANTS
    TypeOK
    SavedAtRest
    OneAwardPerDecision
    DecisionNamesItsOrder
    AnswersStand
    PoTraceable
CHECK_DEADLOCK FALSE
