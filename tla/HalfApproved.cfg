\* A crash inside the flush of a decision leaves it approved and its order unmade.
SPECIFICATION Spec
CONSTANTS
    va = va
    vb = vb
    Vendors <- MCVendors
    Totals <- MCTotals
    Budget = 10
    Threshold = 12
    MaxPrs = 1
    MaxRfqs = 1
    MaxQuotes = 2
    MaxApprovals = 2
    MaxAwards = 2
    MaxFaults = 1
SYMMETRY Symmetry
INVARIANT
    ApprovedMaterialises
CHECK_DEADLOCK FALSE
