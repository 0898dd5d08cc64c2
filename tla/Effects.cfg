\* Two receipts fill or overfill a PO while SAP reports on it too; one crash.
SPECIFICATION Spec
CONSTANTS
    GrnIds = {g1, g2}
    LineNos = {1}
    POs = {p1}
    UnknownPOs = {}
    Devices = {d1}
    SequenceNos = {1, 2}
    Photos = {f1}
    Qtys = {1, 2}
    Routes = {"free_issue", "keyed"}
    SapQtys = {1}
    MaxSap = 1
    MaxCrashes = 1
    MaxFailures = 0
    None = None
    InitialPO <- SmallPO
SYMMETRY Symmetry
INVARIANTS TypeOK PoMatchesLedger DeliveryPrediction AckedClaimsStand
