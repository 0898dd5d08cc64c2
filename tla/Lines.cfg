\* Two lines a receipt, quantities over the ordered one, a PO number nobody knows.
SPECIFICATION Spec
CONSTANTS
    GrnIds = {g1, g2}
    LineNos = {1, 2}
    POs = {p1}
    UnknownPOs = {x1}
    Devices = {d1}
    SequenceNos = {1, 2}
    Photos = {f1}
    Qtys = {1, 2}
    Routes = {"keyed"}
    SapQtys = {1}
    MaxSap = 0
    MaxCrashes = 0
    MaxFailures = 0
    None = None
    InitialPO <- SmallPO
SYMMETRY Symmetry
INVARIANTS OverReceiptIsFlagged DeliveryPrediction
