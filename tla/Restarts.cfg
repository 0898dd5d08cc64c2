\* Two crashes, the second one possibly inside the sweep, and a failed flush.
SPECIFICATION Spec
CONSTANTS
    GrnIds = {g1, g2}
    LineNos = {1}
    POs = {p1}
    UnknownPOs = {}
    Devices = {d1}
    SequenceNos = {1, 2}
    Photos = {f1}
    Qtys = {0, 2}
    Routes = {"keyed"}
    SapQtys = {1}
    MaxSap = 0
    MaxCrashes = 2
    MaxFailures = 1
    None = None
    InitialPO <- SmallPO
SYMMETRY Symmetry
INVARIANTS StampedIsDurable CreditedOnce
PROPERTIES BookSpec
