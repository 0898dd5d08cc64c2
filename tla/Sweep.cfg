\* The startup sweep counts a receipt again that was on disk but not stamped.
SPECIFICATION Spec
CONSTANTS
    GrnIds = {g1}
    LineNos = {1}
    POs = {p1}
    UnknownPOs = {}
    Devices = {d1}
    SequenceNos = {1}
    Photos = {f1}
    Qtys = {1}
    Routes = {"keyed"}
    SapQtys = {1}
    MaxSap = 0
    MaxCrashes = 1
    MaxFailures = 0
    None = None
    InitialPO <- SmallPO
SYMMETRY Symmetry
INVARIANTS SweepIdempotent
