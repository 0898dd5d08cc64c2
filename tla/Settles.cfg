\* Every captured receipt settles although uploads keep taking the write lock.
SPECIFICATION FairSpec
CONSTANTS
    GrnIds = {g1, g2}
    LineNos = {}
    POs = {}
    UnknownPOs = {}
    Devices = {d1}
    SequenceNos = {1, 2}
    Photos = {f1}
    Qtys = {}
    Routes = {"vision"}
    SapQtys = {1}
    MaxSap = 0
    MaxCrashes = 1
    MaxFailures = 0
    None = None
    InitialPO <- SmallPO
PROPERTIES CapturedSettles
