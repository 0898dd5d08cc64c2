\* Every confirmed receipt reaches the state files, with a crash anywhere.
SPECIFICATION FairSpec
CONSTANTS
    GrnIds = {g1, g2}
    LineNos = {1}
    POs = {p1}
    UnknownPOs = {}
    Devices = {d1}
    SequenceNos = {1, 2}
    Photos = {f1}
    Qtys = {1}
    Routes = {"keyed"}
    SapQtys = {1}
    MaxSap = 0
    MaxCrashes = 1
    MaxFailures = 0
    None = None
    InitialPO <- SmallPO
PROPERTIES ConfirmedIsCredited
