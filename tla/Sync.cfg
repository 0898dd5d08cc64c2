\* Two devices upload, retry and reuse numbers while receipts without lines are
\* extracted and closed; a crash may fall between the photo file and the commit.
SPECIFICATION Spec
CONSTANTS
    GrnIds = {g1, g2}
    LineNos = {}
    POs = {}
    UnknownPOs = {}
    Devices = {d1, d2}
    SequenceNos = {1, 2}
    Photos = {f1, f2}
    Qtys = {}
    Routes = {"vision"}
    SapQtys = {1}
    MaxSap = 0
    MaxCrashes = 1
    MaxFailures = 0
    None = None
    InitialPO <- SmallPO
SYMMETRY Symmetry
INVARIANTS PhotoIsTheSyncedOne WatermarkCoversRows ClosedIsSettled GrnNosDistinct
