\* The components of the desk, each on its own.  Their bounds end behaviours: no
\* more documents, requests, edits, events, days or faults.
SPECIFICATION Spec
CONSTANTS
    Focus = {"sap", "files", "cache", "risk", "plan", "line", "views", "device", "vendor", "bid",
             "queue", "trail"}
    Nothing = Nothing
    pr1 = pr1
    po1 = po1
    po2 = po2
    SapPrs = {pr1}
    SapPos = {po1, po2}
    SapQty = 2
    MaxDocs = 2
    MaxSapEvents = 2
    MaxResyncs = 1
    MaxRepeats = 1
    ChangingStores = {"vendors", "tbe"}
    MaxFacts = 2
    MaxFileFaults = 2
    ShipOrders = {"a"}
    TTL = 2
    MaxTime = 4
    MaxVersion = 3
    Signals = {"spec", "money"}
    Commercial = {"money"}
    MaxRows = 2
    MaxEdits = 1
    MaxShifts = 2
    MaxRiskFaults = 2
    PlanTenants = {"a", "b"}
    ProjectIds = {"p1", "p2"}
    OtherSpellings <- Spellings
    Workbooks <- ThreeWorkbooks
    PlanProjects <- OneProject
    MaxStaged = 2
    MaxUploads = 3
    LineVendors = {"v"}
    MaxPrs = 2
    MaxRfqs = 2
    MaxReceipts = 1
    LineTotals = {1}
    LineQty = 2
    LinePos = 1
    ViewTotals = {1, 3}
    ViewQty = 1
    ViewPos = 3
    Budget = 2
    Codes = {"c1", "c2"}
    DeviceIds = {"d1", "d2"}
    Posts = {"s1", "s2"}
    Receipts = {"g1"}
    Calls = {"k1", "k2"}
    Records <- BandRecords
    Proposals <- PoorProposals
    PeerSpend = 0
    Bids <- SomeBids
    Suppliers <- ThreeSuppliers
    Template <- TwoCriteria
    CriteriaSets <- OneOtherSet
    Sheets <- TwoSheets
    WeightPairs <- Weights
    MaxBids = 2
    SourcingOrders = {"o1"}
    VendorFiles <- ThreeFiles
    LeadTimes = {30}
    NeedBys = {18, 99}
    NoDate = 99
    Dues = {7, 14}
    Spans = {4}
    MaxDay = 20
    MaxFollowups = 1
    Grns <- TwoGrns
    RingSize = 2
    Limit = 1
    MaxEmitted = 4
    MaxAuditFaults = 2
VIEW AsFarAsRead
INVARIANTS
    TypeOK
    QuantityConserved
    PromisedSurvives
    BoundedStaleness
    ReadsOwnWrites
    OneRowPerSignal
    AnsweredEditsSurvive
    LiveMatchesSignals
    LinesFollowProject
    PlanPlacesEveryLine
    OrderIsSeen
    ViewsNameTheSameOrders
    ReceiptsStayWhereTaken
    DisqualifiedRanksLast
    BetterBidNeverScoresLess
    
PROPERTIES
    LineNeverStepsBack
    BetterRecordNeverScoresLess
    WaitingNeverHelps
CHECK_DEADLOCK FALSE
