SPECIFICATION FairSpec
CONSTANTS
    Op = {o1, o2}
    RatioNum = 2
    RatioDen = 3
    MinRequests = 2
    WindowBuckets = 3
    BucketSpan = 2
    OpenFor = 2
    HalfOpenProbes = 2
    OpTimeout = 1
    PanicsIn = {"Closed", "Open"}
    MaxTime = 8
    MaxResults = 3
CHECK_DEADLOCK FALSE
INVARIANTS
    HalfOpenBudget
    ProbesMatchFlight
    OnlyProbesRunLate
    SlidingWindow
    NoticesFormPath
PROPERTIES
    Progress
