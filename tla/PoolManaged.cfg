SPECIFICATION FairSpec
CONSTANTS
    Conn = {m1}
    User = {u1, u2}
    MaxDials = 1
    MaxClients = 3
    MaxFailures = 1
CHECK_DEADLOCK FALSE
INVARIANTS
    ReadyIsLive
    NoClientLeaks
    PoolCloseIsComplete
PROPERTIES
    ClosedIsTerminal
    LoopProgresses
