SPECIFICATION Spec
CONSTANTS
    Req = {r1, r2, r3}
    Key = {k1, k2}
    Fingerprint = {p1, p2}
    None = None
    TTL = 2
    MaxRecords = 1
    SweepThrottle = 1
    Policy = "Replay"
    MaxStall = 1
    MaxSpan = 1
    StoreFails = TRUE
    MaxTime = 2
CHECK_DEADLOCK FALSE
INVARIANTS
    ReplayIsFaithful
PROPERTIES
    AtMostOnce
    ImplementsOncePerKey
