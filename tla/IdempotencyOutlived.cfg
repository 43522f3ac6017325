SPECIFICATION Spec
CONSTANTS
    Req = {r1, r2, r3}
    Key = {k1}
    Fingerprint = {p1}
    None = None
    TTL = 2
    MaxRecords = 1
    SweepThrottle = 1
    Policy = "Replay"
    MaxStall = 0
    MaxSpan = 4
    StoreFails = FALSE
    MaxTime = 4
CHECK_DEADLOCK FALSE
PROPERTIES
    AtMostOnce
