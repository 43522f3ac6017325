SPECIFICATION Spec
CONSTANTS
    Caller = {c1, c2}
    Key = {k1, k2, k3}
    None = None
    Rate = 2
    Token = 3
    Burst = 4
    MaxKeys = 2
    MaxStall = 1
    MaxTime = 4
SYMMETRY Symmetry
CHECK_DEADLOCK FALSE
INVARIANTS
    MemoryBounded
    RateBound
    IdleIsFull
    RetryAfterSuffices
