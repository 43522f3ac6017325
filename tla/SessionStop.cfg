SPECIFICATION Spec
CONSTANTS
    Dial = {"d1"}
    User = {"d1"}
    Key = {"k1", "k2"}
    EarlyCancel = TRUE
    Target <- MCTarget
    Start <- MCStart
CHECK_DEADLOCK FALSE
INVARIANTS
    StopIsAssigned
