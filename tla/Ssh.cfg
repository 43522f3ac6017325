SPECIFICATION FairSpec
CONSTANTS
    Dial = {"d1", "d2"}
    User = {"d1"}
    Key = {"k1", "k2"}
    EarlyCancel = FALSE
    Target <- MCTarget
    Start <- MCStart
CHECK_DEADLOCK FALSE
INVARIANTS
    TypeOK
    PromptIsCurrent
    AcceptedWasConfirmed
    DialIsHonest
PROPERTIES
    NothingHangs
