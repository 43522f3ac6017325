SPECIFICATION FairSpec
CONSTANTS
    Request = {"r1", "r2"}
    TrustedProxies = {"proxy", "proxy2"}
    Redacted = {"password"}
    Masked <- MCMasked
    MaxDepth = 6
    MaxLogValues = 2
    IntMax = 7
    Deepest = 9
    Logged <- Record
    CaptureMax = 2
    FingerprintMax = 3
    BodyMax = 4
    Responses <- MCResponses
    Query <- MCQuery
    Loads <- MCLoads
CHECK_DEADLOCK FALSE
INVARIANTS
    TypeOK
    LineIsTrue
    GatesKeepPromises
    ClientIsLastUntrusted
    CallsAreWhole
    NoRuledValueLogged
PROPERTIES
    ShutdownIsGraceful
