SPECIFICATION Spec
CONSTANTS
    Conn = {m1}
    User = {u1}
    MaxDials = 1
    MaxClients = 3
    MaxFailures = 1
SYMMETRY Symmetry
CHECK_DEADLOCK FALSE
INVARIANTS
    TokenIsCurrent
