SPECIFICATION Spec
CONSTANTS
    Runner = {r1, r2}
    MaxVersion = 2
    Content = {a}
    None = None
    Dialects = {"sqlite"}
    Raw = {}
    DDL = {}
    NoDown = {}
    AllowOutOfOrder = FALSE
INVARIANTS
    OutOfOrderIsRefused
