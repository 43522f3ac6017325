SPECIFICATION Spec
CONSTANTS
    Runner = {r1, r2}
    MaxVersion = 3
    Content = {a, b}
    None = None
    Dialects = {"sqlite", "mysql"}
    Raw = {2}
    DDL = {3}
    NoDown = {1}
    AllowOutOfOrder = FALSE
SYMMETRY Symmetry
INVARIANTS
    NeverReExecuted
    HistoryIsTrue
    DirtyStops
    MySQLRunsAreSerialized
