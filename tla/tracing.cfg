SPECIFICATION Spec
CONSTANTS
    Fns = {f, g}
    Cell = cell
    None = none
    MaxStmts = 2
    MaxDepth = 3
    MaxCalls = 3
    Catchers = {f}
INVARIANTS
    InSync
    RecordsOwnFrame
    Resumed
PROPERTIES
    Accounted
CHECK_DEADLOCK FALSE
