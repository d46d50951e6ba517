SPECIFICATION Spec
CONSTANTS
    x = x
    y = y
    xf = xf
    g = g
    h = h
    Names = {x, y}
    Attrs = {xf}
    Base <- MCBase
    Funs = {g, h}
    Bodies <- MCBodies
    Defined <- MCDefined
    Tests <- MCTests
    MaxStmts = 4
    MaxNest = 2
INVARIANTS
    ReadsAreLive
    DeadIsWritten
    LiveIsRead
CHECK_DEADLOCK FALSE
