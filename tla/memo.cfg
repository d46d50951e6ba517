CONSTANTS
    b = b
    x = x
    y = y
    Names = {b, x, y}
    Given = {b}
    Cells = {c1, c2}
    Values <- MCValues
    Literals <- MCLiterals
    Compute <- MCCompute
    Updated <- MCUpdated
    Large <- MCLarge
    Contents <- MCContents
    MaxRuns = 5
SPECIFICATION Spec
SYMMETRY CellSymmetry
INVARIANTS
    ReuseGivesResult
PROPERTY NoNeedlessRuns
CHECK_DEADLOCK FALSE
