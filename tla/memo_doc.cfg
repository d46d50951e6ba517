CONSTANTS
    b = b
    x = x
    y = y
    Names = {b, x, y}
    Given = {b}
    Cells = {c1, c2}
    Values <- DocValues
    Literals <- DocValues
    Compute <- DocCompute
    Updated <- DocUpdated
    Large <- DocLarge
    Contents <- MCContents
    MaxRuns = 5
SPECIFICATION Spec
SYMMETRY CellSymmetry
INVARIANT SameInputs
CHECK_DEADLOCK FALSE
