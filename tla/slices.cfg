CONSTANTS
    x = x
    y = y
    c1 = c1
    c2 = c2
    Cells = {c1, c2}
    Syms = {x, y}
    Widgets = {x}
    Contents <- MCContents
    MaxRuns = 3
    MaxEdits = 1
SPECIFICATION Spec
SYMMETRY CellSymmetry
INVARIANTS
    StmtSliceRecomputes
    CellSliceRecomputes
    SliceExists
CHECK_DEADLOCK FALSE
