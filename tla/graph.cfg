\* Runs and edits of the notebook, with tracing off and on again; or dependencies
\* restored from the notebook, and runs that fail in their clean-up.
SPECIFICATION Spec
CONSTANTS
    a = a
    b = b
    x = x
    NotebookIds = {a, b}
    Syms = {x}
    FakeEdgeSym = fake
    MaxCtr = 3
    MaxFaulty = 2
    Envs = {{"edit", "disable"}, {"abort", "restore", "disable"}}
SYMMETRY NotebookCells
INVARIANTS
    RegistriesAgree
    NoStaleChild
    RenameFindsNeighbours
    MutualOnlyIfInherited
\* Not a deadlock of the program: the bound on runs is reached.
CHECK_DEADLOCK FALSE
