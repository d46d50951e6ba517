\* Runs with and without a history to store, and with and without a cell id.
SPECIFICATION TagsSpec
CONSTANTS
    a = a
    b = b
    c = c
    None = None
    Ids = {a, b, c}
    Placeholders = {c}
    Tags = {t}
    t = t
    StoreHistory = {TRUE, FALSE}
    Started = {1, 2}
    MaxRuns = 3
SYMMETRY NotebookCells
INVARIANTS
    CurrentHasHighestNumber
    TagsFollowCells
    ForcedAsAsked
PROPERTY NumberIsPrompt
\* Not a deadlock of the program: the bound on runs is reached.
CHECK_DEADLOCK FALSE
