\* A user who does not wait and comes back to the tab; one who waits to press the
\* space bar, meets errors and runs cells on their own, and who comes back to the
\* tab or does not; or incremental reactivity, with the same users but for cells run
\* on their own, and with one who does not wait.
SPECIFICATION Spec
CONSTANTS
    N = 3
    ExecSchedules = {"dag_based", "hybrid_dag_liveness_based"}
    MaxActs = 3
    Envs = {{"hurry", "tab"}, {"error", "alone", "stale"}, {"error", "alone", "stale", "tab"},
            {"incremental", "error", "stale"}, {"incremental", "error", "stale", "tab"}, {"incremental", "hurry"}}
INVARIANTS
    SettledIsConsistent
    SettledIsIdle
    SettledViewIsCurrent
PROPERTIES
    OnlyOutOfDateReruns
    Settles
\* Not a deadlock of the program: everything has settled and the user stops.
CHECK_DEADLOCK FALSE
