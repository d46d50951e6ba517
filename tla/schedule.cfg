\* Two calls of the debounced function, whose callbacks may overlap.
SPECIFICATION TimersSpec
CONSTANTS
    MaxTimers = 2
    SlowMain = FALSE
INVARIANTS
    ChangeIsScheduled
    RequestIsServed
    ScheduleKept
    CallbackUsesLiveness
PROPERTIES
    PendingEnds
