SPECIFICATION Spec
CONSTANTS
    Modes <- AllModes
    jobcnt = 2
    top = 2
    MaxStarts = 2
INVARIANTS CheckdbPasses CompleteNotRedone LossSeenNoCrash
CHECK_DEADLOCK FALSE
