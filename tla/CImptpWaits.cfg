SPECIFICATION Spec
CONSTANTS
    Modes <- CModes
    jobcnt = 2
    top = 1
    MaxStarts = 2
    LastTry = 1
PROPERTIES WaitsEnd
CHECK_DEADLOCK FALSE
