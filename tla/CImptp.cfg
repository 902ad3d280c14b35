SPECIFICATION Spec
CONSTANTS
    Modes <- CModes
    jobcnt = 2
    top = 2
    MaxStarts = 2
    LastTry = 1
INVARIANTS ReturnedMeansReady LastiTellsTruth
PROPERTIES Implements NobodyStuck
CHECK_DEADLOCK FALSE
