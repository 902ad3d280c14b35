SPECIFICATION HelpersSpec
CONSTANTS
    prime = 17
    root = 3
    jobcnt = 3
    Jobs = {p1, p2, p3}
    MaxPauses = 2
    njobs = 3
    jmaxwait = 3
    MaxRollbacks = 3
INVARIANTS
    IndexIsIteration CheckdbAgrees
    PauseHolds FlagDefinedInTime
    WaitMeansDead WaitFinds
PROPERTIES
    HandshakeCompletes WaitReturns
CHECK_DEADLOCK FALSE
