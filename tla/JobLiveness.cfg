SPECIFICATION FairSpec
CONSTANTS
    A = A
    B = B
    C = C
    r1 = r1
    r2 = r2
    d1 = d1
    d2 = d2
    d3 = d3
    p1 = p1
    p2 = p2
    Nobody = Nobody
    Invocations = {A, B}
    njobs = 2
    Names <- MCNames
    rtn <- SameRoutine
    Ids <- MCIds
    jobid <- NoIds
    caller <- TwoCallers
    NoLock = {}
    MaxTries = 2
PROPERTIES CallReturns ChildRuns
CHECK_DEADLOCK FALSE
