SPECIFICATION Spec
CONSTANTS
    A = A
    B = B
    C = C
    r1 = r1
    r2 = r2
    d1 = d1
    d2 = d2
    d3 = d3
    p1 = p1
    p2 = p2
    Nobody = Nobody
    Invocations = {A, B, C}
    njobs = 2
    Names <- MCNames
    rtn <- SameRoutine
    Ids <- MCIds
    jobid <- OwnIds
    caller <- TwoCallers
    NoLock = {C}
    MaxTries = 2
INVARIANTS TypeOK BarrierWithJobid
CHECK_DEADLOCK FALSE
