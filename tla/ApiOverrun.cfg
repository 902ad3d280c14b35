SPECIFICATION Spec
CONSTANTS
    Programs <- OverrunPrograms
    RandomValues = {0, 63}
INVARIANT NoOverrun
