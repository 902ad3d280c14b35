SPECIFICATION Spec
CONSTANTS
    Programs <- OtherPrograms
    RandomValues = {0, 63}
INVARIANT AsListed
INVARIANT NoOverrun
