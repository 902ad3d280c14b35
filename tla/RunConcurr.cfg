SPECIFICATION Spec
CONSTANTS
  Prime = 3
  Root <- RootDef
  NTPJ = 1
  TPRJ = 2
  TPCJ = 3
  Iterate = 2
  SharedNames <- SharedDef
  OwnNames <- OwnDef
  LastTry = 1
INVARIANT Barrier
INVARIANT AllOrNothing
INVARIANT verifyPasses
PROPERTY Stops
