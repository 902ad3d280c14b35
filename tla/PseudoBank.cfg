SPECIFICATION Spec
CONSTANTS
  NumThreads = 2
  IdShift = 1
  NumAccts = 2
  Amt = 1
  StartBal = 5
  MaxRuns = 2
  LastTry = 1
INVARIANTS HistoryMatches LogCounts
PROPERTIES Implements Stops
