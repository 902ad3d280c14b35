SPECIFICATION Spec
CONSTANTS
  Kids = {k1, k2}
  Lines <- MCLines
  MaxCrash = 1
  Fuel = 16
INVARIANTS ReportAfterAll StepsRight ResultRight StatsRight
PROPERTIES AllLines
