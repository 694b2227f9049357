CONSTANTS
  ToolThreads = {t1, t2}
  NoThread = NoThread
  NoReport = NoReport
  MaxGateways = 1
  MaxSmokes = 2
  MaxRuns = 1
SPECIFICATION Spec
SYMMETRY Alike
INVARIANT CoveredRowsWereProven
CHECK_DEADLOCK FALSE
