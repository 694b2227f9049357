CONSTANTS
  c1 = c1
  c2 = c2
  t1 = t1
  t2 = t2
  Nobody = nobody
  NoControl = nocontrol
  Threads = {t1, t2}
  Calls = {c1, c2}
  TTL = 1
  MaxTime = 1
  MaxTurns = 2
  MaxLoads = 1
  MaxRefs = 2
  MaxApprovals = 1
SYMMETRY MCSymmetry
SPECIFICATION MCSpec
PROPERTIES HitsWhatWasApproved KeepsTheLedger
CHECK_DEADLOCK FALSE
