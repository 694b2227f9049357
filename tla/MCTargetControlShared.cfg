CONSTANTS
  p1 = p1
  p2 = p2
  c1 = c1
  c2 = c2
  b1 = b1
  b2 = b2
  NoBinding = NoBinding
  Bindings = {b1, b2}
  Procs = {p1, p2}
  Calls = {c1, c2}
  ProcOf <- MCSharedProcOf
  TTL = 1
  MaxTime = 0
  MaxId = 4
  MaxCuts = 2
SYMMETRY MCSharedSymmetry
SPECIFICATION Spec
INVARIANTS SpentIsVisible UsesWhatWasGranted
CHECK_DEADLOCK FALSE
