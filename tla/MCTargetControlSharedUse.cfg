CONSTANTS
  p1 = p1
  p2 = p2
  c1 = c1
  c2 = c2
  b1 = b1
  b2 = b2
  NoBinding = NoBinding
  Bindings = {b1, b2}
  Procs = {p1, p2}
  Calls = {c1, c2}
  ProcOf <- MCSharedProcOf
  TTL = 1
  MaxTime = 0
  MaxId = 3
  MaxCuts = 0
SYMMETRY MCSharedSymmetry
SPECIFICATION Spec
INVARIANTS SingleUse
CHECK_DEADLOCK FALSE
