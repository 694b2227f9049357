CONSTANTS
  p1 = p1
  p2 = p2
  c1 = c1
  c2 = c2
  b1 = b1
  b2 = b2
  NoBinding = NoBinding
  Bindings = {b1, b2}
  Procs = {p1}
  Calls = {c1, c2}
  ProcOf <- MCProcOf
  TTL = 1
  MaxTime = 1
  MaxId = 4
  MaxCuts = 2
SYMMETRY MCSymmetry
SPECIFICATION Spec
INVARIANTS HonestReport
PROPERTIES ImplementsLedger
CHECK_DEADLOCK FALSE
