CONSTANTS
  Procs = {p1, p2}
  NoMark = NoMark
  MaxBytes = 5
  MaxEvents = 2
  MaxWrites = 2
SPECIFICATION Spec
INVARIANTS SettledIsSound
CHECK_DEADLOCK FALSE
