CONSTANTS
  Procs = {p1}
  NoMark = NoMark
  MaxBytes = 5
  MaxEvents = 2
  MaxWrites = 4
SPECIFICATION Spec
INVARIANTS SkipIsSound WatermarkIsHonest CatchesUp
PROPERTIES EpochOnlyGrows
CHECK_DEADLOCK FALSE
