CONSTANTS
  o1 = o1
  o2 = o2
  o3 = o3
  Ops = {o1, o2, o3}
  KindOf <- MCKindOf
  ActiveTurn = t0
  NoTurn = none
  ServerIds = {9}
  MaxServerRequests = 1
SPECIFICATION MCFairSpec
INVARIANTS SendContract TurnsAreAsReported
PROPERTIES NoAnswerIsStolen EveryOperationEnds
CHECK_DEADLOCK FALSE
