CONSTANTS
  NoRow = NoRow
  NoCursor = NoCursor
  Files = {1, 2}
  Asked = {1}
  Lines = {1, 2}
  UnsafeLines = {2}
  Watches = {1}
  Clock = {1, 2}
  ScanLimit = 1
  PageSizes = {2}
  MaxLines = 2
  MaxCommits = 3
  Shared = FALSE
SPECIFICATION Spec
INVARIANTS ChainIsTheChanges
PROPERTIES RewritesAreTold
CHECK_DEADLOCK FALSE
