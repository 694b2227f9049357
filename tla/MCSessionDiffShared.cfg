CONSTANTS
  NoRow = NoRow
  NoCursor = NoCursor
  Files = {1}
  Asked = {1}
  Lines = {1, 2}
  UnsafeLines = {2}
  Watches = {1}
  Clock = {1}
  ScanLimit = 1
  PageSizes = {2}
  MaxLines = 2
  MaxCommits = 2
  Shared = TRUE
SPECIFICATION Spec
INVARIANT DrainsWhateverIsCommitted
CHECK_DEADLOCK FALSE
