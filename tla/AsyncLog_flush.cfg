SPECIFICATION Spec
CONSTANTS
  Threads = {main, can}
  Flushers = {main}
  Crashers = {can, writer}
  Writer = writer
  MaxQueuedBytes = 1
  Pieces = {1}
  MaxPartial = 0
  MaxLines = 2
INVARIANTS
  FlushAccountsForAll
PROPERTIES
  FlushReturns
  LinesAreWritten
CHECK_DEADLOCK FALSE
