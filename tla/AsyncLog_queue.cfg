SPECIFICATION Spec
CONSTANTS
  Threads = {main, can}
  Flushers = {}
  Crashers = {}
  Writer = writer
  MaxQueuedBytes = 2
  Pieces = {1}
  MaxPartial = 1
  MaxLines = 4
INVARIANTS
  QueueBounded
  NothingVanishes
PROPERTIES
  LogIsLossyFifo
CHECK_DEADLOCK FALSE
