SPECIFICATION Spec
CONSTANTS
  Sockets = {"main"}
  Datagrams <- SingleFrames
  IndexModulus = 256
  BufferSize = 512
  MinimumBytes = 8
  MaxDatagrams = 3
  MaxHandled = 3
INVARIANTS
  EveryFrameIsHandled
CHECK_DEADLOCK FALSE
