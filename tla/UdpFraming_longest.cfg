SPECIFICATION Spec
CONSTANTS
  Sockets = {"main"}
  Datagrams <- LongestFrame
  IndexModulus = 256
  BufferSize = 512
  MinimumBytes = 8
  MaxDatagrams = 2
  MaxHandled = 3
PROPERTIES
  HandlerReturns
CHECK_DEADLOCK FALSE
