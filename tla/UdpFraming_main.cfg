SPECIFICATION Spec
CONSTANTS
  Sockets = {"main", "detection"}
  Datagrams <- Both
  IndexModulus = 256
  BufferSize = 512
  MinimumBytes = 8
  MaxDatagrams = 3
  MaxHandled = 3
INVARIANTS
  TypeOK
  FrameIsHandled
  BackInStep
  NothingInvented
  SubnetWasAnnounced
PROPERTIES
  HandlerReturns
CHECK_DEADLOCK FALSE
