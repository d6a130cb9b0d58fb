CONSTANTS
  Window = 2
  Mss = 2
  PushSize <- MCPushSize
  AckSize = 1
  MaxSeq <- MCReset
  MaxBurst = 1
  MaxStamp = 2
  MaxContexts = 2
  MaxInFlight = 2
  SocketErrors = FALSE
SPECIFICATION Spec
PROPERTIES ContextKept
CHECK_DEADLOCK FALSE
