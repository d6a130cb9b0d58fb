CONSTANTS
  Window = 2
  Mss = 2
  PushSize <- MCPushSize
  AckSize = 1
  MaxSeq <- MCLive
  MaxBurst = 1
  MaxStamp = 1
  MaxContexts = 1
  MaxInFlight = 2
  SocketErrors = FALSE
SPECIFICATION FairSpec
PROPERTIES EventuallyDelivered
CHECK_DEADLOCK FALSE
