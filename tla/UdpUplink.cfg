CONSTANTS
  Window = 2
  Mss = 2
  PushSize <- MCPushSize
  AckSize = 1
  MaxSeq <- MCUplink
  MaxBurst = 2
  MaxStamp = 2
  MaxContexts = 2
  MaxInFlight = 2
  SocketErrors = TRUE
SPECIFICATION Spec
INVARIANTS TypeOK BufferInWindow ClientConfirmedWasSeen FlightBounded
CHECK_DEADLOCK FALSE
