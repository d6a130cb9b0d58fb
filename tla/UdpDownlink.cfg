CONSTANTS
  Window = 2
  Mss = 2
  PushSize <- MCPushSize
  AckSize = 1
  MaxSeq <- MCDownlink
  MaxBurst = 2
  MaxStamp = 1
  MaxContexts = 2
  MaxInFlight = 2
  SocketErrors = FALSE
SPECIFICATION Spec
INVARIANTS ConfirmedIsHeld ServerPushInWindow FlightBounded
PROPERTIES BlockedForGood ReliableStreams
CHECK_DEADLOCK FALSE
