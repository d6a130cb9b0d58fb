CONSTANTS
  Kind = "active"
  Immediate = TRUE
  SendCap = 3
  RecvCap = 3
  ReadMax = 4
  SockCap = 2
  MaxLen = 3
  KeepMax = 2
  MaxBytes = 5
  MaxIn = 4
SPECIFICATION FairSpec
CHECK_DEADLOCK FALSE
INVARIANTS TypeOK WritableIsIdle SentInOrder ClosedForAReason
PROPERTIES ArmedIsFlushed ToldOfConnection
