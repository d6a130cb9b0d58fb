CONSTANTS
  Kind = "passive"
  Immediate = FALSE
  SendCap = 3
  RecvCap = 3
  ReadMax = 4
  SockCap = 2
  MaxLen = 3
  KeepMax = 2
  MaxBytes = 7
  MaxIn = 4
SPECIFICATION Spec
CHECK_DEADLOCK FALSE
INVARIANTS ClosedForAReason
