CONSTANTS
  Kinds = {"passive", "active", "udp"}
  Capacity = 12
  Streams <- MCStreams
  HeaderLen = 2
  ReadMax = 8
  Mss = 4
  Garbage = {0, 2, 4}
SPECIFICATION Spec
CHECK_DEADLOCK FALSE
INVARIANTS InStep MemoryBounded
PROPERTIES GivenWhole ClosedForCause GivenInTurn
