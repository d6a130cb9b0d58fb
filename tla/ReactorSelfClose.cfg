CONSTANTS
  Id = {log, a}
  Queue = {log}
  Udp = {}
  Gap = 1
  FetchMax = 2
  Closes = {"self"}
  MayFill = FALSE
SPECIFICATION Spec
INVARIANTS NeverDangling
