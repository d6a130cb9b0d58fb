CONSTANTS
  Timer = {t1, t2, t3}
  Interval = {2, 5}
  Times <- MCTimes
  Base = 2
  BucketNum = 3
  MayDelete = TRUE
  LoopDelay = 1
  MaxLate = 2
SPECIFICATION Spec
SYMMETRY MCSymmetry
INVARIANTS TypeOK EachInItsBucket
PROPERTIES CursorOnTimer
CHECK_DEADLOCK FALSE
