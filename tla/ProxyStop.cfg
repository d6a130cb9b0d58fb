CONSTANTS
  Worker = {1, 2}
  Nobody = Nobody
  SockCap = 1
  Loads <- MCLoads
  MaxSignals = 2
SPECIFICATION Spec
CHECK_DEADLOCK FALSE
INVARIANTS TypeOK InOrder NobodyHangs ReadBeforeLeaving StoppedIsStopped LinesInOrder
PROPERTIES StopCompletes LogDrains
