SPECIFICATION LoopsFair
CONSTANTS
  Caller = {a, b, c}
  Conn = {k1, k2, k3}
  MaxPerPath = 2
  MaxLoops = 2
  MaxBlocks = 5
  MaxFailures = 1
  MayCloseAll = TRUE
  CancelWait = TRUE
  CancelCheckIn = TRUE
  None = none
INVARIANTS Isolated SlotsAccounted SleepersWillWake
PROPERTIES BlocksEnd
