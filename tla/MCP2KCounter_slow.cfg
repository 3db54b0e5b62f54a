SPECIFICATION Spec
CONSTANTS
  Room = 2
  Hour = 4
  Recent = 3
  MaxTime = 9
  Latency = TRUE
  None = None
INVARIANT CompleteIsExact
