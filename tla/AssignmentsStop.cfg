SPECIFICATION Spec
CONSTANTS
  s1 = s1
  Nobody = Nobody
  Starts = {s1}
  Autonomous = {s1}
  MaxCycles = 0
  MaxMessages = 0
  MaxStops = 1
  MaxDrops = 0
CHECK_DEADLOCK FALSE
INVARIANTS
  StopResumable
