SPECIFICATION FairSpec
CONSTANTS
  s1 = s1
  Nobody = Nobody
  Starts = {s1}
  Autonomous = {s1}
  MaxCycles = 1
  MaxMessages = 2
  MaxStops = 1
  MaxDrops = 1
CHECK_DEADLOCK FALSE
INVARIANTS
  TypeOK
  LoopBounded
  RowConverges
  MessagesTaken
PROPERTIES
  EndIsFinal
  StartEnds
