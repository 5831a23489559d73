SPECIFICATION Spec
CONSTANTS
  MaxPosts = 2
  MaxSlots = 2
  MAX_TURNS = 3
  THRESHOLD = 2
  MaxGoals = 2
  MaxUpsets = 1
CHECK_DEADLOCK FALSE
INVARIANTS
  TypeOK
  EndedGoalStaysEnded
  ContinuationsBounded
  NoSilentStall
PROPERTIES
  LoopComesToRest
