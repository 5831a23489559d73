SPECIFICATION Spec
CONSTANTS
  Calls = {c1, c2}
  TimedCalls = {c1}
  Persistent = FALSE
  Threshold = 2
  MaxTotal = 2
  MaxFrames = 2
CHECK_DEADLOCK FALSE
INVARIANTS
  TypeOK
  NoCallbackLost
  NoChildForgotten
  KillNotCounted
PROPERTIES
  CallsAreRemote
