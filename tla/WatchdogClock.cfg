SPECIFICATION Spec
CONSTANTS
  read = read
  ask = ask
  TICK = 2
  IDLE = 3
  AGENT_IDLE = 5
  REFRESH = 3
  ORPHAN = 12
  Tools = {read, ask}
  CALL <- CallTimeouts
  SLOWEST = 3
  UserTools = {ask}
  Team = FALSE
  MaxSetup = 2
  MaxLost = 1
CHECK_DEADLOCK FALSE
INVARIANTS
  TypeOK
  KilledInSilence
  HeartbeatFresh
  HangIsFound
