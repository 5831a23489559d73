SPECIFICATION Spec
CONSTANTS
  m1 = m1
  m2 = m2
  Messages = {m1, m2}
  Parts = 2
  BatchSize = 2
  MaxAttempts = 2
  MaxVersion = 2
  MaxBlanks = 1
  MaxFaults = 2
  MaxCrashes = 1
  MaxScripts = 1
CHECK_DEADLOCK FALSE
INVARIANTS
  TypeOK
  IndexAgrees
  GivenUpAfterRetries
  ClaimedRowOwned
PROPERTIES
  JobsSettle
