SPECIFICATION FairSpec
CONSTANTS
  r1 = r1
  r2 = r2
  c1 = c1
  Runs = {r1}
  Convs = {c1}
  ConvOf <- OneConv
  MAX_RUNS = 1
  OrderedDB = TRUE
  MaxCancels = 1
  MaxFailures = 0
  MaxCrashes = 1
  MaxGates = 1
  MaxHangs = 2
CHECK_DEADLOCK FALSE
INVARIANTS
  ActiveRowReleased
PROPERTIES
  RowsHeal
  WedgedRunEnds
