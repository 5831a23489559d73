SPECIFICATION Spec
CONSTANTS
  r1 = r1
  r2 = r2
  c1 = c1
  Runs = {r1}
  Convs = {c1}
  ConvOf <- OneConv
  MAX_RUNS = 1
  OrderedDB = TRUE
  MaxCancels = 1
  MaxFailures = 0
  MaxCrashes = 0
  MaxGates = 0
  MaxHangs = 0
CHECK_DEADLOCK FALSE
PROPERTIES
  CancelSticks
