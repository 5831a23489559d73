SPECIFICATION Spec
CONSTANTS
  r1 = r1
  r2 = r2
  c1 = c1
  Runs = {r1, r2}
  Convs = {c1}
  ConvOf <- OneConv
  MAX_RUNS = 1
  OrderedDB = TRUE
  MaxCancels = 0
  MaxFailures = 0
  MaxCrashes = 1
  MaxGates = 0
  MaxHangs = 1
CHECK_DEADLOCK FALSE
SYMMETRY Symmetric
INVARIANTS
  TypeOK
  LiveRunRow
