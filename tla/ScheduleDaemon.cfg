SPECIFICATION Spec
CONSTANTS
  Schedules = {"s1"}
  Period <- EveryMinute
  MaxConcurrentPerExt = 1
  AUTO_DISABLE_AFTER = 2
  MaxRunsPerDay = 1
  DayLength = 2
  ReapAge = 1
  MaxTicks = 2
  MaxTime = 3
  MaxEvents = 1
CHECK_DEADLOCK FALSE
INVARIANTS
  TypeOK
  SlotSentOnce
  QuotaHeld
  CounterCovers
  ErrorsReal
PROPERTIES
  DueIsServed
