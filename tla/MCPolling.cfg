CONSTANTS
  Numbers = {0, 1, 6}
  Words = {"slowstart", "linear"}
  MaxFields = 3
  CapacityLimit = 5
  BatchSize = 2
  DefaultMin = 2
  DefaultTimeout = 2
  Ops = 6
  Needed = 4
  DefaultPeriodUs = 100
  MinBase = 4
  Tolerance = 2
  Unit = 4
SPECIFICATION PollingSpec
INVARIANTS
  CapacityHolds
  PeriodInRange
PROPERTIES
  DeadlockBroken
  PeriodAdapts
\* A rejected setting ends the program.
CHECK_DEADLOCK FALSE
