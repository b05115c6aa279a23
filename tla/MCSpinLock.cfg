CONSTANTS
  Threads = {a, b, c}
  Size = 2
  MaxTicket = 5
SPECIFICATION FairSpec
INVARIANTS
  MutualExclusion
  NoOvertaking
PROPERTY
  Served
CHECK_DEADLOCK FALSE
