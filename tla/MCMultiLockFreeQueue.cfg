CONSTANTS
  NumQueues = 2
  Capacity = 3
  Requested = {2, 3}
  MaxPush = 4
SPECIFICATION FairMultiSpec
INVARIANTS
  StaleIsSafe
  CyclicFair
PROPERTIES
  ImplementsFifos
  PopReturns
CHECK_DEADLOCK FALSE
