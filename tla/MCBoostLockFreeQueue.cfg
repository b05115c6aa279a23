CONSTANTS
  CPUs = {cpu1, cpu2}
  NoCPU = NoCPU
  Objects = {o1, o2, o3}
  BatchSize = 2
  MaxFree = 3
  None = None
  Size = 3
  FullFailure = FALSE
  MaxPush = 5
SPECIFICATION QueueSpec
INVARIANTS
  OneOwner
  FailsOnlyWhenExhausted
PROPERTIES
  ImplementsFifo
  PushReturns
\* The operations are bounded, and a failing alloc ends the program.
CHECK_DEADLOCK FALSE
