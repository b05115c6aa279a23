CONSTANTS
  t1 = t1
  t2 = t2
  s1 = s1
  r1 = r1
  r2 = r2
  c1 = c1
  q1 = q1
  q2 = q2
  coll = coll
  Tasks <- MCTasks
  Ops <- SmallOps
  Needs <- SmallNeeds
  NullRequests = TRUE
  CPUs <- MCCPUs
  CollQueue = coll
  Program <- SmallProgram
  Blocking <- SmallBlocking
  Collective <- MCCollective
  WithStatus <- SmallWithStatus
  BatchSize = 1
  CapacityMin = 1
  CapacityMax = 3
  QueueCapacity = 2
  FullFailure <- MCFailure
  CompletionSize = 2
  UseCompletionManager = TRUE
  GeneralTesting = "testsome"
  ImmediateTesting = "testsome"
SPECIFICATION Spec
INVARIANT
  StatusSavedOnRelease
CHECK_DEADLOCK FALSE
