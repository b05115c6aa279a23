CONSTANTS
  t1 = t1
  t2 = t2
  s1 = s1
  r1 = r1
  r2 = r2
  c1 = c1
  q1 = q1
  q2 = q2
  coll = coll
  Tasks <- MCTasks
  Ops <- SmallOps
  Needs <- SmallNeeds
  NullRequests = TRUE
  CPUs <- MCCPUs
  CollQueue = coll
  Program <- SmallProgram
  Blocking <- SmallBlocking
  Collective <- MCCollective
  WithStatus <- SmallWithStatus
  BatchSize = 1
  CapacityMin = 1
  CapacityMax = 3
  QueueCapacity = 1
  FullFailure <- MCSpin
  CompletionSize = 3
  UseCompletionManager = TRUE
  GeneralTesting = "testany"
  ImmediateTesting = "none"
SPECIFICATION FairSpec
INVARIANT
  ExactlyOnce
PROPERTIES
  TasksComplete
  KeepsPromise
CHECK_DEADLOCK FALSE
