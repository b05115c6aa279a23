CONSTANTS
  t1 = t1
  t2 = t2
  s1 = s1
  r1 = r1
  r2 = r2
  c1 = c1
  q1 = q1
  q2 = q2
  coll = coll
  Tasks <- MCTasks
  Ops <- MCOps
  Needs <- MCNeeds
  NullRequests = FALSE
  CPUs <- MCCPUs
  CollQueue = coll
  Program <- MCProgram
  Blocking <- MCBlocking
  Collective <- MCCollective
  WithStatus <- MCWithStatus
  BatchSize = 1
  CapacityMin = 1
  CapacityMax = 3
  QueueCapacity = 2
  FullFailure <- MCFailure
  CompletionSize = 2
  UseCompletionManager = FALSE
  GeneralTesting = "testsome"
  ImmediateTesting = "testsome"
SPECIFICATION Spec
INVARIANTS
  ReleasedOnlyWhenFinished
  StatusSavedOnRelease
  HandlesAlive
  ExactlyOnce
  OneUnblockAhead
  CapacityRespected
  IssueOrder
  AllocatedWhileInUse
  IInv
CHECK_DEADLOCK FALSE
