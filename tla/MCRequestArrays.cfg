CONSTANTS
  Requests = {r1, r2, r3, r4, r5}
  NullRequest = NullRequest
  Capacity = 4
  BatchSize = 2
  Testing = "testany"
SPECIFICATION Spec
INVARIANTS
  ArraysCompact
  TicketFollowsRequest
  ReplacementInBounds
PROPERTY
  ImplementsSet
CHECK_DEADLOCK FALSE
