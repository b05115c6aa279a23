CONSTANTS
  Users = {main, u}
  Main = main
  NoOne = NoOne
  NumCPUs = 1
  CompletionEnabled = TRUE
  MaxPolls = 2
  MaxCalls = 1
SPECIFICATION FairSpec
PROPERTIES
  FinalizeReturns
CHECK_DEADLOCK FALSE
