CONSTANTS
  Users = {main, u}
  Main = main
  NoOne = NoOne
  NumCPUs = 2
  CompletionEnabled = TRUE
  MaxPolls = 4
  MaxCalls = 1
SPECIFICATION FairSpec
INVARIANTS
  ModesServed
  NoUseAfterDelete
  QuietWhenFinalized
  ProvidedHonestly
  FinalizedWithMPI
PROPERTIES
  FinalizeReturns
  DelegatedServed
CHECK_DEADLOCK FALSE
