CONSTANTS
  CompletionEnabled = TRUE
  MaxInits = 3
  MaxOps = 2
SPECIFICATION TaskingSpec
INVARIANT NoNullCall
\* The program may end, or be ended.
CHECK_DEADLOCK FALSE
