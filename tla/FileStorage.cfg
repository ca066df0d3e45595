SPECIFICATION FairSpec
CONSTANTS
  Builds = {TRUE, FALSE}
  MaxBlocks = 2
  MaxTag = 2
INVARIANTS TransfersOwned UnbindSafe SleepsSoundly
PROPERTIES ExceptionsHandled
CHECK_DEADLOCK FALSE
