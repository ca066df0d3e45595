SPECIFICATION FairSpec
CONSTANTS
  Wqs = {q1}
  Works = {w1}
  Delayed = {w1}
  Clients = {c1, c2}
  MaxDepth = 2
  None = None
PROPERTIES FlushReturns QueuedRuns
CHECK_DEADLOCK FALSE
