CONSTANTS
  Wqs = {q1}
  Works = {w1, w2}
  Delayed = {}
  Clients = {c1, c2}
  MaxDepth = 2
  None = None
SPECIFICATION Spec
INVARIANT WaitsAsDocumented
CHECK_DEADLOCK FALSE
