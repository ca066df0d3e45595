SPECIFICATION Spec
CONSTANTS
  Wqs = {q1, q2}
  Works = {w1}
  Delayed = {w1}
  Clients = {c1, c2}
  MaxDepth = 2
  None = None
SYMMETRY Symmetry
INVARIANTS OneOwner DataIsRight CancelStops FlushWaits StopClean BarrierOnStack
CHECK_DEADLOCK FALSE
