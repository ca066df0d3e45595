SPECIFICATION FairSpec
CONSTANTS
  Tasks = {t1, t2, t3}
  NoTask = NoTask
  Units = 1
  Signalled = {t1, t2}
INVARIANTS UnitsBound Accounting NoLostWakeup QueueMatches
PROPERTIES NoHang
