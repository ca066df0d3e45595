SPECIFICATION FairSpec
CONSTANTS
  Cpus = {c1, c2}
  Tasks = {u1}
  Tasklets = {t1, t2}
  Hi = {t2}
  MaxSoftirqRestart = 2
  None = None
INVARIANTS SchedHeldOnce Excluded PendingServed
PROPERTIES ScheduledRuns
CHECK_DEADLOCK FALSE
