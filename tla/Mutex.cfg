SPECIFICATION FairSpec
CONSTANTS
  Tasks = {t1, t2, t3}
  NoTask = NoTask
  FastPaths = {"armv6", "xchg", "dec", "null"}
INVARIANTS MutualExclusion CountTellsOwner NoLostWakeup NoDanglingWaiter
PROPERTIES ImplementsLock NoHang
