SPECIFICATION FairSpec
CONSTANTS
  Tasks = {t1, t2, t3, t4}
  NoTask = NoTask
INVARIANTS WriterExcludes ActivityCounts HeadIsWriter ReferencesExact
PROPERTIES ImplementsRWLock WaitersServed
