CONSTANTS
  Readers = {r1, r2}
  Updaters = {u1, u2}
  NCpus = 1
  HalfInt = 4
  CountMod = 4
  None = None
SPECIFICATION FairSpec
PROPERTIES GracePeriodEnds
