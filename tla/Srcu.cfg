CONSTANTS
  Readers = {r1, r2}
  Updaters = {u1, u2}
  NCpus = 2
  HalfInt = 4
  CountMod = 4
  None = None
SPECIFICATION Spec
INVARIANTS IdleRankEmpty
PROPERTIES ImplementsGracePeriod
SYMMETRY Symmetry
