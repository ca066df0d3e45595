CONSTANTS
  Clients = {c1, c2}
  Threads = {k1, k2}
  None = None
SPECIFICATION Spec
INVARIANT ThreadsAsDocumented

