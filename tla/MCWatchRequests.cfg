\* Two threads, two clients with room for one, one address, one restart.
SPECIFICATION Spec
CONSTANTS
  t1 = t1
  t2 = t2
  c1 = c1
  c2 = c2
  a1 = a1
  Nobody = Nobody
  Threads = {t1, t2}
  Clients = {c1, c2}
  Addresses = {a1}
  Maximum = 2
  Window = 2
  MaxKeys = 1
  MaxTime = 4
  MaxFetches = 2
  MaxRestarts = 1
SYMMETRY Symmetric
INVARIANTS
  AtMostMaximum
  RetryAfterIsHonest
  BrokenNeedsRestart
  HitsAreWhole
