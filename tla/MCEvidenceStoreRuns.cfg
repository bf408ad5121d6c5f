\* One collector, started on an empty directory, and the web service that
\* opens the store beside it, both killed anywhere.
SPECIFICATION Spec
CONSTANTS
  w1 = w1
  web = web
  k1 = k1
  k2 = k2
  k3 = k3
  b1 = b1
  b2 = b2
  NoKey = NoKey
  Writers = {w1}
  Readers = {web}
  Keys = {k1, k2, k3}
  Bodies = {b1, b2}
  BodyOf <- MCBodyOf
  Seed <- EmptySeed
INVARIANTS
  ChainFollowsManifest
  StopsOnlyForDamage
  CitedBodiesWhole
  OpenedMeansSealed
PROPERTY
  ImplementsLog
