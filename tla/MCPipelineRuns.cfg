\* Two scheduled runs, two cities, programs that capture without the lock.
SPECIFICATION FairSpec
CONSTANTS
  r1 = r1
  r2 = r2
  Nobody = Nobody
  Runs = {r1, r2}
  CityOrder <- MCCityOrder
  WithBucket = TRUE
  MaxCaptures = 2
  MaxFaults = 1
INVARIANTS
  OneProgramAtATime
  BackupsLast
PROPERTIES
  SuccessIsComplete
  EventuallyProcessed
