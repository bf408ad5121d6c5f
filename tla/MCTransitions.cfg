\* Two versions of two appearances, the first capture before the baseline.
SPECIFICATION FairSpec
CONSTANTS
  MaxVersion = 2
  Baseline = 1
  MaxChanges = 2
  MaxFaults = 1
  MaxBackfills = 1
INVARIANTS
  ObservedIsNew
PROPERTY
  WitnessedIsLabelled
CHECK_DEADLOCK FALSE
