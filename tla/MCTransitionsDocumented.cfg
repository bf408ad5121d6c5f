\* The documented rule, where the first capture is from before the baseline.
SPECIFICATION Spec
CONSTANTS
  MaxVersion = 2
  Baseline = 1
  MaxChanges = 2
  MaxFaults = 1
  MaxBackfills = 1
INVARIANTS
  BothAfterBaseline
CHECK_DEADLOCK FALSE
