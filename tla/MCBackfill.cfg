\* Two watched events: the second fills the last page, and is one detail too many.
\* A store that a kill or a second writer has damaged is refused from then on, by
\* every program that opens it.
SPECIFICATION FairSpec
CONSTANTS
  Events = {1, 2}
  Watched = {1, 2}
  First = {1}
  MaxVersion = 3
  Undated = {2}
  Itemless = {}
  Paperless = {3}
  PageSize = 1
  MaxPages = 2
  MaxDetails = 1
  MinRepeated = 1
  Matters = {1, 2, 3}
  FirstMatters = {1}
  MaxChanges = 2
  MaxFaults = 1
  MaxRuns = 1
PROPERTIES
  CompleteMeansStored
  NothingGoesBack
  EventuallyStored
CHECK_DEADLOCK FALSE
