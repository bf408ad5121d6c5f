\* The scheduled notifier and one started by hand, killed and answered
\* anyhow; one review cannot be rendered, and only the newest row is found.
SPECIFICATION FairSpec
CONSTANTS
  w1 = w1
  f1 = f1
  f2 = f2
  cron = cron
  hand = hand
  Watches = {w1}
  Findings = {f1, f2}
  Scheduled = {cron}
  Manual = {hand}
  Unsendable = {f2}
  RowLimit = 1
  MaxSaves = 2
  MaxFaults = 1
INVARIANTS
  SentMeansAccepted
  DuplicateNeedsLostRecord
PROPERTIES
  EmailsAreWarranted
  SentIsFinal
  EveryReviewDelivered
