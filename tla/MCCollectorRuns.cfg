\* Two pages, two events that share an attachment; two replacements, one failed
\* request or killed run.  A store that a kill left unsealed stops the collector
\* for good.
SPECIFICATION FairSpec
CONSTANTS
  v1 = v1
  v2 = v2
  bad = bad
  time0 = time0
  time1 = time1
  time2 = time2
  Events = {1, 2}
  Attachments = {7}
  MaxPages = 2
  Versions = {v1, v2, bad}
  NoVersion = NoVersion
  Usable = {v1, v2}
  Flawed = {}
  Full = {v2}
  Listed <- MCListed
  Attached <- MCAttached
  Unlinked <- MCUnlinkedAgendas
  Published <- MCPublished
  Described <- MCDescribed
  Tagged <- MCAllTagged
  Failures = {"500"}
  First <- MCFirst
  MaxPublished = 2
  MaxFaults = 1
INVARIANTS
  CompleteMeansCaptured
  ContentChangesAreReal
  RepeatsComeBack
  DocumentsHaveEvents
PROPERTY
  EventuallyCaptured
CHECK_DEADLOCK FALSE
