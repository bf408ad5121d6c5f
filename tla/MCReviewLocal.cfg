SPECIFICATION Spec
CONSTANTS
  Facets = {"x", "y", "z"}
  t1 = t1
  t2 = t2
  Titles <- MCTitles
  NoTitle = NoTitle
  Mentions <- MCMentions
  MinimumOverlap = 1
  MinimumAppearances = 2
  Threads = {p1, p2}
  Managed = FALSE
  MinimumSupported = 2
  Notes <- MCNotes
  Kinds <- MCKinds
  InitialCases <- MCCases
  MaxAppearances = 3
  MaxChanges = 1
SYMMETRY Symmetric
INVARIANTS
  AcceptedWasShown
  TitleConcernsStand
PROPERTY
  FindingsNeverGoBack
