\* Every order of four captures, with the three steps in any order and killed.
SPECIFICATION Spec
CONSTANTS
  e1 = e1
  i1 = i1
  i2 = i2
  a1 = a1
  x1 = x1
  x2 = x2
  xb = xb
  xu = xu
  xr = xr
  g1 = g1
  g2 = g2
  gu = gu
  p1 = p1
  p2 = p2
  h1 = h1
  T1 = T1
  T2 = T2
  Events = {e1}
  Items = {i1, i2}
  Attachments = {a1}
  Home <- MCHome
  Versions <- MCVersions
  Captures <- AllCaptures
  Unparsable = {xu, xr}
  RowOnly = {xr}
  Stored <- MCStored
  Raised <- MCRaised
  Title <- MCTitle
  NoTitle = NoTitle
  Files <- MCFiles
  Value <- MCValue
  NoValue = NoValue
  Mapping <- MCMapping
  WithFile = {x1, xb, xr}
  Unreadable = {gu}
  NotPdf = {h1}
  Classify <- MCClassify
  MaxCaptures = 4
INVARIANTS
  ValuesHaveSources
  FirstObservedIsEarliest
  NothingDropped
  OnlyFailuresAreReplayed
  ReadingsAreNewest
