SPECIFICATION FairSpec
CONSTANTS
  Holders = {c1, c2}
  Edits = {e1, e2}
  Incarnations = {i1, i2}
  NoEntry = NoEntry
  NoState = NoState
  StoredBodies <- EmptyOrText
  RestBodies <- NoTexts
  VersionBodies <- NoTexts
  MaxFailures = 2
  MaxCrashes = 0
PROPERTIES
  UnsavedEditReachesRow
  IdleDocIsUnloaded
