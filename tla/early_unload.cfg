SPECIFICATION Spec
CONSTANTS
  Holders = {c1}
  Edits = {e1, e2}
  Incarnations = {i1, i2}
  NoEntry = NoEntry
  NoState = NoState
  StoredBodies <- EmptyPage
  RestBodies <- NoTexts
  VersionBodies <- NoTexts
  MaxFailures = 0
  MaxCrashes = 0
PROPERTY
  UnloadOnlyWhenSaved
