SPECIFICATION Spec
CONSTANTS
  Holders = {c1, c2}
  Edits = {e1}
  Incarnations = {i1, i2}
  NoEntry = NoEntry
  NoState = NoState
  StoredBodies <- EmptyOrText
  RestBodies <- RestText
  VersionBodies <- VersionText
  MaxFailures = 1
  MaxCrashes = 1
INVARIANTS
  StateMatchesJson
  CleanMeansStored
SYMMETRY Symmetric
