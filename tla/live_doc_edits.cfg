SPECIFICATION Spec
CONSTANTS
  Holders = {c1, c2}
  Edits = {e1, e2}
  Incarnations = {i1, i2}
  NoEntry = NoEntry
  NoState = NoState
  StoredBodies <- EmptyOrText
  RestBodies <- NoTexts
  VersionBodies <- NoTexts
  MaxFailures = 2
  MaxCrashes = 1
INVARIANTS
  TypeOK
  HoldersAreCounted
  AcceptedEditIsPlanned
PROPERTIES
  HoldsAsLease
  UnloadIsSavedOrSaving
SYMMETRY Symmetric
