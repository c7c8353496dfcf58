SPECIFICATION LiveBackground
CONSTANTS
  None = None
  Requests = {r1, r2}
  BrokenPage = p2
  BrokenFile = f2
  PageIds = {p1, p2}
  Files = {f2}
  PageOf <- FileOfBrokenPage
  Broken = {f2}
  MaxStarted = 2
  MaxUploads = 0
  MaxFailures = 1
  Users = {u1, u2}
  MaxGenerations = 2
  Absent = Absent
  Null = Null
  MAX_DEPTH = 6
INVARIANT
  TextSurvivesConversion
PROPERTIES
  OldTrashIsPurged
  PlaceIsReleased
CHECK_DEADLOCK FALSE
