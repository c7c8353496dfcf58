SPECIFICATION Background
CONSTANTS
  None = None
  Requests = {r1, r2}
  BrokenPage = p2
  BrokenFile = f2
  PageIds = {p1, p2}
  Files = {f2}
  PageOf <- FileOfBrokenPage
  Broken = {f2}
  MaxStarted = 3
  MaxUploads = 0
  MaxFailures = 0
  Users = {u1, u2}
  MaxGenerations = 0
  Absent = Absent
  Null = Null
  MAX_DEPTH = 6
PROPERTIES
  RestoredPageStays
CHECK_DEADLOCK FALSE
