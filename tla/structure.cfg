SPECIFICATION Structure
CONSTANTS
  None = None
  Root = Root
  Requests = {r1, r2}
  PageIds = {x1, x2, x3}
  Projects = {g1, g2}
  MaxStarted = 3
  MaxProjectRequests = 3
  FilePages = {p1}
  Files = {f1}
  PageOf <- OnePage
  MaxTrashRequests = 3
  MaxUploads = 2
  MaxFailures = 1
SYMMETRY Symmetry
INVARIANTS
  TypeOK
  TreeShowsAllButForCrossedMoves
  PlacesDoNotCollide
  FilesFollowTheirPage
CHECK_DEADLOCK FALSE
