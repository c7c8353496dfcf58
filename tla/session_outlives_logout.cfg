SPECIFICATION Accounts
CONSTANTS
  None = None
  Requests = {r1, r2}
  Users = {u1, u2, u3}
  Workspaces = {w1, w2}
  MaxWorkspaces = 1
  MaxStarted = 0
  SessionUsers = {s1}
  LastSecond = 1
  MaxSessionRequests = 4
  MaxEverywhere = 2
  MaxSessionFailures = 0
  InviteUsers = {v1, v2}
  Tokens = {t1}
  Links = {l1}
  MaxLinks = 1
  MaxInviteRequests = 0
  MaxInviteFailures = 1
  Chats = {c1, c2}
  Codes = {k1, k2}
  MaxTelegramRequests = 0
  MaxTelegramFailures = 1
  Authors = {a1, a2}
  Replies <- SomeReplies
  MaxGenerations = 3
  FoundPages = {f2, f3}
  FoundProjects = {h1, h2}
  TitleMatches = {f2, f3}
  TextMatches = {f3}
  Moments = {4, 5, 6}
  Bounds = {4, 5}
  DAY = 2
  LIMIT = 2
  PATH_MAX_DEPTH = 1
  MaxChanges = 0
SYMMETRY Symmetry
INVARIANT EverywhereEndsAll
CHECK_DEADLOCK FALSE
