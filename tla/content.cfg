SPECIFICATION Content
CONSTANTS
  None = None
  Requests = {r1, r2}
  CommentIds = {c1}
  Pages = {p1}
  Users = {u1, u2}
  Bodies = {b1, b2}
  MaxStarted = 3
  MaxTrash = 1
  MaxFailures = 1
  Articles = {1, 2, 3}
  Titles = {title}
  TitleOf <- OneTitle
  Readers = {w1}
  SLUG_ATTEMPTS = 2
  MaxPublishRequests = 3
  Writers = {s1, s2}
  VersionIds = {1, 2, 3}
  ATTEMPTS = 2
  LastHour = 3
  MaxWrites = 2
  MaxErrors = 2
  Times = {2, 3}
  Leads = {2}
  DEFAULT_REMINDER_MINUTES = 2
  DAY = 2
  QuietStart = 1
  QuietEnd = 0
  LastMoment = 2
  MaxEventRequests = 2
  MaxChanges = 1
  MaxEventFailures = 1
SYMMETRY Symmetry
INVARIANTS
  TypeOK
  LastEventTellsRow
  PublishedIsComplete
  WalksShowEachOnce
  TextIsKeptOrPlanned
  PlanFitsEvent
  ToldOnce
CHECK_DEADLOCK FALSE
