SPECIFICATION Meetings
CONSTANTS
  Sockets = {s1, s2}
  Pages = {p, q}
  Users = {"u"}
  UserOf <- OneUser
  MaxQueue = 2
  MaxChanges = 1
  Page = p
  Bystander = s2
INVARIANTS
  TypeOK
  RefsCountSessions
  PresenceMatchesSessions
  NothingOutlivesSession
PROPERTY
  DeadSocketIsForgotten
\* The system stops when every socket is dead.
CHECK_DEADLOCK FALSE
