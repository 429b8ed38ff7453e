CONSTANTS
  ThreadNum = 1
  Fds = {4}
  YyIDs = {y1}
  Kinds = {"LOGIN", "LOGIN1", "LOGOUT", "OTHER", "BAD"}
  SqlHandles = {TRUE, FALSE}
  MaxConns = 2
  MaxClients = 2
  MaxCloses = 2
  MaxMsgs = 3
SPECIFICATION FairSpec
INVARIANTS TypeOK NoInheritedSession
PROPERTY ClosedSessionEnds
CHECK_DEADLOCK FALSE
