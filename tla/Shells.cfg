CONSTANTS
  ThreadNum = 2
  Fds = {4, 5, 7}
  YyIDs = {y1}
  Kinds = {"LOGIN", "OPENURL", "LOGOUT", "OTHER", "BAD"}
  SqlHandles = {TRUE}
  MaxConns = 3
  MaxClients = 1
  MaxCloses = 1
  MaxMsgs = 3
SPECIFICATION Spec
INVARIANTS AnsweredUrlReachesShell LastShellExits
CHECK_DEADLOCK FALSE
