CONSTANTS
  ThreadNum = 1
  Fds = {4}
  YyIDs = {y1}
  Kinds = {"LOGIN"}
  SqlHandles = {TRUE}
  MaxConns = 2
  MaxClients = 2
  MaxCloses = 2
  MaxMsgs = 3
SPECIFICATION Spec
INVARIANT LoginAnsweredFirst
CHECK_DEADLOCK FALSE
