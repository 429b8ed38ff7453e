CONSTANTS
  ThreadNum = 1
  Fds = {4}
  YyIDs = {y1, y2}
  Kinds = {"LOGIN"}
  SqlHandles = {TRUE}
  MaxConns = 1
  MaxClients = 1
  MaxCloses = 0
  MaxMsgs = 3
SPECIFICATION Spec
INVARIANT UserMapByYyID
CHECK_DEADLOCK FALSE
