CONSTANTS
  ThreadNum = 2
  Fds = {4, 5}
  YyIDs = {y1}
  Kinds = {"LOGIN", "LOGIN1", "LOGOUT"}
  SqlHandles = {TRUE}
  MaxConns = 2
  MaxClients = 2
  MaxCloses = 2
  MaxMsgs = 3
SPECIFICATION Spec
INVARIANTS AnswersInOrder StateRegistered
CHECK_DEADLOCK FALSE
