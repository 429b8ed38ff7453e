CONSTANTS
  Radix = 4
  BlockSize = 5
  Sends <- MCSends
  Escs = {3}
  Chunk = 7
  MaxCmds = 3
  MaxJobs = 2
  MaxCuts = 1
SPECIFICATION WireSpec
INVARIANTS WireTypeOK BuffersFit CommandsInOrder  OverlongNeverRuns Base64Fits
PROPERTY CommandsExecuted
CHECK_DEADLOCK FALSE
