CONSTANTS
  Senders = {s1, s2}
  MaxSends = 3
  Capacity = 8
  CanFail = TRUE
  Fds = {4}
  Sizes = {0, 2}
  SndBuf = 3
  MaxIn = 2
  MaxConns = 2
SPECIFICATION LoopSpec
INVARIANTS LoopTypeOK TypeOK FlagsMatchBuffers FlagFindsBuffer
PROPERTIES Delivered SendersResume AnswersBeforeClose WritesDrain InputTaken QueueServed
CHECK_DEADLOCK FALSE
