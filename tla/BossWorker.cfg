CONSTANTS
  ThreadNum = 2
  Fds = {5, 6, 7}
  MaxJobs = 4
SPECIFICATION FairSpec
INVARIANTS TypeOK WakeupsMatchJobs PopFindsJob OneThreadPerSocket
PROPERTIES PerSocketOrder JobsAreProcessed ShutdownCompletes
