SPECIFICATION FairSpec
CONSTANTS
  k1 = k1  k2 = k2
  N = 3
  Subject    <- TwoSubjects
  Logs       <- HostLogs
  BatchMax   = 2
  MaxRetries = 2
INVARIANTS GivenUpRedelivered
CHECK_DEADLOCK FALSE
