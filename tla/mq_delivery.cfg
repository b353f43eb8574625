SPECIFICATION FairSpec
CONSTANTS
  k1 = k1  k2 = k2
  N = 3
  Subject    <- TwoSubjects
  Logs       <- AllLogs
  BatchMax   = 2
  MaxRetries = 2
INVARIANTS TypeOK AcceptedIsDurable AnnouncedBeforeOffset CreatedOnce
PROPERTIES EveryMessageDecided DeliverySpec
CHECK_DEADLOCK FALSE
