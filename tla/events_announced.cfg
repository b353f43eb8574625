SPECIFICATION FairSpec
CONSTANTS
  i1 = i1  p1 = p1  d1 = d1  e1 = e1
  Ingester <- OneIngester
  Patcher  <- OnePatcher
  Deleter  <- OneDeleter
  Reaper   <- OneReaper
  MaxVersion = 4
  MaxRetries = 2
  MaxFails = 1
  None = None
INVARIANTS TypeOK GoneIsAnnounced EventsOfCommitted RebuildRepairs
PROPERTIES IngestAnnounced
CHECK_DEADLOCK FALSE
