SPECIFICATION FairSpec
CONSTANTS
  w1 = w1  w2 = w2  own = own  ungrouped = ungrouped
  Change = Change
  Waiter    <- TwoWaiters
  Workspace <- TwoWorkspaces
  Wants     <- OneEach
  BatchMax = 2
  MaxRetries = 2
  MaxChanges = 1
INVARIANTS WaitTypeOK WakeupPending AnsweredIsThere
PROPERTIES EveryWaiterServed
CHECK_DEADLOCK FALSE
