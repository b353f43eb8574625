SPECIFICATION Spec
CONSTANTS
  h1 = h1  h2 = h2  s1 = s1  s2 = s2  v1 = v1  v2 = v2
  Session <- TwoSessions
  Host    <- OneHost
  Field   <- Columns
  Trigger <- Reported
  Val     <- Values
  Batched = FALSE
  BareCommit = FALSE
  None = None
  Absent = Absent
INVARIANTS TypeOK PresenceInSync OpsOfOwnWrites
PROPERTIES ChangeReported InSyncWhenIsolated
