SPECIFICATION Spec
CONSTANTS
  h1 = h1  h2 = h2  s1 = s1  s2 = s2  v1 = v1  v2 = v2
  Session <- OneSession
  Host    <- TwoHosts
  Field   <- Columns
  Trigger <- Reported
  Val     <- Values
  Batched = FALSE
  BareCommit = TRUE
  None = None
  Absent = Absent
SYMMETRY Symmetric
INVARIANTS KesselInSync
