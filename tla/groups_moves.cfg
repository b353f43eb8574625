SPECIFICATION Spec
CONSTANTS
  q1 = q1  q2 = q2  h1 = h1  h2 = h2
  ga = ga  gb = gb  gu = gu
  Proc  <- TwoProcs
  Host  <- TwoHosts
  Group <- TwoGroups
  Ungrouped = gu
  Kinds <- AllKinds
  Overlapping <- Emptying
  MaxRequests = 4
  None = None
  Absent = Absent
SYMMETRY Symmetric
INVARIANTS TypeOK InSync
PROPERTIES DeletedGroupUngroups
CHECK_DEADLOCK FALSE
