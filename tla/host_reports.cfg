SPECIFICATION UpdateSpec
CONSTANTS
  puptoo = puptoo  rhsm = rhsm  yupana = yupana  satellite = satellite
  f1 = f1  f2 = f2  m1 = m1  n1 = n1  n2 = n2  a = a  b = b
  Reporter <- Reporters
  Rhsm     <- RhsmOnes
  Priority <- PriorityOne
  Older    <- OldOf
  API = API
  Name <- Names
  Fqdn <- Fqdns
  Id = Id
  Namespace <- Namespaces
  Tag     <- Tags
  Reports <- SomeReports
  Stale = 1
  MaxTime = 2
  Unset = Unset
INVARIANTS UpdateTypeOK NameFollows TagsFound
PROPERTIES DeferredKept
