SPECIFICATION JobSpec
CONSTANTS
  c1 = c1  c2 = c2  h1 = h1  h2 = h2  h3 = h3
  p1 = p1  p2 = p2  m1 = m1  m2 = m2  i1 = i1
  Consumer <- TwoConsumers
  Host     <- ThreeHosts
  Vals     <- TwoProviders
  IdFacts  <- ByPriority
  Reports  <- FewReports
  BatchMax = 2
  MaxWrites = 3
  ChunkSize = 2  JobFrom = 2
  None = None
SYMMETRY Symmetric
INVARIANTS JobTypeOK ProviderUnique DuplicatesGone
PROPERTIES ProviderImmutable StrongestFit
CHECK_DEADLOCK FALSE
