SPECIFICATION Spec
CONSTANTS
  c1 = c1  j1 = j1  w1 = w1  w2 = w2  h1 = h1
  Consumer <- OneConsumer
  Job      <- OneJob
  Writer   <- TwoWriters
  Host     <- OneHost
  Default  <- Defaults
  Bodies   <- SomeBodies
  Tolerance = 1
  TTL = 1
  MaxTime = 3
  MaxWrites = 2
  None = None
SYMMETRY Symmetric
INVARIANTS TypeOK ConfigOrdered
PROPERTIES GivenUpInForce
