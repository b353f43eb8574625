SPECIFICATION Spec
CONSTANTS
  r1 = r1  w1 = w1  w2 = w2  i1 = i1  d1 = d1
  Reader   <- OneReader
  Patcher  <- TwoPatchers
  Ingester <- OneIngester
  Remover  <- OneRemover
  Key      <- OnlyPlain
  TTL = 2
  RedisFails = TRUE
  MaxVersion = 3
  MaxTime = 4
  None = None
SYMMETRY Symmetric
INVARIANTS TypeOK StaleAtMostTTL FreshAfterInvalidation
