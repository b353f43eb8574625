SPECIFICATION Spec
CONSTANTS
  h1 = h1  h2 = h2
  Host   <- TwoHosts
  Config <- HalfSeconds
  Second = 2
  MaxTime = 8
SYMMETRY Symmetric
INVARIANTS TypeOK NotifiedOnce
