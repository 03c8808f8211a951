SPECIFICATION Spec
CONSTANTS
  w1 = w1
  w2 = w2
  g1 = g1
  g2 = g2
  None = None
  Workers <- MCWorkers
  May <- MCMay
  Loops <- MCLoops
  InitParams <- MCParams
  Seals <- Shamir
  MaxFaults = 0
INVARIANTS Audited
