SPECIFICATION Spec
CONSTANTS
  w1 = w1
  w2 = w2
  w3 = w3
  None = None
  Workers <- MCWorkers
  May <- CasMay
  Lists <- MCLists
  Tunings <- MCTunings
  MaxWrites = 2
  FreeWrites = 2
  CasValues <- CasCas
  MountCap = 2
  MountCAS = FALSE
  MaxStuck = 0
  Crews <- CasCrews
INVARIANT CasExclusive
