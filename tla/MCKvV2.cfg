SPECIFICATION Spec
CONSTANTS
  w1 = w1
  w2 = w2
  w3 = w3
  None = None
  Workers <- MCWorkers
  May <- MCMay
  Lists <- MCLists
  Tunings <- MCTunings
  MaxWrites = 3
  FreeWrites = 2
  CasValues <- MCCas
  MountCap = 2
  MountCAS = FALSE
  MaxStuck = 1
  Crews <- MCCrews
INVARIANTS TypeOK WindowHolds AckedReadable NothingLeftBehind 
