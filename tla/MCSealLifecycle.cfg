SPECIFICATION FairSpec
CONSTANTS
  w1 = w1
  w2 = w2
  g1 = g1
  g2 = g2
  None = None
  Workers <- MCWorkers
  May <- MCMay
  Loops <- MCLoops
  InitParams <- MCParams
  Seals <- BothSeals
  MaxFaults = 1
INVARIANTS TypeOK UnsealedServes QuorumOpens SharesForgotten OneRevoker
PROPERTIES RoutedWhenBuilt CallsReturn
