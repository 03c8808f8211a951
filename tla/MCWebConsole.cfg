SPECIFICATION FairSpec
CONSTANTS
  t1 = t1
  t2 = t2
  k1 = k1
  k2 = k2
  m1 = m1
  l1 = l1
  l2 = l2
  None = None
  Lost = Lost
  Refused = Refused
  Tabs <- MCTabs
  Tokens <- MCTokens
  Threshold = 2
  MaxFlight = 2
  Worlds <- MCWorlds
  Paths <- MCPaths
  Names <- MCNames
  Leases <- MCLeases
  Lines <- MCLines
  Pairs <- MCPairs
  MaxCards = 2
  MaxLines = 2
INVARIANTS TypeOK SignedInAs SignOutSticks PolicyKeepsText ShownIsTrue
           EveryLineAnswered
PROPERTIES BootKeepsToken LoadsInTheEnd
