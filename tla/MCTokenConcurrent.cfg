SPECIFICATION CrashSpec
CONSTANTS
  r1 = r1
  r2 = r2
  bg = bg
  None = None
  Plain = Plain
  Tokens = {t1}
  Workers = {r1, r2, bg}
  May <- ConcurrentMay
  Params <- ConcurrentParams
  WrapTTL = 1
  Incs = {2}
  MaxNow = 2
  MaxServed = 0
  MaxLost = 1
INVARIANTS
  TypeOK
  AccessorHasToken
  ExplicitMaxHolds
  LiveTokenKept
PROPERTIES
  LeaseGoesLast
  RevokedStaysGone
