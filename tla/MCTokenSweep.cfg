SPECIFICATION FairSpec
CONSTANTS
  r1 = r1
  r2 = r2
  bg = bg
  None = None
  Plain = Plain
  Tokens = {t1, t2}
  Workers = {r1, bg}
  May <- SweepMay
  Params <- SweepParams
  WrapTTL = 1
  Incs = {}
  MaxNow = 2
  MaxServed = 0
  MaxLost = 1
PROPERTIES
  ExpiredIsSwept
  RequestsEnd
