SPECIFICATION Spec
CONSTANTS
  r1 = r1
  r2 = r2
  bg = bg
  None = None
  Plain = Plain
  Tokens = {t1, t2}
  Workers = {r1}
  May <- SerialMay
  Params <- SerialParams
  WrapTTL = 1
  Incs = {2}
  MaxNow = 2
  MaxServed = 3
  MaxLost = 1
INVARIANTS
  RecordsAgree
  UnwrapOnce
PROPERTY
  ImplementsTokenLife
