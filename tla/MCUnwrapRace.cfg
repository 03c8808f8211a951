SPECIFICATION Spec
CONSTANTS
  r1 = r1
  r2 = r2
  bg = bg
  None = None
  Plain = Plain
  Tokens = {t1}
  Workers = {r1, r2}
  May <- UnwrapMay
  Params <- LeakParams
  WrapTTL = 1
  Incs = {}
  MaxNow = 2
  MaxServed = 0
  MaxLost = 0
INVARIANT
  UnwrapOnce
