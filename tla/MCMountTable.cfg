SPECIFICATION Spec
CONSTANTS
  w1 = w1
  w2 = w2
  m1 = m1
  m2 = m2
  cubbyhole = cubbyhole
  None = None
  Workers = {w1, w2}
  Ids = {m1, m2}
  Cubbyhole = cubbyhole
  Names <- MCNames
  CubPath <- MCCub
  TokenPath <- MCToken
  Where <- MCWhere
  Asked <- MCAsked
  MaxWrites = 2
  MaxErrors = 1
SYMMETRY Symmetry
INVARIANTS TypeOK TableRouted RestartKeepsMounts OwnDataOnly
