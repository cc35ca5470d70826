CONSTANTS
  c1 = c1
  c2 = c2
  c3 = c3
  c4 = c4
  None = None
  CoinIds = {c1, c2, c3, c4}
  CoinAmount <- MCAmount
  CoinHeight <- MCConfirmed
  Timelock = 2
  InitHeight = 3
  MaxHeight = 6
SPECIFICATION Spec
INVARIANTS
  TypeOK
PROPERTY
  CoinListRefined
