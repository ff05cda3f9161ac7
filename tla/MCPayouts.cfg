SPECIFICATION Spec
CONSTANTS
  Confirmers = {c1, c2}
  Requests = {r1, r2}
  TokenKindKnown = TRUE
  Cooldown = 1
  Amounts = {1, 2}
  HighValue = 2
  TxHashes = {h1}
  ListLimit = 3
  Balances = {0, 2}
  MaxPayouts <- FourOrOne
  MaxTime = 1
  None = none
SYMMETRY HandlerSymmetry
CHECK_DEADLOCK FALSE
INVARIANTS
  OverdraftBounded
  CoolingOff
  OneWalletPerConfirmer
