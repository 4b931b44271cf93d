SPECIFICATION Spec
CONSTANTS
  Agents = {a1, a2}
  Groups = {g1, g2}
  Attempts = 2
  RPM = 3
  TokenLimit = 4
  Tokens = {1, 3}
  MaxConcurrent = 2
  MaxEpoch = 1
  MaxReceipts = 3
  MaxMoves = 1
  MaxCrashes = 1
SYMMETRY AllAlike
CHECK_DEADLOCK FALSE
INVARIANTS LedgerMatchesReceipts SentWithinQuota
