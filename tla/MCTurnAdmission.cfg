SPECIFICATION FairSpec
CONSTANTS
  Agents = {1, 2}
  MaxConcurrent = 1
  MaxWaiters = 2
  Threshold = 1
  Nices <- TwoNices
  Tokens = {1}
  MaxVruntime = 4
  Resumers = {2}
INVARIANTS SlotAccounting NoGhostWaiters
PROPERTIES DebtIsKept LowestFirst EventuallyAdmitted
CHECK_DEADLOCK FALSE
