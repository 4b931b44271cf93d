SPECIFICATION FairBudgetSpec
CONSTANTS
  Agents = {a1, a2}
  GlobalCeilings = {0, 3}
  TenantCeilings = {0, 3}
  AgentCeilings = {0}
  Charges = {2}
  MaxRounds = 2
  MaxTurns = 3
  MaxRestarts = 1
CHECK_DEADLOCK FALSE
INVARIANTS OneResponseOverCeiling 
PROPERTY CallsAreDecided
