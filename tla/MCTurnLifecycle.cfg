SPECIFICATION FairSpec
CONSTANTS
  Agents = {a}
  Requests = {1, 2, 3}
  MaxSteps = 1
  Cap = 1
  MaxCrashes = 1
  None = None
  Past = Past
 
PROPERTIES   EveryRequestAnswered
CHECK_DEADLOCK FALSE
