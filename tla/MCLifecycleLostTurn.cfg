SPECIFICATION Spec
CONSTANTS
  Agents = {a}
  Requests = {1, 2, 3}
  MaxSteps = 1
  Cap = 2
  MaxCrashes = 0
  None = None
  Past = Past
PROPERTIES PausedTurnsAreCaptured
CHECK_DEADLOCK FALSE
