SPECIFICATION FairSpec
CONSTANTS
  Nodes = {na, nb}
  Tasks = {1, 2, 3}
  Ttls = {1}
  Horizon = 1
  MaxClock = 1
  MaxGen = 2
  MaxTerm = 1
  Synchronized = TRUE
  Graceful = TRUE
  StreamsEnd = TRUE
INVARIANTS OperationsOwnTheFence
PROPERTIES  AdmittedUnderCurrentToken EveryRequestAnswered
CHECK_DEADLOCK FALSE
