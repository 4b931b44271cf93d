SPECIFICATION FairRecoverySpec
CONSTANTS
  MaxFaults = 2
  MaxCrashes = 4
INVARIANTS OriginalsKept OwnSidecars
PROPERTIES RerunsRecover
CHECK_DEADLOCK FALSE
