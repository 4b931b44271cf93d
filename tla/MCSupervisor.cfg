SPECIFICATION FairSpec
CONSTANTS
  Order <- BaseThenApp
  Requires <- AppOnBase
  Policy <- Policies
  MaxRestarts = 1
  Ids = {1, 2, 3, 4, 5, 6}
  MaxEvents = 3
INVARIANTS OwnersTracked AttemptsBounded
PROPERTIES  FailedIsRetried
