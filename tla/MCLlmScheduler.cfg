SPECIFICATION FairSpec
CONSTANTS
  r1 = r1
  r2 = r2
  r3 = r3
  Requests = {r1, r2, r3}
  Nice <- MCNice
  Cores = 2
  MaxWaiters = 2
  MinNice = 0
  MaxAge = 2
INVARIANTS CoreAccounting RegisteredOnce
PROPERTIES NoOvertaking EventuallyAdmitted
CHECK_DEADLOCK TRUE
