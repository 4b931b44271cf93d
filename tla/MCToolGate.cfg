SPECIFICATION FairSpec
CONSTANTS
  a1 = a1 c1 = c1 c2 = c2 root = root leaf = leaf
  Agents = {a1}
  Calls = {c1, c2}
  Caller <- OneAgent
  Approved = {c1, c2}
  Groups = {root, leaf}
  Root = root
  Limits = {0, 1}
  MaxChanges = 4
INVARIANTS ToolAccounting ApprovalsAreExact QuietAfterDrain
PROPERTIES AdmittedUnderCurrentAuthority DrainEnds
CHECK_DEADLOCK FALSE
