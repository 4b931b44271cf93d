SPECIFICATION Spec
CONSTANTS
  na = na
  nb = nb
  nc = nc
  f1 = f1
  f2 = f2
  f3 = f3
  noLeaf = noLeaf
  NoLeaf = noLeaf
  Nodes = {na, nb}
  Agents = {}
  Leaves = {f1, f2, f3}
  GenesisLeaf <- OneSeed
  Proposals = {0, 8}
  LeaseTtl = 2
  ChallengeTtl = 4
  PrepareTtl = 3
  Overlap = 2
  MaxReceipts = 7
  MaxTerm = 1
  Kinds = {"challenge", "register", "rollout", "state"}
  LeavesIssuedOnce = FALSE
INVARIANTS NeverHalts
CHECK_DEADLOCK FALSE
