SPECIFICATION Spec
CONSTANTS
  na = na
  nb = nb
  nc = nc
  f1 = f1
  f2 = f2
  f3 = f3
  noLeaf = noLeaf
  NoLeaf = noLeaf
  Nodes = {na, nb}
  Agents = {x}
  Leaves = {f1, f2, f3}
  GenesisLeaf <- TwoSeeds
  Proposals = {0, 5}
  LeaseTtl = 2
  ChallengeTtl = 3
  PrepareTtl = 3
  Overlap = 2
  MaxReceipts = 6
  MaxTerm = 2
  Kinds = {"challenge", "register", "rollout", "state", "claim", "renew", "release", "barrier"}
  LeavesIssuedOnce = TRUE
INVARIANTS NeverHalts OneClaimPerToken NoLiveLeaseOutsideMembership 
PROPERTIES ImplementsLease 
CHECK_DEADLOCK FALSE
