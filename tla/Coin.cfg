CONSTANTS
  Coins = {"etc", "eth", "fcn", "qcn"}
  Ether = {"etc", "eth"}
  Merges <- MCMerges
  MaxCores = 2
  NoCoin = "own"
  MaxPosted = 3
  MaxCalls = 4
SPECIFICATION Spec
CHECK_DEADLOCK FALSE
INVARIANTS CoresAccounted SettledTruth EtherExclusive MinesOnItsPool
