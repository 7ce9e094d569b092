\* One lane, groups of one slot, and Pods for one slot.  The cached pool lags; users
\* disable the network and delete PAs; one fault (or one deleted PA).
SPECIFICATION FairSpec
CONSTANTS
  l1 = l1
  Null = Null
  Lanes = {l1}
  SlotsPerNLB = 1
  MinAvailableNLBs = 1
  MaxGroups = 3
  MaxPods = 1
  MaxFaults = 1
  CacheLag = {"pool"}
  UserEdits = {"disable", "deletePA"}
INVARIANTS
  TypeOK
  NoOverExpansion
  PoolGoneLast
PROPERTIES
  SlotsKeepPromise
  ServesOrLeaves
\* A pool that is gone comes to rest.
CHECK_DEADLOCK FALSE
