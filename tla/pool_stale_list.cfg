\* Lists of PAs, NLBs and EIPs that lag, two lanes and two slots per NLB: one group is
\* enough and a second would be one too many.
SPECIFICATION Spec
CONSTANTS
  l1 = l1
  l2 = l2
  Null = Null
  Lanes = {l1, l2}
  SlotsPerNLB = 2
  MinAvailableNLBs = 1
  MaxGroups = 2
  MaxPods = 0
  MaxFaults = 1
  CacheLag = {"pa", "infra"}
  UserEdits = {}
INVARIANTS
  NoOverExpansion
  ApprovedFirst
PROPERTIES
  PAsOutliveCollected
\* A pool that is gone comes to rest.
CHECK_DEADLOCK FALSE
