\* Two PAs compete for a Pod, phase labels may be wrong, users disable, one fault.
SPECIFICATION RoutingFairSpec
CONSTANTS
  p1 = p1
  p2 = p2
  d1 = d1
  Null = Null
  PAs = {p1, p2}
  Pods = {d1}
  NumSG = 1
  MaxIncarnations = 1
  MaxFaults = 1
  CacheLag = {}
  CloudAsync = TRUE
  UserEdits = {"disabled"}
INVARIANTS
  NoLostWakeup
PROPERTIES
  EventuallyBound
CHECK_DEADLOCK FALSE
