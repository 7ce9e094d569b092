\* A rolling update: two managers whose reads are current when a reconcile starts.
SPECIFICATION FairSpec
CONSTANTS
  p1 = p1
  d1 = d1
  Null = Null
  PAs = {p1}
  Pods = {d1}
  NumSG = 1
  MaxIncarnations = 1
  MaxFaults = 0
  CacheLag = {}
  CloudAsync = FALSE
  UserEdits = {}
PROPERTIES
  EventuallyServed
CHECK_DEADLOCK FALSE
