\* The network is enabled again before it was fully disabled.
SPECIFICATION FairSpec
CONSTANTS
  p1 = p1
  d1 = d1
  Null = Null
  PAs = {p1}
  Pods = {d1}
  NumSG = 1
  MaxIncarnations = 1
  MaxFaults = 0
  CacheLag = {}
  CloudAsync = TRUE
  UserEdits = {"disabled"}
PROPERTIES
  EventuallyServed
\* With no Pod left to create, everything may come to rest.
CHECK_DEADLOCK FALSE
