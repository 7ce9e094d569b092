\* Two PAs race for a Pod; what a worker reads of the other PA and of the Pod lags; one
\* fault.
SPECIFICATION FairSpec
CONSTANTS
  p1 = p1
  p2 = p2
  d1 = d1
  Null = Null
  PAs = {p1, p2}
  Pods = {d1}
  NumSG = 1
  MaxIncarnations = 1
  MaxFaults = 1
  CacheLag = {"otherPA", "pod"}
  CloudAsync = FALSE
  UserEdits = {}
INVARIANTS
  TypeOK
PROPERTIES
  DoubleBoundResolved
\* With no Pod left to create, everything may come to rest.
CHECK_DEADLOCK FALSE
