\* Late cloud jobs, two faults and a recreated Pod.
SPECIFICATION FairSpec
CONSTANTS
  p1 = p1
  d1 = d1
  Null = Null
  PAs = {p1}
  Pods = {d1}
  NumSG = 1
  MaxIncarnations = 2
  MaxFaults = 2
  CacheLag = {}
  CloudAsync = TRUE
  UserEdits = {"pool"}
INVARIANTS
  GrantedOnly
  BoundIsRegistered
PROPERTIES
  EventuallyReleased
  EventuallyServed
\* With no Pod left to create, everything may come to rest.
CHECK_DEADLOCK FALSE
