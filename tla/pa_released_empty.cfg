\* Cloud calls that take effect at once, every cache lags, a Pod name is used twice,
\* users disable the network and edit the pool, one fault: what a release leaves.
SPECIFICATION Spec
CONSTANTS
  p1 = p1
  d1 = d1
  Null = Null
  PAs = {p1}
  Pods = {d1}
  NumSG = 2
  MaxIncarnations = 2
  MaxFaults = 1
  CacheLag = {"ownPA", "otherPA", "pod"}
  CloudAsync = FALSE
  UserEdits = {"disabled", "pool"}
INVARIANTS
  AvailableIsEmpty
  ReservationComplete
\* With no Pod left to create, everything may come to rest.
CHECK_DEADLOCK FALSE
