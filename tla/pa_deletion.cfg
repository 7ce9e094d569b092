\* Two PAs race for a Pod that users disable and enable; one of them may be deleted
\* at any moment, and one fault happens.  Caches are current.
SPECIFICATION DeletionFairSpec
CONSTANTS
  p1 = p1
  p2 = p2
  d1 = d1
  Null = Null
  PAs = {p1, p2}
  Pods = {d1}
  NumSG = 1
  MaxIncarnations = 1
  MaxFaults = 1
  CacheLag = {}
  CloudAsync = FALSE
  UserEdits = {"disabled"}
  Deletable = {p1}
INVARIANTS
  LetGoIsEmpty
  NoDoubleBound
PROPERTIES
  OwnClaimCleared
  LiveClaimKept
  EventuallyRebound
\* With no Pod left to create, everything may come to rest.
CHECK_DEADLOCK FALSE
