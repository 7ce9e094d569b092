\* One SG and one listener; the PA is created twice and one fault happens, which may
\* be an SG that disappears.
SPECIFICATION FairSpec
CONSTANTS
  Null = Null
  NumPorts = 1
  NumLanes = 1
  MaxPAs = 2
  MaxFaults = 1
  SGsVanish = TRUE
INVARIANTS
  TypeOK
  PromotedIsServed
  RecordedSGDeleted
  ListenerHasOwner
PROPERTIES
  EventuallyAvailable
  EventuallyGone
  SlotPromise
\* With no PA left to create, everything may come to rest.
CHECK_DEADLOCK FALSE
