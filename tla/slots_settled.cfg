\* Ports and NLBs of the slots; the range of ports moves while the pool is at rest.
CONSTANTS
    Null = Null
    NumPorts = 2
    Specs <- MoveRange
    PortBound = 8
    MaxSlots = 4
    MaxEdits = 1
    Settled = TRUE
SPECIFICATION Spec
INVARIANTS TypeOK OwnListener EndpointsServed
CHECK_DEADLOCK FALSE
