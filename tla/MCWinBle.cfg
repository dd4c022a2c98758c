CONSTANTS
    d1 = d1
    Devices = {d1}
    MaxAttempts = 2
    Tries = 2
    MaxUpdates = 1
SPECIFICATION Spec
INVARIANTS
    ConnectionsTracked
PROPERTIES
    DeadSessionRemoved
    AttemptEnds
CHECK_DEADLOCK FALSE
