CONSTANTS
    Chunks = 2
    Transfers <- MCTransfers
    ProgressEvery = 1
    MaxInFlight = 0
    MaxSessions = 1
SPECIFICATION Spec
INVARIANTS
    SuccessBoots
PROPERTIES
    BootsWholeImage
    UpdateEnds
CHECK_DEADLOCK FALSE
