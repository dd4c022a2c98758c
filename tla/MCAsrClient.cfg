CONSTANTS
    Chunks = 3
    MaxIds = 4
SPECIFICATION Spec
INVARIANTS
    OutcomeOnce
    AudioInOrder
PROPERTIES
    SessionAnswered
CHECK_DEADLOCK FALSE
