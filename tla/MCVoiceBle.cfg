CONSTANTS
    MaxLinks = 2
    MaxEvents <- MCMaxEvents
    Loads <- MCLoads
SPECIFICATION Spec
INVARIANTS
    CanBeFound
    ReadyTold
    IntervalSettles
PROPERTIES
    GateReturns
    TimeoutHitsItsLink
CHECK_DEADLOCK FALSE
