CONSTANTS
    d1 = d1
    d2 = d2
    Devices = {d1, d2}
    None = None
    MaxSessions = 2
    MaxPosted = 2
    Modes = {"hold", "click"}
    Transforms = {TRUE, FALSE}
SYMMETRY Alike
SPECIFICATION Spec
INVARIANTS
    DeviceShows
    RecordingsHeld
