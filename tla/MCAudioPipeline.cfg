\* Two recordings of up to two frames and a queue of two entries: a sentinel
\* behind a frame fills the queue, so the overflow path, the retry limit, a
\* restart during a drain and a chime that waits through a session all happen.
CONSTANTS
    QueueDepth = 2
    MaxRetries = 2
    MaxSessions = 2
    MaxFrames = 2
SPECIFICATION FairSpec
INVARIANTS TypeOK GateExclusive ResourcesHeld OneSessionInFlight NoEndAfterCancel
PROPERTIES FramesInOrder SessionEnds
