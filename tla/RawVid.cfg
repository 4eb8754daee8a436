\* Two recordings, of a worker that keeps up with the camera and of one that may be late.
\* The bounds end the behaviours, and a recorder nobody starts stays idle.
SPECIFICATION FairSpec
CONSTANTS
    QLen = 3
    BufFrames = 1
    MaxTries = 1
    Paces = {TRUE, FALSE}
    Failures = {"capture", "crop", "name", "file"}
    MaxStops = 1
    MaxFrames = 4
    MaxSessions = 2
CHECK_DEADLOCK FALSE
INVARIANTS
    EventPool
    CopySafe
    SavedInOrder
    LvPaired
PROPERTIES
    StopEnds
