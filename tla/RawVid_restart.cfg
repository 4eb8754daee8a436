\* A second recording.
SPECIFICATION FairSpec
CONSTANTS
    QLen = 3
    BufFrames = 2
    MaxTries = 1
    Paces = {TRUE, FALSE}
    Failures = {"capture", "crop", "name", "file"}
    MaxStops = 2
    MaxFrames = 3
    MaxSessions = 2
CHECK_DEADLOCK FALSE
PROPERTIES
    ReenabledOnStart
