\* Pre-recording until REC is pressed, or half-shutter saves the frames; compression
\* keeps up with LiveView, whatever the output; the tasks are scheduled fairly.
\* The bounds end the behaviours, and a recorder nobody starts stays idle.
SPECIFICATION FairSpec
CONSTANTS
    NSlots = 4
    Gaps = {3}
    Outputs = {TRUE, FALSE}
    PreRecords = {TRUE}
    RecTriggers = {0, 3}
    PreFrames = 2
    MaxLag = 0
    Failures = {"prepare", "cardfull", "settings"}
    MaxSkip = 1
    MaxFrames = 4
    MaxMeta = 0
    MaxRuns = 2
INVARIANTS
    SavedInOrder
PROPERTIES
    StopEnds
    QueuedIsSaved
CHECK_DEADLOCK FALSE
