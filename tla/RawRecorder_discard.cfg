\* Pre-recording with compression that may take until the next frame: a frame in
\* compression when the oldest is discarded.  The bounds end the behaviours.
SPECIFICATION Spec
CONSTANTS
    NSlots = 4
    Gaps = {3}
    Outputs = {TRUE}
    PreRecords = {TRUE}
    RecTriggers = {0}
    PreFrames = 2
    MaxLag = 1
    Failures = {}
    MaxSkip = 0
    MaxFrames = 4
    MaxMeta = 0
    MaxRuns = 1
INVARIANTS
    NoneInProgress
CHECK_DEADLOCK FALSE
