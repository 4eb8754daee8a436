\* One card with sound: the recording that is stopped.
\* The bounds end the behaviours, and a recorder nobody starts stays idle.
SPECIFICATION SoundFairSpec
CONSTANTS
    NWriters = 1
    Groups <- TwoGroups
    FastGroups = 1
    FillMethod = 4
    MaxBlock <- BlockOf1
    Shrinking = FALSE
    ChunkSize = 4
    Ahead = 8
    NJobs = 8
    AllowSkip = FALSE
    Failures = {}
    ModuleSkips = FALSE
    MaxFrames = 1
    MaxMeta = 3
    SoundSlots = 2
    MaxTimeouts = 0
    MaxRuns = 1
PROPERTIES
    StoppingSent
CHECK_DEADLOCK FALSE
