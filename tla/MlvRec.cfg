\* Two cards, every failure, a module that refuses frames, sound or none.
\* The bounds end the behaviours, and a recorder nobody starts stays idle.
SPECIFICATION FairSpec
CONSTANTS
    NWriters = 2
    Groups <- TwoSingles
    FastGroups = 1
    FillMethod = 4
    MaxBlock <- BlockOf1
    Shrinking = FALSE
    ChunkSize = 4
    Ahead = 8
    NJobs = 8
    AllowSkip = FALSE
    Failures = {"buffers", "open", "create", "card", "settings"}
    ModuleSkips = TRUE
    MaxFrames = 5
    MaxMeta = 3
    SoundSlots = 2
    MaxTimeouts = 0
    MaxRuns = 1
INVARIANTS
    FramesKept
    FilesKept
    WritersApart
    HeadersCount
PROPERTIES
    StopEnds
CHECK_DEADLOCK FALSE
