\* Lossless recording with sound, without pre-recording; two recordings.
SPECIFICATION Spec
CONSTANTS
    NSlots = 3
    Gaps = {3}
    Outputs = {TRUE}
    PreRecords = {FALSE}
    RecTriggers = {0}
    PreFrames = 1
    MaxLag = 1
    Failures = {"cardfull", "settings"}
    MaxSkip = 0
    MaxFrames = 4
    MaxMeta = 1
    MaxRuns = 2
INVARIANTS
    TypeOK
    QueuedOnce
    QueueHoldsFrames
    NoSlotLost
    CompressTargetValid
    SavedWhole
PROPERTIES
    ImplementsPipeline
CHECK_DEADLOCK FALSE
