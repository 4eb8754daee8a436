\* Every mode of the recorder and every failure, in one recording without
\* modules (with a borrowed slot both fail in pre-recording: see README.md).
SPECIFICATION Spec
CONSTANTS
    NSlots = 3
    Gaps = {}
    Outputs = {TRUE, FALSE}
    PreRecords = {TRUE, FALSE}
    RecTriggers = {0, 1, 2, 3}
    PreFrames = 2
    MaxLag = 1
    Failures = {"prepare", "cardfull", "nochunk", "lv", "settings"}
    MaxSkip = 0
    MaxFrames = 4
    MaxMeta = 0
    MaxRuns = 1
INVARIANTS
    SlotsKept
CHECK_DEADLOCK FALSE
