\* Two recordings over several chunks, with a card that fills up and files that cannot be created.
SPECIFICATION Spec
CONSTANTS
    Limit = 9
    HeaderSize = 2
    MaxGroup = 3
    Failures = {"cardfull", "create", "headers"}
    MaxFrames = 8
    MaxRuns = 2
INVARIANTS
    ChunksInSequence
    ClipInOrder
    HeadersCount
    BlocksWhole
CHECK_DEADLOCK FALSE
