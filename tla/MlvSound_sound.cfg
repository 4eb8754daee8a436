\* Sound along with a recording: slots may run out, and a recording may end before its first frame.
SPECIFICATION Spec
CONSTANTS
    NSlots = 4
    Blocks = 3
    MaxBacklog = 1
    Troubles = {"starved", "early"}
    MaxFrames = 7
    MaxRuns = 2
INVARIANTS
    AudioInOrder
    AudioKept
    SlotsKept
PROPERTIES
    StopsInTime
CHECK_DEADLOCK FALSE
