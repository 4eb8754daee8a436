\* Two clients of both kinds of memory; a client may always ask again, so deadlock is checked.
SPECIFICATION FairSpec
CONSTANTS
    Clients = {1, 2}
    Totals = {4}
    Sizes = {0, 2}
    Step = 2
    Preempted = FALSE
    SrmCounts = {2, 3}
    SrmRequests = {1}
    SrmMax = 3
    MaxPending = 0
INVARIANTS
    SuitesKept
    AnswersKept
    DetectionSound
    SrmSafe
PROPERTIES
    FreedInOrder
    OperationEnds
