\* Two frame sizes; slots can always be set up again, so deadlock is checked.
SPECIFICATION Spec
CONSTANTS
    ShootChunks <- Shoot
    SrmChunks <- Srm
    FrameSizes = {3, 4}
    FullSize = 3
    MaxSlots = 7
    GroupSize = 8
    Gap = 1
INVARIANTS
    Disjoint
    TableSound
    GroupsSound
PROPERTIES
    UsedStays
