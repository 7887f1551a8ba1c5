\* five pages in four hash slots (0 and 4 collide), two frames, no wrap-around of the counter
CONSTANTS
    Capacity = 2
    HashSize = 4
    HashMult = 1
    StampMod = 6
    MaxStamp = 5
    MaxPid = 4
    PageIds = {0, 1, 4}
    Data = {d0, d1}
    InitData = d0
    EvictWriteFails = FALSE
SPECIFICATION Spec
INVARIANTS
    TypeOK
    TableMatchesFrames
    CleanIsSaved
    VictimIsLeastRecent
PROPERTIES
    ImplementsStore
