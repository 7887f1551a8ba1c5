\* puts in every order on a tree that grows to three levels; one callback or malloc fails
CONSTANTS
    NKeys = 7
    Vals = {v1}
    NoVal = NoVal
    Calls = {"put"}
    MaxPages = 20
    MaxFaults = 1
    FaultyOps = {"put"}
    GiveUp = 2
    Keys <- MCKeys
    KeyLen <- TallKeyLen
    ValLen <- TallValLen
    Ops <- MCOps
SPECIFICATION PutsSpec
CHECK_DEADLOCK FALSE
INVARIANTS
    StillSearchable
    UniformDepth
    ScanIsTheMap
    PrevMirrorsNext
    ParentLinks
PROPERTIES
    SplitKeepsRecords
