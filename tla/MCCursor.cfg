\* a cursor on a tree of one or two levels that is changed under it
CONSTANTS
    NKeys = 4
    Vals = {v1}
    NoVal = NoVal
    Calls = {"put", "get", "delete"}
    MaxPages = 4
    MaxFaults = 0
    FaultyOps = {}
    GiveUp = 1
    Keys <- MCKeys
    KeyLen <- WideKeyLen
    ValLen <- WideValLen
    Ops <- MCOps
SPECIFICATION CursorSpec
INVARIANTS
    CursorTypeOK
    ScanIsTheMap
    PrevMirrorsNext
    ParentLinks
    ScanMissesNothing
PROPERTIES
    ImplementsMap
    PositionsRight
    NextIsSuccessor
    ScanAscends
