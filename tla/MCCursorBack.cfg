\* a cursor that moves backwards
CONSTANTS
    NKeys = 3
    Vals = {v1}
    NoVal = NoVal
    Calls = {"put", "delete"}
    MaxPages = 3
    MaxFaults = 0
    FaultyOps = {}
    GiveUp = 1
    Keys <- MCKeys
    KeyLen <- WideKeyLen
    ValLen <- WideValLen
    Ops <- MCOps
SPECIFICATION CursorSpec
PROPERTIES
    PrevIsPredecessor
