\* a delete that merges internal nodes drops a subtree
CONSTANTS
    NKeys = 5
    Vals = {v1}
    NoVal = NoVal
    Calls = {"put", "delete"}
    MaxPages = 5
    MaxFaults = 0
    FaultyOps = {}
    GiveUp = 1
    Keys <- MCKeys
    KeyLen <- TallKeyLen
    ValLen <- TallValLen
    Ops <- MCOps
SPECIFICATION Spec
PROPERTIES
    DeleteKeepsOthers
