\* records of different lengths: a split half that does not fit
CONSTANTS
    NKeys = 3
    Vals = {1, 2487}
    NoVal = NoVal
    Calls = {"put"}
    MaxPages = 3
    MaxFaults = 0
    FaultyOps = {}
    GiveUp = 1
    Keys <- MCKeys
    KeyLen <- MixedKeyLen
    ValLen <- MixedValLen
    Ops <- MCOps
SPECIFICATION Spec
CHECK_DEADLOCK FALSE
PROPERTIES
    SplitKeepsRecords
