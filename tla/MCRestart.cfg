\* restarts between the calls, and a delete that fails, on a tree that soon has three levels
CONSTANTS
    NKeys = 4
    Vals = {v1}
    NoVal = NoVal
    Calls = {"put", "delete"}
    MaxPages = 6
    MaxFaults = 1
    FaultyOps = {"delete"}
    GiveUp = 1
    KillInCall = FALSE
    Keys <- MCKeys
    KeyLen <- SlimKeyLen
    ValLen <- SlimValLen
    Ops <- MCOps
SPECIFICATION RestartFairSpec
CHECK_DEADLOCK FALSE
INVARIANTS
    TypeOK
    AllSlotsSorted
    UniformDepth
    NodeIsChildOfParent
PROPERTIES
    FailedDeleteIsolated
    EveryCallReturns
    ReopenKeepsMap
