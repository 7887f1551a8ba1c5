\* the process is killed in the middle of a call
CONSTANTS
    NKeys = 3
    Vals = {v1}
    NoVal = NoVal
    Calls = {"put", "delete"}
    MaxPages = 3
    MaxFaults = 0
    FaultyOps = {}
    GiveUp = 1
    KillInCall = TRUE
    Keys <- MCKeys
    KeyLen <- WideKeyLen
    ValLen <- WideValLen
    Ops <- MCOps
SPECIFICATION RestartSpec
PROPERTIES
    CrashKeepsOthers
