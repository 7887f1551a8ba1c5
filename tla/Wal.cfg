\* two pages, crashes of process and machine, failed writes; a client that follows wal.h
CONSTANTS
    MaxPid = 1
    Data = {d0, d1}
    InitData = fresh
    ZeroData = zero
    NoData = NoData
    Garbage = Garbage
    SkipsByCount = FALSE
    WritesOn = FALSE
    LateLoss = FALSE
    MaxLog = 3
    MaxCrash = 2
    MaxFaults = 1
SPECIFICATION Spec
INVARIANTS
    TypeOK
    AppendsAligned
    CorruptStillRestored
PROPERTIES
    ImplementsDurable
