\* three threads, two keys
CONSTANTS
    Txns = {t1, t2, t3}
    Keys = {k1, k2}
    Vals = {v1}
    NoVal = NoVal
    NoTxn = NoTxn
    NoMap = NoMap
    MaxOps = 2
SPECIFICATION Spec
CHECK_DEADLOCK FALSE
INVARIANTS
    TypeOK
PROPERTIES
    ImplementsSerial
    EveryTxnEnds
