CONSTANTS
    Names <- MCNames
    LongNames <- MCNone
    Inputs <- MCInputs
    seed_data <- MCSeeds
    Garbage <- MCGarbage
    MaxOpenFaults = 1
    NoWealth = NoWealth
SPECIFICATION Spec
INVARIANTS
    TypeOK
    TopIsRanking
    RankCountsThoseAhead
    EditsOutliveSeeds
