CONSTANTS
    Names <- MCNames
    LongNames <- MCLong
    Inputs <- MCInputs
    seed_data <- MCSeeds
    Garbage <- MCGarbage
    MaxOpenFaults = 1
    NoWealth = NoWealth
SPECIFICATION Spec
INVARIANTS
    TopIsRanking
