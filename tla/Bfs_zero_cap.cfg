SPECIFICATION FairSpec
CONSTANTS
    N = 4
    EpochMax = 2
    Views <- MCViews
    Seeds <- MCSeeds
    Depths <- MCDepths
    Limits = {0, 2, 9}
INVARIANT ResultCap
