CONSTANTS
    BlockSize = 4
    CacheSize = 8
    Word = 2
    MaxTries = 3
    MaxCalls = 3
    MaxBefore = 1
    NormalsBefore = TRUE
    Seeds <- MCSeeds
    Widths <- MCWidths
    Fills <- MCFills
    Rejected <- MCRejected
SPECIFICATION TwiceSpec
INVARIANT
    SameNumbers
