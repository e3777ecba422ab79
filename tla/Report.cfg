CONSTANTS
    Pools <- MCPools
    Reports <- MCReports
    Labels <- MCLabels
    Reported <- MCReported
    MaxPrints = 4
    Symbols <- MCSymbols
    Strings <- MCStrings
    Patterns <- MCPatterns
    Star = "*"
    Rects <- MCRects
    Overwrites <- MCOverwrites
    Outputs <- MCOutputs
    MaxUlps <- MCUlps
    Epsilons <- MCEpsilons
    MaxLen = 2
    Bits = 3
    MaxWidth = 4
SPECIFICATION MCSpec
INVARIANTS
    SearchTree
    WellFormedJson
    ReportsBenchmarks
    ScreenIsAsNoted
    MatchesAsMeant
    OverwritesCaught
    ReadsInRect
    DifferencesShown
    NearIsClose
    PixelsUpToMask
PROPERTY
    ImplementsFuncSet
