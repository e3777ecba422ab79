CONSTANTS
    Cores <- TwoCores
    Hosts <- MCHosts
    RunConfigs <- MCRunConfigs
    MaxRuns = 2
    Texts <- MCTexts
    CmdLines <- MCCmdLines
    UIntMax = 15
    ULongMax = 63
    HtmlData = TRUE
    CpuFiles <- MCCpuFiles
    Registries <- MCRegistries
    Affinities <- MCAffinities
    MaxCores = 3
    Implementers <- MCImplementers
    NameLen <- MCNameLen
    BufLen = 12
    SizeMax = 63
    X86s <- MCX86s
    RiscVs <- MCRiscVs
    Arms <- MCArms
    BlockSize = 4
    CacheSize = 8
    Word = 2
    MaxTries = 3
    MaxCalls = 6
    MaxBefore = 3
    NormalsBefore = FALSE
    Seeds <- MCSeeds
    Widths <- MCWidths
    Fills <- MCFills
    Rejected <- MCRejected
SPECIFICATION MCSpec
INVARIANTS
    TimerIsWhole
    CountsEverywhere
    ArmedInLiveFrame
    AffinityKept
    SurvivesTimers
    ConfigAsMeant
    CoresListed
    PrintsInBuffer
    NoIllegalInstruction
    CheckedCallExists
    SameNumbers
PROPERTY
    NoByteTwice
