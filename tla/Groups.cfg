CONSTANTS
    NoFunc = NoFunc
    NoKey = NoKey
    None = None
    RefValue = 0
    SampleLimit = 2
    Interrupts = {}
    Names <- ThreeFunctions
    Flags <- OneFlag
    Keys <- MCKeys
    Behaviour <- MCBehaviour
    Value <- MCValue
    Configs <- GroupConfigs
SPECIFICATION HSpec
INVARIANTS
    TypeOK
    OneCrashAtATime
    NothingSetAside
    GroupIsCounted
    NoCallAfterCrash
    ExitStatus
    EveryVersionCounted
PROPERTIES
    RightReport
