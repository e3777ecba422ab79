CONSTANTS
    NoFunc = NoFunc
    NoKey = NoKey
    None = None
    RefValue = 0
    SampleLimit = 2
    Interrupts = {"SIGINT"}
    Names <- TwoFunctions
    Flags <- OneFlag
    Keys <- MCKeys
    Behaviour <- MCBehaviour
    Value <- MCValue
    Configs <- AbortConfigs
SPECIFICATION HSpec
INVARIANTS
    JumpsOnlyOutOfTests
