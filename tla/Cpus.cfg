CONSTANTS
    NoFunc = NoFunc
    NoKey = NoKey
    None = None
    RefValue = 0
    SampleLimit = 2
    Interrupts = {}
    Names <- TwoFunctions
    Flags <- TwoFlags
    Keys <- MCKeys
    Behaviour <- MCBehaviour
    Value <- MCValue
    Configs <- CpuConfigs
SPECIFICATION Spec
INVARIANTS
    FlagsSupported
PROPERTIES
    Terminates
