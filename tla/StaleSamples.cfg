CONSTANTS
    NoFunc = NoFunc
    NoKey = NoKey
    None = None
    RefValue = 0
    SampleLimit = 2
    Interrupts = {}
    Names <- TwoFunctions
    Flags <- OneFlag
    Keys <- MCKeys
    Behaviour <- MCBehaviour
    Value <- MCValue
    Configs <- StaleSampleConfigs
SPECIFICATION HSpec
PROPERTIES
    SamplesOfOneFunction
