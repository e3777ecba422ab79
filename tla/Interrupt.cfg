CONSTANTS
    NoFunc = NoFunc
    NoKey = NoKey
    None = None
    RefValue = 0
    SampleLimit = 2
    Interrupts = {"SIGINT", "SIGTERM"}
    Names <- ThreeFunctions
    Flags <- OneFlag
    Keys <- MCKeys
    Behaviour <- MCBehaviour
    Value <- MCValue
    Configs <- SignalConfigs
SPECIFICATION Spec
PROPERTIES
    CrashesAreCaught
    InterruptLeavesCall
    ImplementsTally
