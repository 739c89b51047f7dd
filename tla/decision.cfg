SPECIFICATION HFairSpec
CONSTANTS
    Users = {u1}
    Watched = {"cpu", "ram", "io"}
    CPUThresholdDuration = 3
    IOThresholdDuration = 2
    MinActiveTime = 2
    EnoughCores = TRUE
    IgnoreSystemLoad = FALSE
    MCPWrite = TRUE
    Faults = TRUE
    SamplesRemembered = 0
PROPERTY SustainedOverload
PROPERTY MinimumServed
PROPERTY CalmEndsLimits
