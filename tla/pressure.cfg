SPECIFICATION FairSpec
CONSTANTS
    System = sys
    UserKeys = {u1}
    QueueSize = 1
    WakeRead = 1
    MaxMonitors = 1
    Configs <- MCConfigs
    BootConfig <- Slow
    PSIEventDriven = TRUE
    Exporter = TRUE
    MCPEnabled = FALSE
    Stdio = TRUE
    MaxReloads = 0
    MaxMCPOps = 0
PROPERTY PressureIsAnswered
CHECK_DEADLOCK FALSE
