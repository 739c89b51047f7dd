SPECIFICATION FairSpec
CONSTANTS
    System = sys
    UserKeys = {u1}
    QueueSize = 1
    WakeRead = 1
    MaxMonitors = 2
    Configs <- MCConfigs
    BootConfig <- Slow
    PSIEventDriven = TRUE
    Exporter = TRUE
    MCPEnabled = TRUE
    Stdio = TRUE
    MaxReloads = 1
    MaxMCPOps = 1
INVARIANT PollSetIsFresh
INVARIANT NoCycleSkipped
INVARIANT StopWakesPoller
PROPERTY CyclesGoOn
PROPERTY ShutdownCompletes
PROPERTY IntervalsFollow
CHECK_DEADLOCK FALSE
