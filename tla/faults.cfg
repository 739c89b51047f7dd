SPECIFICATION FairSpec
CONSTANTS
    Users = {u1, u2}
    PSIEnabled = FALSE
    ResourceLimits = FALSE
    AutodetectPatterns = TRUE
    MCPWrite = FALSE
    Faults = TRUE
    ManyProcesses = TRUE
    Sessions = TRUE
    Shutdowns = TRUE
    Crashes = TRUE
    MaxTasks = 1
INVARIANT TypeOK
INVARIANT BookkeepingConsistent
PROPERTY DeactivationEnds
PROPERTY ShutdownEnds
