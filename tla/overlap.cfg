SPECIFICATION Spec
CONSTANTS
    Users = {u1, u2}
    PSIEnabled = FALSE
    ResourceLimits = FALSE
    AutodetectPatterns = FALSE
    MCPWrite = FALSE
    Faults = FALSE
    ManyProcesses = FALSE
    Sessions = FALSE
    Shutdowns = TRUE
    Crashes = FALSE
    MaxTasks = 2
SYMMETRY Symmetry
CONSTRAINT OneUnknown
INVARIANT QuotaEnforced
INVARIANT ShutdownFreesIfTracked
PROPERTY PathClearedOnlyWhenQuiet
