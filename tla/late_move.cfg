SPECIFICATION Spec
CONSTANTS
    Users = {u1, u2}
    PSIEnabled = FALSE
    ResourceLimits = FALSE
    AutodetectPatterns = FALSE
    MCPWrite = FALSE
    Faults = FALSE
    ManyProcesses = FALSE
    Sessions = FALSE
    Shutdowns = FALSE
    Crashes = FALSE
    MaxTasks = 2
SYMMETRY Symmetry
INVARIANT NoStrandedUser
