SPECIFICATION FairSpec
CONSTANTS
    Users = {u1, u2}
    PSIEnabled = TRUE
    ResourceLimits = TRUE
    AutodetectPatterns = FALSE
    MCPWrite = TRUE
    Faults = FALSE
    ManyProcesses = FALSE
    Sessions = FALSE
    Shutdowns = FALSE
    Crashes = FALSE
    MaxTasks = 1
INVARIANT LimitedUsersConfined
INVARIANT ResourceLimitsLifted
INVARIANT NoStrandedUser
PROPERTY ReleasedUsersLeave
PROPERTY LimiterSpec
