SPECIFICATION HFairSpec
CONSTANTS
    Users = {u1}
    CheckInterval = 1
    Threshold = 0
    BoostDuration = 1
    MaxPerHour = 2
    RevertOnNormal = TRUE
    Hour = 3
    MaxAge = 5
INVARIANT HourlyLimit
PROPERTY BoostsExpire
