SPECIFICATION Spec
CONSTANTS
    Users = {u1, u2, u3}
    Callers = {c1, c2}
    Faults = TRUE
    Kills = TRUE
    LateCalls = TRUE
SYMMETRY Symmetry
INVARIANT OnlyAccidentsForget
INVARIANT MapNamesExistingDirs
INVARIANT RefusedOnlyIfForgotten
