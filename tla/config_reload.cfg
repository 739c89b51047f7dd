SPECIFICATION FairSpec
CONSTANTS
    u1 = u1
    u2 = u2
    p1 = p1
    p2 = p2
    cut = cut
    bad = bad
    Users = {u1, u2}
    Patterns = {p1, p2, cut, bad}
    Compiles = {p1, p2, cut}
    Matches <- MCMatches
    ReadAs <- MCReadAs
    Start <- Fine
    Texts <- MCTexts
    Environs <- MCEnvirons
    Requests <- MCRequests
    MaxWrites = 2
    MaxCalls = 1
    Overlap = FALSE
    SavedElsewhere = FALSE
INVARIANT OnlySoundConfigs
INVARIANT PartsAgree
INVARIANT SavedListsReload
INVARIANT KnownFileInForce
PROPERTY EditsTakeEffect
