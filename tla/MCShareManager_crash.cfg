SPECIFICATION Spec
CONSTANTS
    p2 = p2
    p3 = p3
    addr1 = addr1
    addr2 = addr2
    Slots = {p2}
    Callers = {addr1}
    Viewer = viewer
    Perms = {viewer, full}
    TtlChoices = {0, 1, 2}
    DefaultTtl = 2
    MaxPinFailures = 2
    MaxCookies = 1
    Tier1 = 2
    Tier2 = 3
    Tier3 = 4
    LockShort = 1
    LockMedium = 1
    LockLong = 1
    MaxActivations = 2
    MaxTime = 3
    CrashInSave = TRUE
    SaveMayFail = FALSE
PROPERTY EndsOnlyForCause
