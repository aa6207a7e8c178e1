SPECIFICATION Spec
CONSTANTS
    p2 = p2
    p3 = p3
    addr1 = addr1
    addr2 = addr2
    Slots = {p2}
    Callers = {addr1, addr2}
    Viewer = viewer
    Perms = {viewer}
    TtlChoices = {0, 2}
    DefaultTtl = 2
    MaxPinFailures = 2
    MaxCookies = 1
    Tier1 = 1
    Tier2 = 2
    Tier3 = 3
    LockShort = 1
    LockMedium = 2
    LockLong = 3
    MaxActivations = 1
    MaxTime = 5
    CrashInSave = FALSE
    SaveMayFail = TRUE
SYMMETRY MCSymmetry
PROPERTY LadderHolds
PROPERTY GrantedBeforeDeadline
CONSTRAINT MCHistoryBound
