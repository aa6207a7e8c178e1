SPECIFICATION Spec
CONSTANTS
    p2 = p2
    p3 = p3
    addr1 = addr1
    addr2 = addr2
    Slots = {p2, p3}
    Callers = {addr1}
    Viewer = viewer
    Perms = {viewer, full}
    TtlChoices = {2}
    DefaultTtl = 2
    MaxPinFailures = 2
    MaxCookies = 1
    Tier1 = 1
    Tier2 = 1
    Tier3 = 1
    LockShort = 1
    LockMedium = 1
    LockLong = 1
    MaxActivations = 2
    MaxTime = 2
    CrashInSave = TRUE
    SaveMayFail = FALSE
SYMMETRY MCSymmetry
INVARIANT TypeOK
INVARIANT OneDevicePerInvitation
INVARIANT GuessBudget
PROPERTY NoResurrection
PROPERTY ImplementsInvitations
