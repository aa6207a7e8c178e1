\* Two launches at a time by one browser, on a host that gives each device its
\* own session and on the native host, next to one invited player.
SPECIFICATION Spec
CONSTANTS
    Workers = {w1, w2}
    Hosts = {wolf, native}
    MultiUser = {wolf}
    SideBySide = {native}
    Apps = {1, 2}
    Browsers = {b1}
    kGuestSlots = 1
    kMaxSlots = 4
    Cap = 2
    NativeHost = native
    virtualDisplayAppId = 2
    NoWorker = NoWorker
    NoHost = NoHost
    NoUid = NoUid
    NoCancel = NoCancel
    NoLaunch = NoLaunch
SYMMETRY MCSymmetry
VIEW MCView
INVARIANTS TypeOK SlotMatchesLaunch AnsweredAtMostOnce
PROPERTIES FreshLaunchSparesOthers HeldCancelSparesStreams LastOnHostReleasesDisplay
CHECK_DEADLOCK FALSE
