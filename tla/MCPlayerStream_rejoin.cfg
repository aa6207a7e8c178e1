SPECIFICATION FairSpec
CONSTANTS
    Slots = {p2}
    Perms = {viewer}
    MaxOpened = 1
    Workers = {w1, w2}
    NoWorker = NoWorker
PROPERTY LeftPlayerCanRejoin
CHECK_DEADLOCK FALSE
