SPECIFICATION Spec
CONSTANTS
    Slots = {p2}
    Perms = {viewer, full}
    MaxOpened = 1
    Workers = {w1, w2}
    NoWorker = NoWorker
SYMMETRY MCSymmetry
INVARIANT PolicyFollowsBoard
CHECK_DEADLOCK FALSE
