SPECIFICATION Spec
CONSTANTS
    Slots = {p2}
    Perms = {viewer}
    MaxOpened = 1
    Workers = {w1, w2, w3}
    NoWorker = NoWorker
SYMMETRY MCSymmetry
INVARIANT PortsReleasedFirst
CHECK_DEADLOCK FALSE
