SPECIFICATION Spec
CONSTANTS
    Slots = {p2, p3}
    Perms = {viewer, full}
    MaxOpened = 2
    Workers = {w1, w2, w3}
    NoWorker = NoWorker
SYMMETRY MCSymmetry
VIEW MCView
INVARIANT TypeOK
INVARIANT SlotOwnsItsWorker
INVARIANT AnsweredAtMostOnce
 
CHECK_DEADLOCK FALSE
