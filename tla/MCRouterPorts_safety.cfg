SPECIFICATION Spec
CONSTANTS
    Sessions = {b1, b2}
    Slots = {s1}
    TunnelPorts = {1, 2, 3}
    MediaPorts = {4}
    Cap = 2
    MaxStirs = 2
SYMMETRY MCSymmetry
INVARIANTS NobodyWaitsForNothing HolesAccounted
 
CHECK_DEADLOCK FALSE
