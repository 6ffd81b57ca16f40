CONSTANTS
    Threads = {p1, p2, p3, p4, p5}
    InitialValue = 1
    MaxValue = 3
    None = None
SPECIFICATION Spec
INVARIANTS
    NoLostWakeup
PROPERTIES
    Implements
