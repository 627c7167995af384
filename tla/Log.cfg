SPECIFICATION MCSpec
CONSTANTS
    p1 = p1
    p2 = p2
    f1 = f1
    f2 = f2
    Producers = {p1, p2}
    Items = {1, 2}
    Capacity = 2
    MaxEnqueued = 4
INVARIANTS
    PopsWhatWasPushed
    
    NoLostWake
PROPERTIES
    CallersReturn
CHECK_DEADLOCK FALSE
