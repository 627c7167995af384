CONSTANTS
    Levels = {1, 2}
    Colours = {}
    Wire = 10
    Refresh = 4
    HapticWire = 2
    HapticRefresh = 1
    Period = 2
    MaxPlugs = 1
    MaxEpoch = 1
SPECIFICATION Spec
PROPERTY
    HeldLevelNeverGaps
