SPECIFICATION MCSpec
CHECK_DEADLOCK FALSE
CONSTANTS
    d1 = d1
    d2 = d2
    t1 = t1
    t2 = t2
    Period = 3
    MaxFails = 3
    MaxTime = 12
    MaxPins = 6
INVARIANTS
    ShownPinWorks
    
    PadHasItsGamesLevel
    LightIsShown
    HeldLevelRuns
    MotorsStop
    MicReachesItsPad
    AudioReachesItsPlayer
