SPECIFICATION MCSpec
CONSTANTS
    Half = 6
    Window = 3
    MaxConceal = 2
INVARIANTS
    PressesEndWithTheirBinding
    HostHoldsTheUnion
PROPERTIES
    
    ButtonIsLetGo
    PostersReturn
CHECK_DEADLOCK FALSE
