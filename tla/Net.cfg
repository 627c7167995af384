SPECIFICATION MCSpec
CONSTANTS
    s1 = s1
    s2 = s2
    MaxSessions = 3
    MaxCounter = 3
    Inputs = {1, 3}
    MaxReceived = 4
INVARIANTS
    RecordedIntoItsOwner
PROPERTIES
    InputsInOrder
    FirstDatagramAnswered
    ChangesAreShown
    
CHECK_DEADLOCK FALSE
