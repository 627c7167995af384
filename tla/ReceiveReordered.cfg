CONSTANTS
    MaxSessions = 1
    MaxCounter = 3
    Inputs = {}
    MaxReceived = 3
SPECIFICATION Spec
PROPERTY
    StreamsInOrder
