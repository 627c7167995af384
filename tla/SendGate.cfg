CONSTANTS
    Lanes = {l1}
    Handlers = {h1}
    CounterSpace = 16
    MaxOps = 3
    MaxKeys = 2
SPECIFICATION FairSpec
INVARIANTS
    SealedWithTheSessionsKey
    AckNeverStranded
PROPERTIES
    CountersIncrease
    HeartbeatsAnswered
