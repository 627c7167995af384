CONSTANTS
    Devices = {d1}
    Threads = {t1}
    kMaxPending = 1
    MaxKeys = 3
    MaxSessions = 1
SPECIFICATION Spec
INVARIANT
    SessionFollowsKey
