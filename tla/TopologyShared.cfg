CONSTANTS
    Devices = {d1, d2}
    Idx = {i1}
    NSerials = 2
    NSlots = 1
    Types = {"xbox", "ds4", "other"}
    Supported = {"xbox", "ds4"}
    Infos = {"plain", "mouse"}
    Tokens = {t1, t2}
    Readers = {r1}
SPECIFICATION FairSpec
INVARIANTS
    FrameReachesItsOwnPad
    HotMatchesCold
PROPERTY
    ChangeCompletes
