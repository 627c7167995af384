SPECIFICATION MCSpec
SYMMETRY Symmetry
CONSTANTS
    r1 = r1
    r2 = r2
    i1 = i1
    i2 = i2
    t1 = t1
    t2 = t2
    t3 = t3
    Readers = {r1, r2}
    Guests = {g1}
    Words = {w1, w2}
    ProcessBarrier = TRUE
    MaxWrites = 2
    MaxBrackets = 2
INVARIANTS
    BackendMatchesPads
    ReportMatchesApplied
PROPERTIES
    EpochMovesWithPads
    ImplementsAtomicSlot
