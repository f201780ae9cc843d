SPECIFICATION Spec
CONSTANTS
    p1 = p1
    p2 = p2
    cache = cache
    logs = logs
    Processes = {p1, p2}
    Entries = {cache, logs}
    MaxGhosts = 2
    MaxBehind = 1
SYMMETRY CommandSymmetry
CONSTRAINT OverlapBound
INVARIANTS
    TypeOK
    TreesInPlace
    StatusTellsLayoutUnlessUndone
    PreservedOnce
    PreservedFollow
    HolderOwnsLock
CHECK_DEADLOCK FALSE
