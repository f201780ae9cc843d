SPECIFICATION Spec
CONSTANTS
    c1 = c1
    c2 = c2
    f1 = f1
    f2 = f2
    Calls = {c1, c2}
    Files = {f1, f2}
    Anchor = f1
    Tools = {"diagnostics", "reference", "compare", "artifact", "baseline", "refresh"}
    Size <- ResultSizes
    MaxBytes = 2
    MaxEntry = 2
    MaxWrites = 4
    PairWrites = 2
CONSTRAINT PairBound
SYMMETRY CallSymmetry
INVARIANTS
    TypeOK
    CacheIsTrue
    BytesExact
    CommittedStands
PROPERTIES
    SnapshotAnswers
