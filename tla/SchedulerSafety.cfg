SPECIFICATION Spec
CONSTANTS
    NumRequests = 5
    MaxTasks = 2
    MaxHeavy = 1
    MaxRaster = 1
    MaxQueued = 2
ACTION_CONSTRAINTS
    LastRequestBound
    ImmediateBound
INVARIANTS
    TypeOK
    CountersExact
    WithinLimits
    WorkConserving
    ResultsNeverBlock
    AtMostOnce
    RetryIsSafe
    CancelledIsSilent
    CommittedIsReported
PROPERTIES
    NothingStartsAfterClose
    AdmissionPolicy
