SPECIFICATION FairSpec
CONSTANTS
    NumRequests = 3
    MaxTasks = 1
    MaxHeavy = 1
    MaxRaster = 1
    MaxQueued = 1
PROPERTIES
    EveryCallSettles
    SessionEnds
