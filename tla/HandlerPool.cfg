SPECIFICATION Spec
CONSTANTS
    c1 = c1
    c2 = c2
    main = main
    other = other
    third = third
    Calls = {c1, c2}
    Targets = {main, other, third}
    Primary = main
    PoolIds <- MCPoolIds
    MaxGeneration = 2
    MaxOpenPools = 2
SYMMETRY CallSymmetry
CONSTRAINT PublicationBound
INVARIANT
    HandlerPoolIsOpen
