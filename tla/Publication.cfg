SPECIFICATION Spec
CONSTANTS
    p1 = p1
    p2 = p2
    Processes = {p1, p2}
    MaxDatabases = 3
    MaxTree = 3
    MaxGeneration = 3
    MaxSaves = 1
SYMMETRY ProcessSymmetry
INVARIANTS
    TypeOK
    PublishedIsComplete
    BaselinesSurvive
    CASProtectsStaleMark
PROPERTIES
    PublicationFollowsOn
