SPECIFICATION Spec
CONSTANTS
    F = F
    G = G
    H = H
    o = o
    q = q
    f = f
    g = g
    old = old
    new = new
    None = None
    Absent = Absent
    Paths = {F, G, H}
    Objects = {o, q}
    Fields = {f, g}
    Values = {old, new}
    ObjectOrder <- MCOrder
    Inputs <- MCInputs
    ManualFiles <- MCManualFiles
    Reviewed <- MCReviewed
    MaxReviews = 5
INVARIANTS
    MovesAreAsked
\* A transaction rests when it is built or waits for its reviewer.
CHECK_DEADLOCK FALSE
