\* The same, with `partial` widened whatever records are held and written from.
CONSTANTS
    a = a
    b = b
    h = h
    l = l
    x = x
    y = y
    r1 = r1
    r2 = r2
    Null = Null
    NoFile = NoFile
    NoRecord = NoRecord
    NoTable = NoTable
    AllDims = {"e", "u", "w"}
    Revisions = {r1, r2}
    Shallowest = 2
    WidensFreely = TRUE
    Partials <- MCPartials
    Paths <- MCPaths
SPECIFICATION Spec
SYMMETRY Threads
INVARIANTS
    CachesWhole
CHECK_DEADLOCK FALSE
