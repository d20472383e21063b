\* Two Revision objects read, materialise and lose the nodes of a path of three
\* layers; `partial` is widened once, while records are held too, if they read
\* every layer and nobody is materialising.
CONSTANTS
    a = a
    b = b
    h = h
    l = l
    x = x
    y = y
    r1 = r1
    r2 = r2
    Null = Null
    NoFile = NoFile
    NoRecord = NoRecord
    NoTable = NoTable
    AllDims = {"e", "u", "w"}
    Revisions = {r1, r2}
    Shallowest = 2
    WidensFreely = FALSE
    Partials <- MCPartials
    Paths <- MCPaths
SPECIFICATION Spec
SYMMETRY Threads
INVARIANTS
    TypeOK
    ReadsWhole
    CachesWhole
CHECK_DEADLOCK FALSE
