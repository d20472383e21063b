\* One dim in partial and one outside it, a label of either removed, one node materialised.
CONSTANTS
    a = a
    b = b
    h = h
    l = l
    Null = Null
    NoFile = NoFile
    Partial = {"e"}
    Others = {"u"}
    MaxRows = 2
    MaxDepth = 3
    MaxCaches = 2
    FillsEvery = TRUE
    Readds = FALSE
    Labels <- EULabels
    Rows <- EURows
    Axes <- EUAxes
SPECIFICATION Spec
INVARIANTS
    DeepestWins
    OnlyLiveLabels
    FlagsTellRows
    CachesChangeNothing
CHECK_DEADLOCK FALSE
