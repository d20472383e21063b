\* Two dims in partial, three layers, a label of one removed and added again.
CONSTANTS
    a = a
    b = b
    h = h
    l = l
    Null = Null
    NoFile = NoFile
    Partial = {"e", "s"}
    Others = {}
    MaxRows = 4
    MaxDepth = 3
    MaxCaches = 0
    FillsEvery = FALSE
    Readds = TRUE
    Labels <- ESLabels
    Rows <- ESRows
    Axes <- ESAxes
SPECIFICATION Spec
INVARIANTS
    TypeOK
    DeepestWins
    OnlyLiveLabels
    FlagsTellRows
    FlagsTellNoMore
CHECK_DEADLOCK FALSE
