CONSTANTS
    a = a
    b = b
    h = h
    l = l
    Null = Null
    NoFile = NoFile
    Partial = {"e"}
    Others = {"u"}
    MaxBaseRows = 2
    MaxCalls = 2
    MaxAxisEdits = 1
    EditedDims = {"e"}
    Labels <- EULabels
    Bases <- EUBases
    CallRows <- EUCalls
SPECIFICATION Spec
INVARIANTS
    TypeOK
    LastSetWins
    CarriedReadsBase
    StagedLayersAccepted
    StagedLayersFold
    StagedLayersFilled
CHECK_DEADLOCK FALSE
