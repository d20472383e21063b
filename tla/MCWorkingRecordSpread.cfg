\* Two partial dims: a base row naming the one, two calls naming the other.
CONSTANTS
    a = a
    b = b
    h = h
    l = l
    Null = Null
    NoFile = NoFile
    Partial = {"e", "f"}
    Others = {"u"}
    MaxBaseRows = 1
    MaxCalls = 2
    MaxAxisEdits = 0
    EditedDims = {"e"}
    Labels <- EFULabels
    Bases <- EFUBases
    CallRows <- EFUCalls
SPECIFICATION Spec
INVARIANTS
    LastSetWins
CHECK_DEADLOCK FALSE
