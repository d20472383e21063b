\* Two entities and the corridors between them, one carrier live and one dead.
CONSTANTS
    a = a
    b = b
    n = n
    m = m
    x = x
    z = z
    Plain = {"e", "k"}
    Multi = "c"
    NoRef = NoRef
    NoValue = NoValue
    NoFile = NoFile
    MaxEdits = 4
    Over <- MCOver
    Refers <- MCRefers
    Labels <- MCLabels
    Values <- MCValues
    Calls <- MCCalls
    Bases <- MCBases
SPECIFICATION Spec
INVARIANTS
    TypeOK
    StagedAxesAccepted
    PlacesKept
    ReferencesHeld
PROPERTIES
    ImplementsEditedAxes
CHECK_DEADLOCK FALSE
