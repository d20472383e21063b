\* Two writers on S3, the second at times without permission to read the manifest.
CONSTANTS
    w1 = w1
    w2 = w2
    Writers = {w1, w2}
    Readers = {w1}
    Attempts = 2
    Remote = TRUE
    Absent = Absent
    Undeclared = Undeclared
    Schemas <- MCSchemas
SPECIFICATION FairSpec
INVARIANTS
    TypeOK
    ReconciledStillRead
    RefusalIsFinal
PROPERTIES
    ImplementsRegistry
    Terminates
CHECK_DEADLOCK FALSE
