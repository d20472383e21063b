\* Two writers on S3, one at times without permission to read the manifest; three revisions.
CONSTANTS
    w1 = w1
    w2 = w2
    r1 = r1
    r2 = r2
    r3 = r3
    Writers = {w1, w2}
    Readers = {w1}
    Attempts = 2
    Remote = TRUE
    Absent = Absent
    Undeclared = Undeclared
    Ids = {r1, r2, r3}
    Root = Root
    NoFile = NoFile
    Schemas <- MCSchemas
SPECIFICATION Spec
SYMMETRY Symmetry
INVARIANTS
    TypeOK
    PublishedReadable
    WidenedForALayer
PROPERTIES
    ImplementsRecordStore
CHECK_DEADLOCK FALSE
