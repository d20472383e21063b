\* Two threads, three revisions, two of whose files are at times not to be read.
\* One of the threads lists.
CONSTANTS
    t1 = t1
    t2 = t2
    r1 = r1
    r2 = r2
    r3 = r3
    Threads = {t1, t2}
    Ids = {r1, r2, r3}
    Root = Root
    Missing = Missing
    Parents <- InOrder
    Unreadable = {r1, r2}
    Listers = {t1}
SPECIFICATION FairSpec
INVARIANTS
    TypeOK
    RowsAreReal
    FoundIsHeld
    ListingComplete
    NoFalseMiss
    QuietTableClosed
PROPERTIES
    Terminates
