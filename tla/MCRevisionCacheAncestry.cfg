\* Two threads that look revisions up and create them, two revisions.
CONSTANTS
    t1 = t1
    t2 = t2
    r1 = r1
    r2 = r2
    r3 = r3
    Threads = {t1, t2}
    Ids = {r1, r2}
    Root = Root
    Missing = Missing
    Parents <- InOrder
    Unreadable = {}
    Listers = {}
SPECIFICATION Spec
INVARIANTS
    AncestryWhole
