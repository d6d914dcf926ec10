SPECIFICATION Spec
CONSTANTS
    Threads = {t1, t2}
    Calls = {c1, c2, c3}
    MaxNew = 2
    None = None
    DbMayFail = TRUE
INVARIANTS
    TypeOK
    ReplacementIsWhole
PROPERTIES
    ImplementsHistories
CHECK_DEADLOCK FALSE
