SPECIFICATION LiveSpec
CONSTANTS
    Tasks = {t1, t2}
    Recurring = {t1}
    Handles = {h1, h2}
    NoTask = NoTask
    MaxConcurrent = 1
    MaxCrashes = 1
    DbMayFail = TRUE
INVARIANTS
    TypeOK
    ConcurrencyLimit
    NoOverlappingRuns
    RunsAreOwed
    WakeupNotLost
PROPERTIES
    InactiveNeedsOperator
    DueTaskStarts
    ImplementsRegistry
