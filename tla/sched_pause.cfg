SPECIFICATION Spec
CONSTANTS
    Tasks = {t1, t2}
    Recurring = {t1}
    Handles = {h1, h2}
    NoTask = NoTask
    MaxConcurrent = 1
    MaxCrashes = 0
    DbMayFail = FALSE
PROPERTIES
    PausedUntilResumed
