SPECIFICATION HistorySpec
CONSTANTS
    Messages = {m1, m2, m3}
    LastMillis = 2
    Limits = {1, 2}
    MaxCrashes = 1
    DbMayFail = TRUE
INVARIANTS
    PagesFitTogether
    OnlyTiesAreMissed
PROPERTIES
    LoadingEnds
