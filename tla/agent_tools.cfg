SPECIFICATION Spec
CONSTANTS
    MaxCalls = 2
    MaxTexts = 1
    MaxUses = 2
    InCap = 2
    OutCap = 1
    PipeCap = 2
    MaxOutput = 3
INVARIANTS
    ProgressIsBracketed
    ResultIsWhole
PROPERTIES
    CallsReturn
CHECK_DEADLOCK FALSE
