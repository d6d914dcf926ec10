SPECIFICATION Spec
CONSTANTS
    NumEvents = 4
    Texts = {2}
    Calls <- MCCalls
    Capacity = 2
    First = First
    Returning = {c1}
INVARIANTS
    RecordIsPrefix
    NothingShownTwice
    FirstClientMissesNothing
PROPERTIES
    StreamsEnd
CHECK_DEADLOCK FALSE
