SPECIFICATION Spec
CONSTANTS
    NumEvents = 4
    Texts = {2}
    Calls <- MCCalls
    Capacity = 2
    First = First
    Returning = {c1}
INVARIANT
    ReplayIsFull
CHECK_DEADLOCK FALSE
