SPECIFICATION Spec
CONSTANTS
    Questions = {q1, q2}
    Scheduled = {q2}
    Answers = {yes, no}
    Responses = {x1, x2, x3}
    NoAnswer = NoAnswer
    NoQuestion = NoQuestion
INVARIANTS
    TypeOK
    OneAnswerAccepted
    NoStaleEntry
PROPERTIES
    AcceptedAnswerArrives
    EveryQuestionEnds
    ImplementsAnswerOnce
CHECK_DEADLOCK FALSE
