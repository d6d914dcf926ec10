SPECIFICATION Spec
CONSTANTS
    Runs = {r1}
    Sessions = {s1}
    Stops = {x1, x2}
    NoSession = NoSession
    NoRun = NoRun
    Agent = Agent
    Workers = 2
INVARIANTS
    TypeOK
    AnswersAreKept
    EndedRunsAreUnlisted
PROPERTIES
    StopEndsRun
    RunsLeaveTheMaps
CHECK_DEADLOCK FALSE
