SPECIFICATION Spec
CONSTANTS
    e1 = e1
    x1 = x1
    x2 = x2
    None = None
    Events = {e1}
    Rules = {x1, x2}
    Matching <- MCMatching
    Actions <- MCActions
    Concurrency = 2
    MaxAttempts = 2
    MaxStalled = 1
    Budget <- OneJob
INVARIANTS
    TypeOK
    FanoutComplete
    DuplicatesBounded
    OrphansExplained
    ErrorIsUnfinished
CHECK_DEADLOCK FALSE
