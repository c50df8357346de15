SPECIFICATION FairSpec
CONSTANTS
    e1 = e1
    x1 = x1
    x2 = x2
    None = None
    Events = {e1}
    Rules = {x1, x2}
    Matching <- MCMatching
    Actions <- MCActions
    Concurrency = 1
    MaxAttempts = 2
    MaxStalled = 1
    Budget <- NoFaults
PROPERTIES
    EvaluationEnds
CHECK_DEADLOCK FALSE
