SPECIFICATION FairSpec
CONSTANTS
    e1 = e1
    x1 = x1
    x2 = x2
    None = None
    Events = {e1}
    Rules = {x1}
    Matching <- MCMatching
    Actions <- MCActions
    Concurrency = 2
    MaxAttempts = 2
    MaxStalled = 1
    Budget <- TwoJobs
PROPERTIES
    EveryMatchIsQueued
CHECK_DEADLOCK FALSE
