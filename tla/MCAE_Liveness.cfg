SPECIFICATION FairSpec
CONSTANTS
    a1 = a1
    a2 = a2
    Executions = {a1, a2}
    Webhooks = {a1}
    Concurrency = 1
    MaxAttempts = 2
    MaxStalled = 1
    Total = 2
    Budget <- Outages
PROPERTIES
    EnqueuedTerminates
    EveryActionSettles
CHECK_DEADLOCK FALSE
