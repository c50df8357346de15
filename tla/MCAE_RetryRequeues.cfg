SPECIFICATION FairSpec
CONSTANTS
    a1 = a1
    a2 = a2
    Executions = {a1}
    Webhooks = {a1}
    Concurrency = 1
    MaxAttempts = 2
    MaxStalled = 1
    Total = 1
    Budget <- OneRetry
PROPERTIES
    PendingIsProcessed
CHECK_DEADLOCK FALSE
