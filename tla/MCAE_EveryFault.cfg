SPECIFICATION Spec
CONSTANTS
    a1 = a1
    a2 = a2
    Executions = {a1}
    Webhooks = {a1}
    Concurrency = 2
    MaxAttempts = 2
    MaxStalled = 1
    Total = 5
    Budget <- EveryFault
INVARIANTS
    TypeOK
    CallsBounded
    DeadLetterExhausted
    SoleRecorder
    FinalFailureRecorded
    SuccessWasAnswered
    AuditTrail
    OneOutcomePerAttempt
PROPERTIES
    KeepsPromise
CHECK_DEADLOCK FALSE
