SPECIFICATION BothSpec
CONSTANTS
    MaxIterations = 4
    Unlimited = 5
    MaxConsecutiveFail = 2
    FailureRetry = TRUE
    RetryLimit = 2
    CostLimit = TRUE
    MediumLimit = 2
    HighGrace = 1
    RequiresFiles = TRUE
    AntiBypass = FALSE
    MaxCalls = 2
    MaxCount = 17
INVARIANTS TurnsBounded AbortIsDeserved CallsAnswered BrakeHolds
PROPERTIES RunEnds
CHECK_DEADLOCK FALSE
