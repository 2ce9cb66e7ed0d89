SPECIFICATION FairSpec
CONSTANTS
    MaxRetries = 3
    BackoffFactor = 1
    MaxBackoff = 4
    RaiseOnError = TRUE
    ValidStatuses <- Accepts
    RetryStatuses <- Retried
    Responses <- MCResponses
    NoResponse = NoResponse
    Horizon = 6
INVARIANTS OutcomeJustified AttemptsBounded
PROPERTIES RetrySpacing CallEnds
