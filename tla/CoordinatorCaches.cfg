SPECIFICATION FairSpec
CONSTANTS
    Requests <- Two
    Schemas <- TwoSchemas
    RequestFlags <- Both
    ProcessFlags <- Both
    Cacheable <- Stored
    Faults = TRUE
    MaxVersion = 2
    MaxRetries = 1
    BackoffFactor = 1
    MaxBackoff = 1
    RaiseOnError = FALSE
    ValidStatuses <- Accepts
    RetryStatuses <- Retried
    Responses <- Mixed
    NoResponse = NoResponse
    Horizon = 1
INVARIANTS CoordinatorInv
PROPERTIES MonotonicReads PauseRespected SearchReturns
