SPECIFICATION Spec
CONSTANTS
    Requests <- One
    Schemas <- OneSchema
    RequestFlags <- Only
    ProcessFlags <- Default
    Cacheable <- Stored
    Faults = FALSE
    MaxVersion = 1
    MaxRetries = 1
    BackoffFactor = 1
    MaxBackoff = 2
    RaiseOnError = FALSE
    ValidStatuses <- Accepts
    RetryStatuses <- Retried
    Responses <- InSeconds
    NoResponse = NoResponse
    Horizon = 3
PROPERTIES EveryPauseRespected
