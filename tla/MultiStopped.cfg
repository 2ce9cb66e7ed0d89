SPECIFICATION Spec
CONSTANTS
    A = A
    B = B
    a1 = a1
    a2 = a2
    b0 = b0
    b1 = b1
    NoTotal = NoTotal
    NoStatus = NoStatus
    NoLimit = NoLimit
    Added <- AddedTwice
    KeyOf <- TwoKeys
    ProviderOf <- TwoProviders
    Coordinators <- TwoCoordinators
    RetryStatuses <- TwoRetries
    Pages <- TwoPages
    Rpp = 2
    Responses <- Unprocessed
    Modes <- Grouped
    WorkerInputs <- AnyWorkers
INVARIANTS StoppedByErrorCode
CHECK_DEADLOCK FALSE
