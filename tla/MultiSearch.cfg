SPECIFICATION FairSpec
CONSTANTS
    A = A
    B = B
    a1 = a1
    a2 = a2
    b0 = b0
    b1 = b1
    NoTotal = NoTotal
    NoStatus = NoStatus
    NoLimit = NoLimit
    Added <- AddedTwice
    KeyOf <- TwoKeys
    ProviderOf <- TwoProviders
    Coordinators <- TwoCoordinators
    RetryStatuses <- TwoRetries
    Pages <- ZeroAndTwoPages
    Rpp = 2
    Responses <- AllResponses
    Modes <- AllModes
    WorkerInputs <- AnyWorkers
INVARIANTS DeliveredOnceInOrder EveryQueryServed NoQueryAfterRefusal RoundRobinEven
PROPERTIES SearchEnds
CHECK_DEADLOCK FALSE
