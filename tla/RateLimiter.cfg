SPECIFICATION FairSpec
CONSTANTS
    t1 = t1
    t2 = t2
    Threads <- Two
    NoThread = NoThread
    Default = 2
    Inputs <- MixedInputs
    Assigned <- OneAssigned
    Floor = 1
    Horizon = 3
INVARIANTS LimiterInv RestoredWhenNested
PROPERTIES AdmissionSpacing ImplementsThrottle AdmissionsContinue
