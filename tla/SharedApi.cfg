SPECIFICATION Spec
CONSTANTS
    Threads <- Two
    Registered <- Registry
    Limited <- NoNames
    Made <- UserApi
    Scenarios <- Programs
    Providers <- AllProviders
    KeySite <- Keys
    MaxSize = 50
    Answers <- AnyAnswer
    Normal <- Names
    Environment <- Env
INVARIANTS Restored RequestAsPrepared RequestCoherent OneLimiter
PROPERTIES WorkflowResultOwn
