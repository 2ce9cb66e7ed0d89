SPECIFICATION FairSpec
CONSTANTS
    t1 = t1
    t2 = t2
    s1 = s1
    s2 = s2
    pubmed = pubmed
    pubmed2 = pubmed2
    Threads <- Two
    NoThread = NoThread
    Storages <- Pair
    Space <- PairSpaces
    Longer <- LongerName
    TTL <- PairTTL
    Keys = {1}
    Flags <- OneRaises
    Backends <- AllBackends
INVARIANTS FlagRestored ExpiryKept
PROPERTIES DoneWhenReturned OnlyOwnNamespace LockReleased
