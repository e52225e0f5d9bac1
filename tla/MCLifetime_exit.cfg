SPECIFICATION FairSpec
CONSTANTS
    Address <- MCAddress
    HASH_SIZE = 3
    Size <- MCSizes
    Bytes <- MCBytes
    Addrs = 2
    Room = 3
    Errors = 2
CHECK_DEADLOCK FALSE
INVARIANTS HeapInv LifetimeTypeOK AccountsExact AllFreed FreesMatched OneSocket
PROPERTIES ImplementsHeap InterruptEnds
