SPECIFICATION FairSpec
CONSTANTS
    b1 = b1
    b2 = b2
    b3 = b3
    Burns = {b1, b2}
    NoBurn = NoBurn
    Clients = {c1}
    QueueLockLimit = 1
    QueueLockGap = 2
    MaxFaults = 2
INVARIANTS
    TypeOK
    OfferIsKept
PROPERTIES
    ReleaseSeesQueue
    LockIsReleased
    LimitIsEnforced
