SPECIFICATION Spec
CONSTANTS
    p1 = p1
    p2 = p2
    p3 = p3
    q1 = q1
    q2 = q2
    q3 = q3
    addr = addr
    other = other
    Burns = {p1, p2}
    NoBurn = NoBurn
    Amount <- MCWholeLimit
    Home <- MCHome
    Premined = {addr}
    AllowedMax <- MCAllowedMax
    Clients = {c1, c2}
    QueueSizeLimit = 4
    TotalSupply = 4
    Confirmations = 0
    MaxHeight = 2
    MaxReorg = 1
    MaxFaults = 1
    RemovalMayRepeat = FALSE
    ReadsMayRetry = FALSE
SYMMETRY IntakeSymmetry
INVARIANTS
    TypeOK
    BurnOnce
    PreminedAccounting
    PreminedWithinLimit
PROPERTIES
    StagesSpec
